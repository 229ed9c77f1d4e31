--------------------------- MODULE JtagLinkProofs ---------------------------
(***************************************************************************)
(* The JTAG read path for every size of the ring and of the scans, every   *)
(* walk of the TAP and every interleaving of the clocks.  The engine keeps *)
(* the ring's contract, so the ring's own invariant (JtagRingProofs) holds *)
(* here, and what the host is shown follows from both.                     *)
(***************************************************************************)
EXTENDS JtagLink, SequenceTheorems, BasicFacts

RP == INSTANCE JtagRingProofs

(* The engine by itself: when it commits and aborts, and in which states   *)
(* of the TAP a response is on its way.                                    *)
Engine ==
    /\ payload_commit \/ payload_abort => tap = "Idle" /\ ~response_active
    /\ ~(payload_commit /\ payload_abort)
    /\ rolled_back => tap \in {"Idle", "Capture", "Reset"}
    /\ response_active => /\ tap \in {"Shift", "Pause", "Update"}
                          /\ response_opcode # "none"
    /\ pending_response => response_opcode # "none"
    /\ response_opcode = "header" => response_length = HEADER_LENGTH
    /\ response_opcode = "payload" => response_length \in Lengths

EngineTypes ==
    /\ tap \in DOMAIN TapNext
    /\ bit_count \in 0 .. BIT_MAX
    /\ response_length \in 0 .. MAX_PAYLOAD \cup {HEADER_LENGTH}
    /\ response_opcode \in {"none", "header", "payload"}
    /\ {pending_response, response_active, payload_commit, payload_abort}
         \subseteq BOOLEAN

DataTypes ==
    /\ header_snapshot \in (0 .. COUNT_MOD - 1) \X (0 .. COUNT_MOD - 1) \X Nat
    /\ tdo_bytes \in Seq(Nat \cup {NoByte})
    /\ credit \in Nat

(* The header being shown is of one instant and still true.                *)
Snapshot ==
    header_req => /\ rd_work = rd_bin
                  /\ header_snapshot[2] = read_count
                  /\ (header_snapshot[1] - header_snapshot[2]) % COUNT_MOD
                       = header_snapshot[3]
                  /\ header_snapshot[3] <= wr_rd2 - rd_bin

(* What the host sees of a response the last header vouches for: the byte  *)
(* due at a place, byte by byte, and what the ring gave out for it.        *)
Due(i) == IF header_req THEN header_snapshot[i] ELSE rd_bin + i - 1

Vouched == \/ header_req
           \/ payload_req /\ response_length <= credit

Shown ==
    Vouched =>
      /\ bit_count <= response_length * BITS
           => Len(tdo_bytes) = bit_count \div BITS
      /\ \A i \in 1 .. Len(tdo_bytes) : tdo_bytes[i] = Due(i)
      /\ bit_count < response_length * BITS /\ bit_count % BITS # 0
           => tdo_byte = Due(Len(tdo_bytes) + 1)
      /\ payload_req => rd_work = rd_bin + Len(tdo_bytes)

(* What was promised is there, also while a commit is on its way.          *)
Promise == /\ credit <= wr_rd2 - rd_bin
           /\ payload_commit => credit <= wr_rd2 - rd_work

EngineInv == EngineTypes /\ Engine
LinkInv   == /\ EngineInv /\ DataTypes /\ NoLeftover /\ Snapshot
             /\ Shown /\ Promise

-----------------------------------------------------------------------------
(* Bits and bytes.                                                         *)

LEMMA Constants ==
    /\ SIZE \in Nat /\ SIZE >= 4 /\ SIZE <= COUNT_MOD /\ COUNT_MOD \in Nat \ {0}
    /\ BITS \in Nat \ {0} /\ BITS >= 2 /\ MAX_PAYLOAD \in Nat \ {0}
    /\ BIT_MAX \in Nat /\ REQUEST_BITS \in Nat
    /\ BIT_MAX > BITS * MAX_PAYLOAD /\ BIT_MAX > BITS * HEADER_LENGTH
BY SizeAssumption, CountAssumption, LinkAssumption

LEMMA NextBit ==
    ASSUME NEW n \in Nat
    PROVE  /\ n \div BITS \in Nat /\ n % BITS \in 0 .. BITS - 1
           /\ n % BITS = BITS - 1 =>
                (n + 1) \div BITS = (n \div BITS) + 1 /\ (n + 1) % BITS = 0
           /\ n % BITS # BITS - 1 =>
                (n + 1) \div BITS = n \div BITS /\ (n + 1) % BITS = (n % BITS) + 1
<1> DEFINE q == n \div BITS
           r == n % BITS
<1>1. q \in Int /\ r \in 0 .. BITS - 1 /\ n = (BITS * q) + r
  BY Constants, ModDef
<1>2. q \in Nat
  <2>1. CASE q <= 0 - 1
    <3>1. BITS * q <= 0 - BITS
      BY <1>1, <2>1, Constants
    <3> QED BY <1>1, <3>1, Constants
  <2> QED BY <1>1, <2>1
<1> HIDE DEF q, r
<1>3. CASE r = BITS - 1
  <2>1. n + 1 = (BITS * (q + 1)) + 0 /\ q + 1 \in Int /\ 0 \in 0 .. BITS - 1
    BY <1>1, <1>3, Constants
  <2>2. (n + 1) \div BITS = q + 1 /\ (n + 1) % BITS = 0
    BY <2>1, Constants, DivUnique
  <2> QED BY <1>1, <1>2, <1>3, <2>2 DEF q, r
<1>4. CASE r # BITS - 1
  <2>1. n + 1 = (BITS * q) + (r + 1) /\ r + 1 \in 0 .. BITS - 1
    BY <1>1, <1>4, Constants
  <2>2. (n + 1) \div BITS = q /\ (n + 1) % BITS = r + 1
    BY <1>1, <2>1, Constants, DivUnique
  <2> QED BY <1>1, <1>2, <1>4, <2>2 DEF q, r
<1> QED BY <1>3, <1>4

LEMMA WholeBytes ==
    ASSUME NEW length \in Nat
    PROVE  /\ length * BITS \in Nat
           /\ (length * BITS) \div BITS = length
           /\ \A n \in Nat : n < length * BITS => n \div BITS < length
<1>1. length * BITS \in Nat /\ length * BITS = (BITS * length) + 0
  BY Constants
<1>2. (length * BITS) \div BITS = length
  BY <1>1, Constants, DivUnique
<1>3. ASSUME NEW n \in Nat, n < length * BITS PROVE n \div BITS < length
  <2> DEFINE q == n \div BITS
  <2>1. q \in Nat /\ n >= BITS * q
    <3>1. /\ n = (BITS * (n \div BITS)) + (n % BITS) /\ n % BITS \in Nat
          /\ n \div BITS \in Nat
      <4>1. n \div BITS \in Nat /\ n % BITS \in 0 .. BITS - 1
        BY NextBit
      <4>2. n = (BITS * (n \div BITS)) + (n % BITS)
        BY Constants, ModDef
      <4> QED BY <4>1, <4>2, Constants
    <3> QED BY <3>1, Constants
  <2> HIDE DEF q
  <2>2. CASE q >= length
    <3>1. BITS * q >= BITS * length
      BY <2>1, <2>2, Constants
    <3> QED BY <1>1, <1>3, <2>1, <3>1, Constants
  <2>3. CASE q < length
    BY <2>3 DEF q
  <2> QED BY <2>1, <2>2, <2>3
<1> QED BY <1>1, <1>2, <1>3

-----------------------------------------------------------------------------
(* The engine.                                                             *)

LEMMA TapSteps ==
    ASSUME tap \in DOMAIN TapNext, NEW next \in TapNext[tap]
    PROVE  /\ tap \in {"Reset", "Idle", "Capture", "Shift", "Pause", "Update"}
           /\ next \in DOMAIN TapNext
           /\ tap = "Reset"   => next \in {"Reset", "Idle"}
           /\ tap = "Idle"    => next \in {"Idle", "Capture", "Reset"}
           /\ tap = "Capture" => next \in {"Shift", "Pause"}
           /\ tap = "Shift"   => next \in {"Shift", "Pause"}
           /\ tap = "Pause"   => next \in {"Pause", "Shift", "Update"}
           /\ tap = "Update"  => next = "Idle"
BY DEF TapNext

LEMMA EngineMoves ==
    ASSUME EngineInv, EngineEdge, rolled_back' = payload_abort
    PROVE  EngineInv'
<1>1. PICK next \in TapNext[tap] :
        /\ tap' = next
        /\ \/ next # "Reset" /\ (\/ CaptureDR \/ ShiftDR \/ UpdateResponse
                                 \/ UpdateRequest \/ NoScan)
           \/ next = "Reset" /\ EngineReset /\ UNCHANGED hostVars
  BY DEF EngineEdge
<1>2. /\ tap \in {"Reset", "Idle", "Capture", "Shift", "Pause", "Update"}
      /\ tap' \in DOMAIN TapNext
      /\ tap = "Reset"   => tap' \in {"Reset", "Idle"}
      /\ tap = "Idle"    => tap' \in {"Idle", "Capture", "Reset"}
      /\ tap = "Capture" => tap' \in {"Shift", "Pause"}
      /\ tap = "Shift"   => tap' \in {"Shift", "Pause"}
      /\ tap = "Pause"   => tap' \in {"Pause", "Shift", "Update"}
      /\ tap = "Update"  => tap' = "Idle"
  BY <1>1, TapSteps DEF EngineInv, EngineTypes
<1>3. /\ bit_count \in 0 .. BIT_MAX /\ BIT_MAX \in Nat
      /\ pending_response \in BOOLEAN /\ response_active \in BOOLEAN
      /\ payload_commit \in BOOLEAN /\ payload_abort \in BOOLEAN
      /\ response_length \in 0 .. MAX_PAYLOAD \cup {HEADER_LENGTH}
      /\ response_opcode \in {"none", "header", "payload"}
      /\ MAX_PAYLOAD \in Nat \ {0}
  BY Constants DEF EngineInv, EngineTypes
<1>4. CASE CaptureDR
  <2>1. EngineTypes'
    <3>1. bit_count' \in 0 .. BIT_MAX
      BY <1>3, <1>4 DEF CaptureDR
    <3>2. {pending_response, response_active, payload_commit, payload_abort}'
            \subseteq BOOLEAN
      BY <1>3, <1>4 DEF CaptureDR
    <3>3. /\ response_length' \in 0 .. MAX_PAYLOAD \cup {HEADER_LENGTH}
          /\ response_opcode' \in {"none", "header", "payload"}
      BY <1>3, <1>4 DEF CaptureDR
    <3> QED BY <3>1, <3>2, <3>3, <1>2 DEF EngineTypes
  <2>2. Engine'
    BY <1>2, <1>3, <1>4 DEF CaptureDR, EngineInv, Engine
  <2> QED BY <2>1, <2>2 DEF EngineInv
<1>5. CASE ShiftDR
  <2>1. EngineTypes'
    <3>1. bit_count' \in 0 .. BIT_MAX
      BY <1>3, <1>5 DEF ShiftDR
    <3>2. {pending_response, response_active, payload_commit, payload_abort}'
            \subseteq BOOLEAN
      BY <1>3, <1>5 DEF ShiftDR
    <3>3. /\ response_length' \in 0 .. MAX_PAYLOAD \cup {HEADER_LENGTH}
          /\ response_opcode' \in {"none", "header", "payload"}
      BY <1>3, <1>5 DEF ShiftDR
    <3> QED BY <3>1, <3>2, <3>3, <1>2 DEF EngineTypes
  <2>2. Engine'
    BY <1>2, <1>3, <1>5 DEF ShiftDR, EngineInv, Engine
  <2> QED BY <2>1, <2>2 DEF EngineInv
<1>6. CASE UpdateResponse
  BY <1>2, <1>3, <1>6 DEF UpdateResponse, Aborts, EngineInv, EngineTypes, Engine,
                          payload_req, exact
<1>7. CASE UpdateRequest
  <2>1. \A length \in Lengths : length \in 0 .. MAX_PAYLOAD
    BY <1>3 DEF Lengths
  <2> QED BY <1>2, <1>3, <1>7, <2>1
          DEF UpdateRequest, EngineInv, EngineTypes, Engine
<1>8. CASE NoScan
  BY <1>2, <1>3, <1>8 DEF NoScan, EngineInv, EngineTypes, Engine
<1>9. CASE tap' = "Reset" /\ EngineReset
  <2>1. EngineTypes'
    <3>1. bit_count' \in 0 .. BIT_MAX
      BY <1>3, <1>9 DEF EngineReset
    <3>2. {pending_response, response_active, payload_commit, payload_abort}'
            \subseteq BOOLEAN
      BY <1>3, <1>9 DEF EngineReset
    <3>3. /\ response_length' \in 0 .. MAX_PAYLOAD \cup {HEADER_LENGTH}
          /\ response_opcode' \in {"none", "header", "payload"}
      BY <1>3, <1>9 DEF EngineReset
    <3> QED BY <3>1, <3>2, <3>3, <1>2 DEF EngineTypes
  <2>2. Engine'
    BY <1>2, <1>3, <1>9 DEF EngineReset, EngineInv, Engine
  <2> QED BY <2>1, <2>2 DEF EngineInv
<1> QED BY <1>1, <1>4, <1>5, <1>6, <1>7, <1>8, <1>9

LEMMA EngineStart == Init => EngineInv
<1> SUFFICES ASSUME Init PROVE EngineInv OBVIOUS
<1>1. EngineTypes
  <2>1. bit_count \in 0 .. BIT_MAX
    BY Constants DEF Init
  <2>2. {pending_response, response_active, payload_commit, payload_abort}
          \subseteq BOOLEAN
    BY DEF Init
  <2>3. /\ response_length \in 0 .. MAX_PAYLOAD \cup {HEADER_LENGTH}
        /\ response_opcode \in {"none", "header", "payload"}
    BY Constants DEF Init
  <2>4. tap \in DOMAIN TapNext
    BY DEF Init, TapNext
  <2> QED BY <2>1, <2>2, <2>3, <2>4 DEF EngineTypes
<1>2. Engine
  BY DEF Init, Ring!Init, Engine
<1> QED BY <1>1, <1>2 DEF EngineInv

LEMMA EngineKept == EngineInv /\ [Next]_vars => EngineInv'
<1> SUFFICES ASSUME EngineInv, [Next]_vars PROVE EngineInv' OBVIOUS
<1>1. CASE DebugClock
  BY <1>1 DEF DebugClock, Ring!WriteClock, Ring!rdVars, engineVars, EngineInv,
              EngineTypes, Engine
<1>2. CASE TckClock
  BY <1>2, EngineMoves DEF TckClock, Ring!RdEdge
<1>3. CASE BothClocks
  BY <1>3, EngineMoves DEF BothClocks, Ring!RdEdge
<1>4. CASE DebugReset
  <2>1. EngineTypes'
    <3>1. bit_count' \in 0 .. BIT_MAX
      BY <1>4, Constants DEF DebugReset, EngineReset
    <3>2. {pending_response, response_active, payload_commit, payload_abort}'
            \subseteq BOOLEAN
      BY <1>4 DEF DebugReset, EngineReset
    <3>3. /\ response_length' \in 0 .. MAX_PAYLOAD \cup {HEADER_LENGTH}
          /\ response_opcode' \in {"none", "header", "payload"}
      BY <1>4, Constants DEF DebugReset, EngineReset
    <3>4. tap' \in DOMAIN TapNext
      BY <1>4 DEF DebugReset, EngineInv, EngineTypes
    <3> QED BY <3>1, <3>2, <3>3, <3>4 DEF EngineTypes
  <2>2. Engine'
    BY <1>4 DEF DebugReset, Ring!Reset, EngineReset, Engine
  <2> QED BY <2>1, <2>2 DEF EngineInv
<1>5. CASE UNCHANGED vars
  BY <1>5 DEF vars, ringVars, rdVars, engineVars, EngineInv, EngineTypes, Engine
<1> QED BY <1>1, <1>2, <1>3, <1>4, <1>5 DEF Next

LEMMA EngineInvariant == Spec => []EngineInv
BY EngineStart, EngineKept, PTL DEF Spec

LEMMA EngineKeepsContract ==
    ASSUME EngineInv
    PROVE  /\ Ring!ReaderInput(payload_ready, payload_commit, payload_abort)
           /\ payload_ready \in BOOLEAN
           /\ payload_commit \in BOOLEAN /\ payload_abort \in BOOLEAN
BY DEF EngineInv, EngineTypes, Engine, Ring!ReaderInput, payload_ready

LEMMA StepIsRingStep == EngineInv /\ [Next]_vars => [Ring!Next]_(Ring!vars)
<1> SUFFICES ASSUME EngineInv, [Next]_vars PROVE [Ring!Next]_(Ring!vars)
  OBVIOUS
<1>1. CASE DebugClock
  BY <1>1 DEF DebugClock, Ring!Next
<1>2. CASE TckClock
  BY <1>2, EngineKeepsContract
     DEF TckClock, Ring!Next, Ring!ReadClock, wrVars, Ring!wrVars
<1>3. CASE BothClocks
  BY <1>3, EngineKeepsContract DEF BothClocks, Ring!Next, Ring!BothClocks
<1>4. CASE DebugReset
  BY <1>4 DEF DebugReset, Ring!Next
<1>5. CASE UNCHANGED vars
  BY <1>5 DEF vars, ringVars, rdVars, wrVars, Ring!vars, Ring!rdVars, Ring!wrVars
<1> QED BY <1>1, <1>2, <1>3, <1>4, <1>5 DEF Next

(* The engine keeps the contract the ring relies on, for every scan length *)
(* and every walk of the TAP: the link runs the ring as the ring is        *)
(* specified (user_dr 52-56, 93-99).                                       *)
THEOREM LinkRunsTheRing == Spec => LinkImplementsRing
<1>1. Init => Ring!Init
  BY DEF Init
<1>2. Spec => Ring!Spec
  BY <1>1, StepIsRingStep, EngineInvariant, PTL DEF Spec, Ring!Spec
<1> QED BY <1>2 DEF LinkImplementsRing

(* What is proved of the ring alone therefore holds here.                  *)
LEMMA RingSame == Ring!Spec => RP!Spec
<1>1. Ring!Init => RP!Init
  BY DEF Ring!Init, RP!Init, Ring!Slot, RP!Slot, Ring!NoByte, RP!NoByte
<1>2. [Ring!Next]_(Ring!vars) => [RP!Next]_(RP!vars)
  <2>1. Ring!WriteClock => RP!WriteClock
    BY DEF Ring!WriteClock, RP!WriteClock, Ring!full, RP!full, Ring!Torn, RP!Torn,
           Ring!FullAgainst, RP!FullAgainst, Ring!PTR, RP!PTR,
           Ring!WriterInput, RP!WriterInput, Ring!WrEdge, RP!WrEdge,
           Ring!Sync, RP!Sync, Ring!Saturating, RP!Saturating, Ring!rdVars, RP!rdVars
  <2>2. Ring!ReadClock => RP!ReadClock
    BY DEF Ring!ReadClock, RP!ReadClock, Ring!ReaderInput, RP!ReaderInput,
           Ring!RdEdge, RP!RdEdge, Ring!Sync, RP!Sync, Ring!PTR, RP!PTR,
           Ring!rd_valid, RP!rd_valid, Ring!FetchSlot, RP!FetchSlot,
           Ring!CommittedNext, RP!CommittedNext,
           Ring!committed_bytes, RP!committed_bytes, Ring!wrVars, RP!wrVars
  <2>3. Ring!BothClocks => RP!BothClocks
    BY DEF Ring!BothClocks, RP!BothClocks, Ring!ReaderInput, RP!ReaderInput,
           Ring!RdEdge, RP!RdEdge, Ring!Sync, RP!Sync, Ring!PTR, RP!PTR,
           Ring!rd_valid, RP!rd_valid, Ring!FetchSlot, RP!FetchSlot,
           Ring!CommittedNext, RP!CommittedNext, Ring!Fetched, RP!Fetched,
           Ring!committed_bytes, RP!committed_bytes, Ring!Sampled, RP!Sampled,
           Ring!full, RP!full, Ring!Torn, RP!Torn, Ring!NoByte, RP!NoByte,
           Ring!FullAgainst, RP!FullAgainst,
           Ring!WriterInput, RP!WriterInput, Ring!WrEdge, RP!WrEdge,
           Ring!Saturating, RP!Saturating
  <2>4. Ring!Reset => RP!Reset
    BY DEF Ring!Reset, RP!Reset, Ring!Slot, RP!Slot, Ring!NoByte, RP!NoByte
  <2>5. Ring!vars = RP!vars /\ (Ring!vars)' = (RP!vars)'
    BY DEF Ring!vars, RP!vars, Ring!rdVars, RP!rdVars, Ring!wrVars, RP!wrVars
  <2> QED BY <2>1, <2>2, <2>3, <2>4, <2>5 DEF Ring!Next, RP!Next
<1> QED BY <1>1, <1>2, PTL DEF Ring!Spec, RP!Spec

LEMMA RingHolds == Spec => []RP!RingInv
<1>1. RP!Spec => []RP!RingInv
  BY RP!RingInvariant, SizeAssumption, CountAssumption, PTL
<1> QED BY <1>1, LinkRunsTheRing, RingSame, PTL DEF LinkImplementsRing

-----------------------------------------------------------------------------
(* What the host sees.                                                     *)

LEMMA RingFacts ==
    ASSUME RP!RingInv
    PROVE  /\ {rd_bin, rd_work, wr_rd1, wr_rd2} \subseteq Nat
           /\ read_count \in 0 .. COUNT_MOD - 1 /\ rd_data \in Nat \cup {NoByte}
           /\ rd_bin <= rd_work /\ rd_work <= wr_rd2 /\ wr_rd2 <= wr_rd1
           /\ wr_rd2 - rd_bin <= SIZE - 1
           /\ Ring!available_bytes = wr_rd2 - rd_bin
           /\ Ring!rd_valid <=> rd_work < wr_rd2
           /\ Ring!rd_valid /\ ~rolled_back => rd_data = rd_work
<1>1. /\ {rd_bin, rd_work, wr_rd1, wr_rd2, wr_bin} \subseteq Nat
      /\ read_count \in 0 .. COUNT_MOD - 1 /\ rd_data \in Nat \cup {NoByte}
  BY DEF RP!RingInv, RP!TypeOK, RP!NoByte, NoByte
<1>2. /\ rd_bin <= rd_work /\ rd_work <= wr_rd2 /\ wr_rd2 <= wr_rd1
      /\ wr_rd1 <= wr_bin /\ wr_bin <= rd_bin + SIZE - 1
  BY DEF RP!RingInv, RP!Order
<1>3. Ring!available_bytes = RP!available_bytes /\ Ring!rd_valid = RP!rd_valid
  BY DEF Ring!available_bytes, RP!available_bytes, Ring!rd_valid, RP!rd_valid,
         Ring!PTR, RP!PTR
<1>4. RP!available_bytes = wr_rd2 - rd_bin
  BY RP!DistancesMean, SizeAssumption, CountAssumption
<1>5. RP!rd_valid <=> rd_work < wr_rd2
  BY RP!ValidMeans, SizeAssumption, CountAssumption
<1>6. RP!rd_valid /\ ~rolled_back => rd_data = rd_work
  BY DEF RP!RingInv, RP!OfferedIsNext
<1>7. wr_rd2 - rd_bin <= SIZE - 1
  BY <1>1, <1>2, Constants
<1> QED BY <1>1, <1>2, <1>3, <1>4, <1>5, <1>6, <1>7

(* An edge of TCK, as the ring sees it ...                                 *)
ReaderEdge ==
    /\ wr_rd2' = wr_rd1
    /\ rd_bin' = IF payload_commit THEN rd_work ELSE rd_bin
    /\ rd_work' = IF payload_abort THEN rd_bin
                  ELSE IF payload_ready THEN rd_work + 1 ELSE rd_work
    /\ ~payload_commit => read_count' = read_count
    /\ rolled_back' = payload_abort

LEMMA ReaderMoves ==
    ASSUME NEW wrSample, NEW dropSample, NEW fetched,
           Ring!RdEdge(payload_ready, payload_commit, payload_abort,
                       wrSample, dropSample, fetched)
    PROVE  ReaderEdge
<1>1. Ring!rd_valid /\ payload_ready <=> payload_ready
  BY DEF payload_ready
<1> QED BY <1>1 DEF Ring!RdEdge, Ring!Sync, Ring!CommittedNext, ReaderEdge

(* ... and as the engine does.                                             *)
Quiet == /\ ~response_active /\ ~response_active'
         /\ ~payload_commit' /\ ~payload_abort'
         /\ credit' = credit /\ tdo_bytes' = tdo_bytes

LEMMA EngineCases ==
    ASSUME EngineInv, EngineEdge
    PROVE  /\ \/ tap = "Capture" /\ CaptureDR
              \/ response_active /\ tap = "Shift" /\ ShiftDR
              \/ response_active /\ tap = "Pause" /\ NoScan
              \/ response_active /\ tap = "Update" /\ UpdateResponse
              \/ Quiet
           /\ header_snapshot' = IF header_req THEN header_snapshot ELSE header_live
<1>1. PICK next \in TapNext[tap] :
        /\ tap' = next
        /\ \/ next # "Reset" /\ (\/ CaptureDR \/ ShiftDR \/ UpdateResponse
                                 \/ UpdateRequest \/ NoScan)
           \/ next = "Reset" /\ EngineReset /\ UNCHANGED hostVars
        /\ header_snapshot' = IF header_req THEN header_snapshot ELSE header_live
  BY DEF EngineEdge
<1>2. next = "Reset" => tap \in {"Reset", "Idle"}
  BY <1>1, TapSteps DEF EngineInv, EngineTypes
<1>3. response_active => tap \in {"Shift", "Pause", "Update"}
  BY DEF EngineInv, Engine
<1>4. CASE CaptureDR
  BY <1>1, <1>4 DEF CaptureDR
<1>5. CASE ShiftDR
  BY <1>1, <1>5 DEF ShiftDR, ShowBit, Quiet
<1>6. CASE UpdateResponse
  BY <1>1, <1>6 DEF UpdateResponse
<1>7. CASE UpdateRequest
  BY <1>1, <1>7 DEF UpdateRequest, Quiet
<1>8. CASE NoScan
  BY <1>1, <1>3, <1>8 DEF NoScan, hostVars, Quiet
<1>9. CASE next = "Reset" /\ EngineReset /\ UNCHANGED hostVars
  BY <1>1, <1>2, <1>3, <1>9 DEF EngineReset, hostVars, Quiet
<1> QED BY <1>1, <1>4, <1>5, <1>6, <1>7, <1>8, <1>9

(* Between a commit or an abort and the edge it reaches the ring on, no    *)
(* response is on its way.                                                 *)
LEMMA Undisturbed ==
    ASSUME EngineInv, ReaderEdge, tap # "Idle"
    PROVE  /\ ~payload_commit /\ ~payload_abort
           /\ rd_bin' = rd_bin /\ read_count' = read_count
           /\ rd_work' = IF payload_ready THEN rd_work + 1 ELSE rd_work
BY DEF EngineInv, Engine, ReaderEdge

LEMMA LeftoverMoves ==
    ASSUME LinkInv, RP!RingInv, EngineEdge, ReaderEdge
    PROVE  NoLeftover'
<1> USE DEF LinkInv
<1>1. CASE tap = "Capture" /\ CaptureDR
  <2>1. ~response_active /\ rd_work = rd_bin
    BY <1>1, Undisturbed DEF EngineInv, Engine, NoLeftover
  <2> QED BY <1>1, <2>1, Undisturbed DEF payload_ready, NoLeftover
<1>2. CASE /\ response_active
           /\ \/ tap = "Shift" /\ ShiftDR
              \/ tap = "Pause" /\ NoScan
  BY <1>2 DEF ShiftDR, NoScan, NoLeftover
<1>3. CASE response_active /\ tap = "Update" /\ UpdateResponse
  <2>1. CASE payload_req
    <3>1. payload_commit' \/ payload_abort'
      BY <1>3, <2>1 DEF UpdateResponse, Aborts
    <3> QED BY <3>1 DEF NoLeftover
  <2>2. CASE ~payload_req
    <3>1. header_req
      BY <1>3, <2>2 DEF EngineInv, EngineTypes, Engine, payload_req, header_req
    <3>2. rd_work = rd_bin
      BY <3>1 DEF Snapshot
    <3> QED BY <1>3, <3>2, Undisturbed DEF payload_ready, NoLeftover
  <2> QED BY <2>1, <2>2
<1>4. CASE Quiet
  <2>1. ~payload_ready
    BY <1>4 DEF Quiet, payload_ready, payload_req
  <2>2. ~payload_commit /\ ~payload_abort => rd_work = rd_bin
    BY <1>4 DEF Quiet, NoLeftover
  <2>3. ~(payload_commit /\ payload_abort)
    BY DEF EngineInv, Engine
  <2> QED BY <2>1, <2>2, <2>3 DEF ReaderEdge, NoLeftover
<1>5. \/ tap = "Capture" /\ CaptureDR
      \/ response_active /\ tap = "Shift" /\ ShiftDR
      \/ response_active /\ tap = "Pause" /\ NoScan
      \/ response_active /\ tap = "Update" /\ UpdateResponse
      \/ Quiet
  BY EngineCases
<1> QED BY <1>1, <1>2, <1>3, <1>4, <1>5

(* What a header promises at the instant it is taken.                      *)
LEMMA LiveHeader ==
    ASSUME RP!RingInv
    PROVE  /\ header_live \in (0 .. COUNT_MOD - 1) \X (0 .. COUNT_MOD - 1) \X Nat
           /\ header_live[2] = read_count
           /\ (header_live[1] - header_live[2]) % COUNT_MOD = header_live[3]
           /\ header_live[3] = wr_rd2 - rd_bin
<1> DEFINE a == Ring!available_bytes
           c == read_count
<1>1. /\ a = wr_rd2 - rd_bin /\ a \in 0 .. COUNT_MOD - 1 /\ a \in Nat
      /\ c \in 0 .. COUNT_MOD - 1
  BY RingFacts, Constants
<1>2. header_live = <<(c + a) % COUNT_MOD, c, a>>
  BY DEF header_live
<1> HIDE DEF a, c
<1>3. (c + a) % COUNT_MOD \in 0 .. COUNT_MOD - 1
  <2>1. c + a \in Int
    BY <1>1
  <2> QED BY <2>1, Constants, ModDef
<1>4. (((c + a) % COUNT_MOD) - c) % COUNT_MOD = a
  <2>1. c + a \in Int /\ 0 - c \in Int /\ (c + a) + (0 - c) = a
    BY <1>1, Constants
  <2>2. (((c + a) % COUNT_MOD) + (0 - c)) % COUNT_MOD = ((c + a) + (0 - c)) % COUNT_MOD
    BY <2>1, Constants, ModAdd
  <2>3. ((c + a) % COUNT_MOD) + (0 - c) = ((c + a) % COUNT_MOD) - c
    BY <1>1, <1>3, Constants
  <2>4. a % COUNT_MOD = a
    BY <1>1, Constants, ModSmall
  <2> QED BY <2>1, <2>2, <2>3, <2>4
<1> QED BY <1>1, <1>2, <1>3, <1>4 DEF c, a

LEMMA SnapshotMoves ==
    ASSUME LinkInv, RP!RingInv, EngineEdge, ReaderEdge
    PROVE  Snapshot'
<1> SUFFICES ASSUME header_req' PROVE Snapshot'
  BY DEF Snapshot
<1>0. response_active' /\ response_opcode' = "header"
  BY DEF header_req
<1>1. /\ {rd_bin, rd_work, wr_rd1, wr_rd2} \subseteq Nat /\ wr_rd2 <= wr_rd1
      /\ wr_rd2' = wr_rd1
  BY RingFacts DEF ReaderEdge
<1>2. CASE tap = "Capture" /\ CaptureDR
  <2>1. ~response_active /\ rd_work = rd_bin
    BY <1>2, Undisturbed DEF LinkInv, EngineInv, Engine, NoLeftover
  <2>2. header_snapshot' = header_live
    BY <2>1, EngineCases DEF LinkInv, header_req
  <2>3. rd_bin' = rd_bin /\ rd_work' = rd_bin' /\ read_count' = read_count
    BY <1>2, <2>1, Undisturbed DEF LinkInv, payload_ready
  <2> QED BY <1>1, <2>2, <2>3, LiveHeader DEF Snapshot
<1>3. CASE /\ response_active
           /\ \/ tap = "Shift" /\ ShiftDR
              \/ tap = "Pause" /\ NoScan
  <2>1. header_req
    BY <1>0, <1>3 DEF ShiftDR, NoScan, header_req
  <2>2. header_snapshot' = header_snapshot /\ header_snapshot[3] \in Nat
    BY <2>1, EngineCases DEF LinkInv, DataTypes
  <2>3. rd_bin' = rd_bin /\ rd_work' = rd_work /\ read_count' = read_count
    BY <1>3, <2>1, Undisturbed DEF LinkInv, payload_ready, payload_req, header_req
  <2> QED BY <1>1, <2>1, <2>2, <2>3 DEF LinkInv, Snapshot
<1>4. CASE UpdateResponse \/ Quiet
  BY <1>0, <1>4 DEF UpdateResponse, Quiet
<1>5. \/ tap = "Capture" /\ CaptureDR
      \/ response_active /\ tap = "Shift" /\ ShiftDR
      \/ response_active /\ tap = "Pause" /\ NoScan
      \/ response_active /\ tap = "Update" /\ UpdateResponse
      \/ Quiet
  BY EngineCases DEF LinkInv
<1> QED BY <1>2, <1>3, <1>4, <1>5

LEMMA BelowBitMax ==
    ASSUME EngineTypes
    PROVE  /\ response_length \in Nat
           /\ response_length * BITS \in Nat /\ response_length * BITS < BIT_MAX
<1>1. CASE response_length \in 0 .. MAX_PAYLOAD
  <2>1. response_length \in Nat /\ MAX_PAYLOAD - response_length \in Nat
    BY <1>1, Constants
  <2>2. BITS * (MAX_PAYLOAD - response_length) >= 0
    BY <2>1, Constants
  <2>3. BITS * (MAX_PAYLOAD - response_length)
          = (BITS * MAX_PAYLOAD) - (response_length * BITS)
    BY <2>1, Constants
  <2>4. response_length * BITS \in Nat
    BY <2>1, Constants
  <2> QED BY <2>1, <2>2, <2>3, <2>4, Constants
<1>2. CASE response_length = HEADER_LENGTH
  BY <1>2, Constants DEF HEADER_LENGTH
<1> QED BY <1>1, <1>2 DEF EngineTypes

(* The byte behind the bit that TDO shows is the one that is due.          *)
LEMMA SourceIsDue ==
    ASSUME LinkInv, RP!RingInv, Vouched, response_active, tap = "Shift",
           bit_count < response_length * BITS
    PROVE  /\ SourceByte = Due(Len(tdo_bytes) + 1)
           /\ Len(tdo_bytes) = bit_count \div BITS
           /\ Len(tdo_bytes) \in Nat /\ Len(tdo_bytes) < response_length
           /\ SourceByte \in Nat
           /\ payload_req => Ring!rd_valid /\ SourceByte = rd_work
<1> DEFINE k == bit_count \div BITS
<1>1. /\ bit_count \in Nat /\ response_length \in Nat
      /\ response_length * BITS \in Nat
  BY BelowBitMax, Constants DEF LinkInv, EngineInv, EngineTypes
<1>2. k \in Nat /\ k < response_length
  BY <1>1, NextBit, WholeBytes
<1>3. Len(tdo_bytes) = k /\ (payload_req => rd_work = rd_bin + k)
  BY <1>1 DEF LinkInv, Shown
<1> HIDE DEF k
<1>4. CASE header_req
  <2>1. response_length = 3
    BY <1>4 DEF LinkInv, EngineInv, Engine, header_req, HEADER_LENGTH
  <2>2. k + 1 \in 1 .. 3 /\ ~payload_req
    BY <1>2, <1>4, <2>1 DEF header_req, payload_req
  <2>3. SourceByte = header_snapshot[k + 1] /\ Due(k + 1) = header_snapshot[k + 1]
    BY <1>4 DEF SourceByte, Due, k
  <2>4. header_snapshot[k + 1] \in Nat
    <3>1. /\ header_snapshot[1] \in 0 .. COUNT_MOD - 1
          /\ header_snapshot[2] \in 0 .. COUNT_MOD - 1 /\ header_snapshot[3] \in Nat
      BY DEF LinkInv, DataTypes
    <3>2. k + 1 = 1 \/ k + 1 = 2 \/ k + 1 = 3
      BY <2>2
    <3> QED BY <3>1, <3>2, Constants
  <2> QED BY <1>2, <1>3, <2>2, <2>3, <2>4 DEF k
<1>5. CASE ~header_req
  <2>1. payload_req /\ response_length <= credit
    BY <1>5 DEF Vouched
  <2>2. /\ {rd_bin, rd_work, wr_rd2} \subseteq Nat /\ credit \in Nat
        /\ credit <= wr_rd2 - rd_bin
    BY RingFacts DEF LinkInv, Promise, DataTypes
  <2>3. rd_work = rd_bin + k /\ rd_work < wr_rd2
    BY <1>1, <1>2, <1>3, <2>1, <2>2
  <2>4. ~rolled_back
    BY DEF LinkInv, EngineInv, Engine
  <2>5. Ring!rd_valid /\ rd_data = rd_work
    BY <2>3, <2>4, RingFacts
  <2>6. SourceByte = rd_work
    BY <1>5, <2>1, <2>5 DEF SourceByte
  <2>7. Due(k + 1) = rd_work
    BY <1>2, <1>5, <2>2, <2>3 DEF Due
  <2> QED BY <1>2, <1>3, <2>2, <2>5, <2>6, <2>7 DEF k
<1> QED BY <1>4, <1>5

LEMMA ShiftShows ==
    ASSUME LinkInv, RP!RingInv, EngineEdge, ReaderEdge,
           response_active, tap = "Shift", ShiftDR, Vouched
    PROVE  Shown'
<1> DEFINE L == response_length * BITS
           k == Len(tdo_bytes)
<1>1. /\ response_active' = response_active /\ response_opcode' = response_opcode
      /\ response_length' = response_length /\ credit' = credit
  BY DEF ShiftDR
<1>2. /\ (header_req' <=> header_req) /\ (payload_req' <=> payload_req)
      /\ ~payload_commit /\ rd_bin' = rd_bin
      /\ rd_work' = IF payload_ready THEN rd_work + 1 ELSE rd_work
  BY <1>1, Undisturbed DEF LinkInv, header_req, payload_req
<1>3. /\ bit_count \in Nat /\ bit_count <= BIT_MAX /\ BIT_MAX \in Nat
      /\ L \in Nat /\ L < BIT_MAX /\ response_length \in Nat
      /\ tdo_bytes \in Seq(Nat \cup {NoByte}) /\ k \in Nat
      /\ {rd_bin, rd_work} \subseteq Nat
  BY BelowBitMax, RingFacts, Constants, LenProperties
     DEF LinkInv, EngineInv, EngineTypes, DataTypes
<1>4. \A i \in Int : Due(i)' = Due(i)
  <2>1. header_req => header_snapshot' = header_snapshot
    BY EngineCases DEF LinkInv
  <2> QED BY <1>2, <2>1 DEF Due
<1>5. bit_count' = IF bit_count < BIT_MAX THEN bit_count + 1 ELSE bit_count
  BY DEF ShiftDR
<1>6. CASE bit_count < L
  <2>1. /\ SourceByte = Due(k + 1) /\ k = bit_count \div BITS
        /\ SourceByte \in Nat
        /\ payload_req => Ring!rd_valid /\ SourceByte = rd_work /\ rd_work = rd_bin + k
    BY <1>6, SourceIsDue DEF LinkInv, Shown
  <2>2. bit_count' = bit_count + 1
    BY <1>3, <1>5, <1>6
  <2>3. bit_count % BITS # 0 => tdo_byte = SourceByte
    BY <1>6, <2>1 DEF LinkInv, Shown
  <2>4. /\ tdo_byte' = SourceByte
        /\ tdo_bytes' = IF bit_count % BITS = BITS - 1
                          THEN Append(tdo_bytes, SourceByte) ELSE tdo_bytes
    BY <1>6, <2>3 DEF ShiftDR, ShowBit
  <2>5. payload_ready <=> payload_req /\ bit_count % BITS = BITS - 1
    BY <1>6, <2>1 DEF payload_ready
  <2>6. (response_length * BITS)' = L
    BY <1>1
  <2> HIDE DEF L
  <2>7. CASE bit_count % BITS = BITS - 1
    <3>1. bit_count' \div BITS = k + 1 /\ bit_count' % BITS = 0
      BY <1>3, <2>1, <2>2, <2>7, NextBit
    <3>2. /\ Len(tdo_bytes') = k + 1
          /\ \A i \in 1 .. k : tdo_bytes'[i] = tdo_bytes[i]
          /\ tdo_bytes'[k + 1] = Due(k + 1)
      BY <1>3, <2>1, <2>4, <2>7, AppendProperties
    <3>3. \A i \in 1 .. Len(tdo_bytes') : tdo_bytes'[i] = Due(i)
      <4>1. \A i \in 1 .. k : tdo_bytes[i] = Due(i)
        BY DEF LinkInv, Shown
      <4>2. \A i \in 1 .. k + 1 : i \in 1 .. k \/ i = k + 1
        BY <1>3
      <4> HIDE DEF k
      <4> QED BY <3>2, <4>1, <4>2
    <3>4. payload_req' => rd_work' = rd_bin' + Len(tdo_bytes')
      BY <1>2, <1>3, <2>1, <2>5, <2>7, <3>2
    <3>5. \A i \in 1 .. Len(tdo_bytes') : tdo_bytes'[i] = Due(i)'
      BY <1>4, <3>3
    <3> HIDE DEF k
    <3> QED BY <3>1, <3>2, <3>4, <3>5 DEF Shown
  <2>8. CASE bit_count % BITS # BITS - 1
    <3>1. bit_count' \div BITS = k
      BY <1>3, <2>1, <2>2, <2>8, NextBit
    <3>2. tdo_bytes' = tdo_bytes /\ tdo_byte' = Due(k + 1)
      BY <2>1, <2>4, <2>8
    <3>3. rd_work' = rd_work
      BY <1>2, <2>5, <2>8
    <3>4. \A i \in 1 .. Len(tdo_bytes') : tdo_bytes'[i] = Due(i)'
      BY <1>4, <3>2 DEF LinkInv, Shown
    <3>5. tdo_byte' = Due(Len(tdo_bytes) + 1)'
      BY <1>3, <1>4, <3>2
    <3>6. payload_req' => rd_work' = rd_bin' + Len(tdo_bytes')
      BY <1>2, <2>1, <3>2, <3>3
    <3> QED BY <3>1, <3>2, <3>4, <3>5, <3>6 DEF Shown
  <2> QED BY <2>7, <2>8
<1>7. CASE bit_count >= L
  <2>1. tdo_bytes' = tdo_bytes /\ tdo_byte' = tdo_byte
    BY <1>3, <1>7 DEF ShiftDR, ShowBit
  <2>2. rd_work' = rd_work
    BY <1>2, <1>3, <1>7 DEF payload_ready
  <2>3. ~(bit_count' <= (response_length * BITS)')
    BY <1>1, <1>3, <1>5, <1>7
  <2>4. ~(bit_count' < (response_length * BITS)')
    BY <1>1, <1>3, <1>5, <1>7
  <2>5. \A i \in 1 .. Len(tdo_bytes') : tdo_bytes'[i] = Due(i)'
    BY <1>4, <2>1 DEF LinkInv, Shown
  <2>6. payload_req' => rd_work' = rd_bin' + Len(tdo_bytes')
    BY <1>2, <2>1, <2>2 DEF LinkInv, Shown
  <2> QED BY <2>3, <2>4, <2>5, <2>6 DEF Shown
<1> QED BY <1>3, <1>6, <1>7

LEMMA ShownMoves ==
    ASSUME LinkInv, RP!RingInv, EngineEdge, ReaderEdge
    PROVE  Shown'
<1> SUFFICES ASSUME Vouched' PROVE Shown'
  BY DEF Shown
<1>0. response_active'
  BY DEF Vouched, header_req, payload_req
<1>1. CASE tap = "Capture" /\ CaptureDR
  <2>1. ~response_active /\ rd_work = rd_bin
    BY <1>1, Undisturbed DEF LinkInv, EngineInv, Engine, NoLeftover
  <2>2. rd_work' = rd_bin' /\ rd_bin' \in Nat
    BY <1>1, <2>1, Undisturbed, RingFacts DEF LinkInv, payload_ready
  <2>3. tdo_bytes' = <<>> /\ bit_count' = 0 /\ Len(tdo_bytes') = 0
    BY <1>1 DEF CaptureDR
  <2>4. 0 \div BITS = 0 /\ 0 % BITS = 0
    <3>1. (BITS * 0) + 0 = 0 /\ 0 \in 0 .. BITS - 1
      BY Constants
    <3> QED BY <3>1, Constants, DivUnique
  <2>5. Len(tdo_bytes') = bit_count' \div BITS
    BY <2>3, <2>4
  <2>6. ~(bit_count' % BITS # 0)
    BY <2>3, <2>4
  <2>7. \A i \in 1 .. Len(tdo_bytes') : tdo_bytes'[i] = Due(i)'
    BY <2>3
  <2>8. rd_work' = rd_bin' + Len(tdo_bytes')
    <3>1. \A a, n \in Int : n = 0 => a = a + n
      OBVIOUS
    <3>2. rd_bin' \in Int /\ Len(tdo_bytes') \in Int
      BY <2>2, <2>3
    <3> QED BY <2>2, <2>3, <3>1, <3>2
  <2> QED BY <2>5, <2>6, <2>7, <2>8 DEF Shown
<1>2. CASE response_active /\ tap = "Shift" /\ ShiftDR
  <2>1. Vouched
    BY <1>2 DEF ShiftDR, Vouched, header_req, payload_req
  <2> QED BY <1>2, <2>1, ShiftShows
<1>3. CASE response_active /\ tap = "Pause" /\ NoScan
  <2>1. /\ bit_count' = bit_count /\ tdo_bytes' = tdo_bytes /\ tdo_byte' = tdo_byte
        /\ response_length' = response_length /\ credit' = credit
        /\ (header_req' <=> header_req) /\ (payload_req' <=> payload_req)
    BY <1>3 DEF NoScan, hostVars, header_req, payload_req
  <2>2. Vouched
    BY <2>1 DEF Vouched
  <2>3. rd_bin' = rd_bin /\ rd_work' = rd_work
    BY <1>3, Undisturbed DEF LinkInv, payload_ready
  <2>4. header_req => header_snapshot' = header_snapshot
    BY EngineCases DEF LinkInv
  <2>5. \A i \in Int : Due(i)' = Due(i)
    BY <2>1, <2>3, <2>4 DEF Due
  <2>6. Len(tdo_bytes) \in Nat
    BY LenProperties DEF LinkInv, DataTypes
  <2>7. \A i \in 1 .. Len(tdo_bytes') : tdo_bytes'[i] = Due(i)'
    BY <2>1, <2>2, <2>5, <2>6 DEF LinkInv, Shown
  <2>8. Due(Len(tdo_bytes) + 1)' = Due(Len(tdo_bytes) + 1)
    BY <2>1, <2>5, <2>6
  <2> QED BY <2>1, <2>2, <2>3, <2>7, <2>8 DEF LinkInv, Shown
<1>4. CASE UpdateResponse \/ Quiet
  BY <1>0, <1>4 DEF UpdateResponse, Quiet
<1>5. \/ tap = "Capture" /\ CaptureDR
      \/ response_active /\ tap = "Shift" /\ ShiftDR
      \/ response_active /\ tap = "Pause" /\ NoScan
      \/ response_active /\ tap = "Update" /\ UpdateResponse
      \/ Quiet
  BY EngineCases DEF LinkInv
<1> QED BY <1>1, <1>2, <1>3, <1>4, <1>5

(* What a whole response leaves promised.                                  *)
LEMMA WholeHeader ==
    ASSUME LinkInv, RP!RingInv, header_req, exact
    PROVE  /\ Len(tdo_bytes) = 3 /\ tdo_bytes[3] = header_snapshot[3]
           /\ tdo_bytes[3] \in Nat /\ tdo_bytes[3] <= wr_rd2 - rd_bin
<1>1. response_length = 3 /\ Vouched
  BY DEF LinkInv, EngineInv, Engine, header_req, HEADER_LENGTH, Vouched
<1>2. bit_count = response_length * BITS /\ response_length * BITS \in Nat
  BY BelowBitMax DEF exact, LinkInv, EngineInv
<1>3. Len(tdo_bytes) = 3
  <2>1. bit_count <= response_length * BITS
    BY <1>2
  <2>2. bit_count \div BITS = response_length
    BY <1>1, <1>2, WholeBytes
  <2>3. Len(tdo_bytes) = response_length
    BY <1>1, <2>1, <2>2 DEF LinkInv, Shown
  <2> QED BY <1>1, <2>3
<1>4. tdo_bytes[3] = Due(3)
  BY <1>1, <1>3 DEF LinkInv, Shown
<1>5. tdo_bytes[3] = header_snapshot[3]
  BY <1>4 DEF Due
<1> QED BY <1>3, <1>5 DEF LinkInv, Snapshot, DataTypes

LEMMA WholePayload ==
    ASSUME LinkInv, RP!RingInv, payload_req, exact, response_length <= credit
    PROVE  rd_work = rd_bin + response_length
<1>1. Vouched
  BY DEF Vouched
<1>2. /\ bit_count = response_length * BITS /\ response_length \in Nat
      /\ response_length * BITS \in Nat
  BY BelowBitMax DEF exact, LinkInv, EngineInv
<1>3. Len(tdo_bytes) = response_length
  <2>1. bit_count <= response_length * BITS
    BY <1>2
  <2>2. bit_count \div BITS = response_length
    BY <1>2, WholeBytes
  <2> QED BY <1>1, <2>1, <2>2 DEF LinkInv, Shown
<1> QED BY <1>1, <1>3 DEF LinkInv, Shown

LEMMA PromiseMoves ==
    ASSUME LinkInv, RP!RingInv, EngineEdge, ReaderEdge
    PROVE  Promise' /\ credit' \in Nat
<1>1. /\ {rd_bin, rd_work, wr_rd1, wr_rd2} \subseteq Nat
      /\ wr_rd2' = wr_rd1 /\ wr_rd2 <= wr_rd1 /\ rd_work <= wr_rd2 /\ rd_bin <= rd_work
      /\ credit \in Nat /\ credit <= wr_rd2 - rd_bin
  BY RingFacts DEF LinkInv, Promise, DataTypes, ReaderEdge
<1>2. CASE \/ tap = "Capture" /\ CaptureDR
           \/ response_active /\ tap = "Shift" /\ ShiftDR
           \/ response_active /\ tap = "Pause" /\ NoScan
  <2>1. credit' = credit /\ payload_commit' = FALSE
    BY <1>2 DEF CaptureDR, ShiftDR, NoScan, hostVars
  <2>2. rd_bin' = rd_bin
    BY <1>2, Undisturbed DEF LinkInv
  <2> QED BY <1>1, <2>1, <2>2 DEF Promise
<1>3. CASE response_active /\ tap = "Update" /\ UpdateResponse
  <2>1. /\ credit' = CreditNext /\ (payload_commit' <=> payload_req /\ exact)
    BY <1>3 DEF UpdateResponse
  <2>2. rd_bin' = rd_bin /\ rd_work' = rd_work
    BY <1>3, Undisturbed DEF LinkInv, payload_ready
  <2>3. CASE header_req /\ exact
    <3>1. credit' = tdo_bytes[3] /\ ~payload_commit'
      BY <2>1, <2>3 DEF CreditNext, header_req, payload_req
    <3> QED BY <1>1, <2>2, <2>3, <3>1, WholeHeader DEF Promise
  <2>4. CASE payload_req /\ exact
    <3>1. ~header_req
      BY <2>4 DEF header_req, payload_req
    <3>2. credit' = IF response_length < credit THEN credit - response_length ELSE 0
      BY <2>1, <2>4, <3>1 DEF CreditNext
    <3>3. response_length \in Nat
      BY BelowBitMax DEF LinkInv, EngineInv
    <3>4. CASE response_length < credit
      <4>1. rd_work = rd_bin + response_length
        BY <2>4, <3>3, <3>4, <1>1, WholePayload
      <4> QED BY <1>1, <2>2, <3>2, <3>3, <3>4, <4>1 DEF Promise
    <3>5. CASE ~(response_length < credit)
      BY <1>1, <2>2, <3>2, <3>5 DEF Promise
    <3> QED BY <3>4, <3>5
  <2>5. CASE ~exact
    <3>1. credit' = credit /\ ~payload_commit'
      BY <2>1, <2>5 DEF CreditNext
    <3> QED BY <1>1, <2>2, <3>1 DEF Promise
  <2>6. header_req \/ payload_req
    BY <1>3 DEF LinkInv, EngineInv, EngineTypes, Engine, header_req, payload_req
  <2> QED BY <2>3, <2>4, <2>5, <2>6
<1>4. CASE Quiet
  <2>1. credit' = credit /\ ~payload_commit'
    BY <1>4 DEF Quiet
  <2>2. rd_bin' = IF payload_commit THEN rd_work ELSE rd_bin
    BY DEF ReaderEdge
  <2>3. payload_commit => credit <= wr_rd2 - rd_work
    BY DEF LinkInv, Promise
  <2>4. credit' <= wr_rd2' - rd_bin'
    BY <1>1, <2>1, <2>2, <2>3
  <2> QED BY <1>1, <2>1, <2>4 DEF Promise
<1>5. \/ tap = "Capture" /\ CaptureDR
      \/ response_active /\ tap = "Shift" /\ ShiftDR
      \/ response_active /\ tap = "Pause" /\ NoScan
      \/ response_active /\ tap = "Update" /\ UpdateResponse
      \/ Quiet
  BY EngineCases DEF LinkInv
<1> QED BY <1>2, <1>3, <1>4, <1>5

LEMMA DataMoves ==
    ASSUME LinkInv, RP!RingInv, EngineEdge, ReaderEdge
    PROVE  DataTypes'
<1>1. credit' \in Nat
  BY PromiseMoves
<1>2. header_snapshot' \in (0 .. COUNT_MOD - 1) \X (0 .. COUNT_MOD - 1) \X Nat
  BY EngineCases, LiveHeader DEF LinkInv, DataTypes
<1>3. tdo_bytes' \in Seq(Nat \cup {NoByte})
  <2>1. tdo_bytes \in Seq(Nat \cup {NoByte}) /\ <<>> \in Seq(Nat \cup {NoByte})
    BY EmptySeq DEF LinkInv, DataTypes
  <2>2. CASE response_active /\ tap = "Shift" /\ ShiftDR
    <3>1. CASE bit_count < response_length * BITS
      <4>1. SourceByte \in Nat \cup {NoByte}
        <5>1. CASE header_req
          <6>1. Vouched
            BY <5>1 DEF Vouched
          <6> QED BY <2>2, <3>1, <6>1, SourceIsDue
        <5>2. CASE ~header_req
          BY <5>2, RingFacts DEF SourceByte
        <5> QED BY <5>1, <5>2
      <4>2. \E byte \in {SourceByte, NoByte} : tdo_bytes' \in {tdo_bytes, Append(tdo_bytes, byte)}
        BY <2>2, <3>1 DEF ShiftDR, ShowBit
      <4> QED BY <2>1, <4>1, <4>2, AppendProperties
    <3>2. CASE ~(bit_count < response_length * BITS)
      BY <2>1, <2>2, <3>2 DEF ShiftDR, ShowBit
    <3> QED BY <3>1, <3>2
  <2>3. CASE \/ tap = "Capture" /\ CaptureDR
             \/ response_active /\ tap = "Pause" /\ NoScan
             \/ response_active /\ tap = "Update" /\ UpdateResponse
             \/ Quiet
    BY <2>1, <2>3 DEF CaptureDR, NoScan, hostVars, UpdateResponse, Quiet
  <2>4. \/ tap = "Capture" /\ CaptureDR
        \/ response_active /\ tap = "Shift" /\ ShiftDR
        \/ response_active /\ tap = "Pause" /\ NoScan
        \/ response_active /\ tap = "Update" /\ UpdateResponse
        \/ Quiet
    BY EngineCases DEF LinkInv
  <2> QED BY <2>2, <2>3, <2>4
<1> QED BY <1>1, <1>2, <1>3 DEF DataTypes

LEMMA TckMoves ==
    ASSUME LinkInv, RP!RingInv, EngineEdge, ReaderEdge
    PROVE  LinkInv'
<1>1. EngineInv'
  BY EngineMoves DEF LinkInv, ReaderEdge
<1> QED BY <1>1, DataMoves, LeftoverMoves, SnapshotMoves, ShownMoves, PromiseMoves
        DEF LinkInv

-----------------------------------------------------------------------------
LEMMA LinkStart == Init => LinkInv
<1> SUFFICES ASSUME Init PROVE LinkInv OBVIOUS
<1>1. EngineInv
  BY EngineStart
<1>2. DataTypes
  <2>1. header_snapshot = <<0, 0, 0>> /\ tdo_bytes = <<>> /\ credit = 0
    BY DEF Init
  <2>2. 0 \in 0 .. COUNT_MOD - 1
    BY Constants
  <2> QED BY <2>1, <2>2, EmptySeq DEF DataTypes
<1>3. NoLeftover /\ Promise
  BY DEF Init, Ring!Init, NoLeftover, Promise
<1>4. Snapshot /\ Shown
  BY DEF Init, Snapshot, Shown, Vouched, header_req, payload_req
<1> QED BY <1>1, <1>2, <1>3, <1>4 DEF LinkInv

LEMMA ResetStarts == DebugReset /\ EngineInv' => LinkInv'
<1> SUFFICES ASSUME DebugReset, EngineInv' PROVE LinkInv' OBVIOUS
<1>1. DataTypes'
  <2>1. header_snapshot' = <<0, 0, 0>> /\ tdo_bytes' = <<>> /\ credit' = 0
    BY DEF DebugReset
  <2>2. 0 \in 0 .. COUNT_MOD - 1
    BY Constants
  <2> QED BY <2>1, <2>2, EmptySeq DEF DataTypes
<1>2. NoLeftover' /\ Promise'
  BY DEF DebugReset, Ring!Reset, EngineReset, NoLeftover, Promise
<1>3. Snapshot' /\ Shown'
  BY DEF DebugReset, EngineReset, Snapshot, Shown, Vouched, header_req, payload_req
<1> QED BY <1>1, <1>2, <1>3 DEF LinkInv

LEMMA NothingMoves ==
    ASSUME LinkInv, EngineInv',
           UNCHANGED <<rdVars, engineVars, hostVars, tap, header_snapshot>>
    PROVE  LinkInv'
<1>1. /\ UNCHANGED <<rd_bin, rd_work, rd_data, read_count, wr_rd1, wr_rd2>>
      /\ UNCHANGED <<bit_count, response_length, response_opcode>>
      /\ UNCHANGED <<pending_response, response_active, payload_commit, payload_abort>>
      /\ UNCHANGED <<tdo_byte, tdo_bytes, credit, header_snapshot>>
  BY DEF rdVars, engineVars, hostVars
<1>2. DataTypes' /\ NoLeftover' /\ Promise'
  BY <1>1 DEF LinkInv, DataTypes, NoLeftover, Promise
<1>3. Snapshot' /\ Shown'
  BY <1>1 DEF LinkInv, Snapshot, Shown, Vouched, Due, header_req, payload_req
<1> QED BY <1>2, <1>3 DEF LinkInv

LEMMA LinkKept == LinkInv /\ RP!RingInv /\ [Next]_vars => LinkInv'
<1> SUFFICES ASSUME LinkInv, RP!RingInv, [Next]_vars PROVE LinkInv' OBVIOUS
<1>0. EngineInv'
  BY EngineKept DEF LinkInv
<1>1. CASE DebugClock
  BY <1>0, <1>1, NothingMoves DEF DebugClock, Ring!WriteClock, Ring!rdVars, rdVars
<1>2. CASE TckClock
  <2>1. EngineEdge
    BY <1>2 DEF TckClock
  <2>2. Ring!rd_valid /\ payload_ready <=> payload_ready
    BY DEF payload_ready
  <2>3. ReaderEdge
    BY <1>2, <2>2 DEF TckClock, Ring!RdEdge, Ring!Sync, Ring!CommittedNext, ReaderEdge
  <2> QED BY <2>1, <2>3, TckMoves
<1>3. CASE BothClocks
  BY <1>3, ReaderMoves, TckMoves DEF BothClocks
<1>4. CASE DebugReset
  BY <1>0, <1>4, ResetStarts
<1>5. CASE UNCHANGED vars
  BY <1>0, <1>5, NothingMoves DEF vars, ringVars
<1> QED BY <1>1, <1>2, <1>3, <1>4, <1>5 DEF Next

(* Every state of the link: the engine, what was shown of the response on  *)
(* its way, and what the last header promised.                             *)
THEOREM LinkInvariant == Spec => []LinkInv
BY LinkStart, LinkKept, RingHolds, PTL DEF Spec

LEMMA InvGivesTypes == LinkInv /\ RP!RingInv => TypeOK
<1> SUFFICES ASSUME LinkInv, RP!RingInv PROVE TypeOK OBVIOUS
<1>1. Ring!TypeOK
  BY DEF RP!RingInv, RP!TypeOK, Ring!TypeOK, RP!Pointer, Ring!Pointer, RP!Torn,
         Ring!Torn, RP!Slot, Ring!Slot, RP!NoByte, Ring!NoByte
<1>2. credit \in 0 .. SIZE - 1
  BY RingFacts, Constants DEF LinkInv, DataTypes, Promise
<1> QED BY <1>1, <1>2 DEF LinkInv, EngineInv, EngineTypes, DataTypes, TypeOK

(* The engine, the mailbox and the ring keep their types.                  *)
THEOREM LinkTypes == Spec => []TypeOK
BY LinkInvariant, RingHolds, InvGivesTypes, PTL

LEMMA InvGivesShown == LinkInv => ShownOnce
<1> SUFFICES ASSUME LinkInv PROVE ShowsAndTakes
  BY DEF LinkInv, ShownOnce
<1> SUFFICES ASSUME payload_req, response_length <= credit
             PROVE  /\ \A i \in 1 .. Len(tdo_bytes) : tdo_bytes[i] = rd_bin + i - 1
                    /\ rd_work = rd_bin + Len(tdo_bytes)
  BY DEF ShowsAndTakes
<1>1. ~header_req /\ Vouched
  BY DEF header_req, payload_req, Vouched
<1> QED BY <1>1 DEF LinkInv, Shown, Due

(* Every byte is shown to the host once, whatever scans it breaks off,     *)
(* whatever lengths it asks for and wherever it resets the TAP (user_dr    *)
(* 46-99, transport_xilinx 26-29).                                         *)
THEOREM EveryByteShownOnce == Spec => []ShownOnce
BY LinkInvariant, InvGivesShown, PTL

LEMMA InvGivesHeader == LinkInv /\ RP!RingInv => HeaderHolds
<1> SUFFICES ASSUME LinkInv, RP!RingInv PROVE HeaderCoherent /\ PromiseKept
  BY DEF HeaderHolds
<1>1. PromiseKept
  BY RingFacts DEF LinkInv, Promise, PromiseKept
<1>2. ASSUME header_req, Len(tdo_bytes) = HEADER_LENGTH
      PROVE  /\ (tdo_bytes[1] - tdo_bytes[2]) % COUNT_MOD = tdo_bytes[3]
             /\ tdo_bytes[2] = read_count
  <2>1. Vouched
    BY <1>2 DEF Vouched
  <2>2. \A i \in 1 .. 3 : tdo_bytes[i] = header_snapshot[i]
    BY <1>2, <2>1 DEF LinkInv, Shown, Due, HEADER_LENGTH
  <2>3. /\ tdo_bytes[1] = header_snapshot[1] /\ tdo_bytes[2] = header_snapshot[2]
        /\ tdo_bytes[3] = header_snapshot[3]
    BY <2>2
  <2> QED BY <1>2, <2>3 DEF LinkInv, Snapshot
<1> QED BY <1>1, <1>2 DEF HeaderCoherent

(* The fields of a header scan belong to one instant, and what a header    *)
(* promised stays readable until it is committed (mailbox 45-53, transport *)
(* 35-38).                                                                 *)
THEOREM HeadersHold == Spec => []HeaderHolds
BY LinkInvariant, RingHolds, InvGivesHeader, PTL
=============================================================================
