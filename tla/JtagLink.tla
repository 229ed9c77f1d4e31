------------------------------ MODULE JtagLink ------------------------------
(***************************************************************************)
(* The JTAG read path of the FPGA: the TAP controller, the USER-DR command *)
(* engine (yifpga_jtag_user_dr), the mailbox header snapshot               *)
(* (yifpga_jtag_mailbox) and the ring (JtagRing), composed as              *)
(* yifpga_jtag_transport and yifpga_jtag_transport_xilinx wire them.  The  *)
(* host is any walk of the TAP and any requests; it may stop the clock or  *)
(* reset the TAP whenever TMS allows it.                                   *)
(*                                                                         *)
(* A header has three fields, one per "byte" of its scan: the write count, *)
(* the read count and the available bytes.                                 *)
(***************************************************************************)
EXTENDS Integers, Sequences

CONSTANTS SIZE, COUNT_MOD, COUNT_MAX, MaxBytes,  \* as in JtagRing
          BITS,          \* bits of a byte, 8
          REQUEST_BITS,  \* bits of a request scan, 32
          MAX_PAYLOAD,   \* longest payload a request may name, 1024
          BIT_MAX        \* where bit_count saturates, 16'hffff

HEADER_LENGTH == 3

ASSUME SizeAssumption  == SIZE \in Nat /\ SIZE >= 4
ASSUME CountAssumption == /\ COUNT_MOD \in Nat \ {0}
                          /\ COUNT_MAX \in Nat
                          /\ MaxBytes \in Nat
ASSUME LinkAssumption ==
    /\ SIZE <= COUNT_MOD
    /\ BITS \in Nat /\ BITS >= 2
    /\ REQUEST_BITS \in Nat \ {0}
    /\ MAX_PAYLOAD \in Nat \ {0}
    /\ BIT_MAX \in Nat /\ BIT_MAX > REQUEST_BITS
    /\ BIT_MAX > BITS * MAX_PAYLOAD
    /\ BIT_MAX > BITS * HEADER_LENGTH

VARIABLES wr_bin, mem, rd_wr1, rd_wr2, dropped, drop_gray,
          rd_bin, rd_work, rd_data, read_count, wr_rd1, wr_rd2,
          drop_rd1, drop_rd2, rolled_back

wrVars   == <<wr_bin, mem, rd_wr1, rd_wr2, dropped, drop_gray>>
rdVars   == <<rd_bin, rd_work, rd_data, read_count, wr_rd1, wr_rd2,
              drop_rd1, drop_rd2, rolled_back>>
ringVars == <<wrVars, rdVars>>

Ring == INSTANCE JtagRing

VARIABLES tap,              \* where the TAP controller is
          bit_count,
          response_length,
          response_opcode,
          pending_response,
          response_active,
          payload_commit,
          payload_abort,
          header_snapshot,  \* <<write count, read count, available bytes>>
          tdo_byte,         \* the byte TDO has shown so far in this scan
          tdo_bytes,        \* the complete bytes it has shown
          credit            \* bytes past rd_bin that the last complete
                            \* header promised the host

engineVars == <<bit_count, response_length, response_opcode,
                pending_response, response_active, payload_commit,
                payload_abort>>
hostVars == <<tdo_byte, tdo_bytes, credit>>
vars     == <<ringVars, engineVars, hostVars, tap, header_snapshot>>

NoByte == -1  \* a byte whose bits came from more than one source

header_live ==
    <<(read_count + Ring!available_bytes) % COUNT_MOD, read_count,
      Ring!available_bytes>>

EngineReset ==
    /\ bit_count' = 0 /\ response_length' = 0 /\ response_opcode' = "none"
    /\ pending_response' = FALSE /\ response_active' = FALSE
    /\ payload_commit' = FALSE /\ payload_abort' = FALSE

Init ==
    /\ Ring!Init
    /\ tap = "Reset"
    /\ bit_count = 0 /\ response_length = 0 /\ response_opcode = "none"
    /\ pending_response = FALSE /\ response_active = FALSE
    /\ payload_commit = FALSE /\ payload_abort = FALSE
    /\ header_snapshot = <<0, 0, 0>>
    /\ tdo_byte = NoByte /\ tdo_bytes = <<>> /\ credit = 0

-----------------------------------------------------------------------------
(* The TAP, with the states outside a DR scan of this chain as "Idle" and  *)
(* the two Exit states and Pause as "Pause".  Test-Logic-Reset is reached  *)
(* only from "Idle": five clocks with TMS high lead from Shift or Pause    *)
(* through Update-DR.                                                      *)
TapNext == [Reset   |-> {"Reset", "Idle"},
            Idle    |-> {"Idle", "Capture", "Reset"},
            Capture |-> {"Shift", "Pause"},
            Shift   |-> {"Shift", "Pause"},
            Pause   |-> {"Pause", "Shift", "Update"},
            Update  |-> {"Idle"}]

header_req  == response_active /\ response_opcode = "header"
payload_req == response_active /\ response_opcode = "payload"

(* The engine takes the byte it is showing with its last bit.              *)
payload_ready == /\ tap = "Shift" /\ payload_req /\ Ring!rd_valid
                 /\ bit_count % BITS = BITS - 1
                 /\ bit_count < response_length * BITS

-----------------------------------------------------------------------------
(* What one TCK edge does to the engine, by the TAP state it leaves.       *)
CaptureDR ==
    /\ tap = "Capture"
    /\ bit_count' = 0
    /\ response_active' = pending_response
    /\ payload_commit' = FALSE /\ payload_abort' = FALSE
    /\ tdo_bytes' = <<>> /\ tdo_byte' = NoByte
    /\ UNCHANGED <<response_length, response_opcode, pending_response, credit>>

(* The byte behind the bit TDO shows, which header_snapshot and rd_data    *)
(* present as long as they have one.  Mutant: the header not latched.      *)
SourceByte_Live ==
    IF header_req THEN header_live[bit_count \div BITS + 1]
    ELSE IF payload_req /\ Ring!rd_valid THEN rd_data ELSE NoByte
SourceByte ==
    IF header_req THEN header_snapshot[bit_count \div BITS + 1]
    ELSE IF payload_req /\ Ring!rd_valid THEN rd_data ELSE NoByte

ShowBit ==
    IF response_active /\ bit_count < response_length * BITS
    THEN LET byte == IF bit_count % BITS = 0 \/ tdo_byte = SourceByte
                     THEN SourceByte ELSE NoByte
         IN  /\ tdo_byte' = byte
             /\ tdo_bytes' = IF bit_count % BITS = BITS - 1
                             THEN Append(tdo_bytes, byte) ELSE tdo_bytes
    ELSE UNCHANGED <<tdo_byte, tdo_bytes>>

ShiftDR ==
    /\ tap = "Shift"
    /\ bit_count' = IF bit_count < BIT_MAX THEN bit_count + 1 ELSE bit_count
    /\ ShowBit
    /\ payload_commit' = FALSE /\ payload_abort' = FALSE
    /\ UNCHANGED <<response_length, response_opcode, pending_response,
                   response_active, credit>>

(* A payload scan commits if exactly its bits were shifted and aborts      *)
(* otherwise.  Mutants: aborts only on a broken byte; always aborts too.   *)
exact == bit_count = response_length * BITS
Aborts_BrokenByte == payload_req /\ bit_count % BITS # 0
Aborts_Always == payload_req
Aborts == payload_req /\ ~exact

(* The bytes still promised after this scan: a whole header renews them, a *)
(* committed payload uses them up.                                         *)
CreditNext == CASE header_req /\ exact -> tdo_bytes[3]
                [] payload_req /\ exact ->
                     IF response_length < credit THEN credit - response_length
                                                 ELSE 0
                [] OTHER -> credit

(* The end of a response scan.                                             *)
UpdateResponse ==
    /\ tap = "Update" /\ response_active
    /\ payload_commit' = (payload_req /\ exact)
    /\ payload_abort' = Aborts
    /\ pending_response' = FALSE /\ response_active' = FALSE
    /\ credit' = CreditNext
    /\ UNCHANGED <<bit_count, response_length, response_opcode,
                   tdo_byte, tdo_bytes>>

(* The payload lengths a request may name.                                 *)
Lengths == 1 .. MAX_PAYLOAD

(* The end of a request scan.  request_shift holds 32 bits from the host:  *)
(* a header request of the right length, a payload request of any length,  *)
(* or something malformed.                                                 *)
UpdateRequest ==
    /\ tap = "Update" /\ ~response_active
    /\ payload_commit' = FALSE /\ payload_abort' = FALSE
    /\ \/ /\ bit_count = REQUEST_BITS
          /\ \/ /\ response_opcode' = "header"
                /\ response_length' = HEADER_LENGTH
             \/ \E length \in Lengths :
                    /\ response_opcode' = "payload"
                    /\ response_length' = length
          /\ pending_response' = TRUE
       \/ /\ pending_response' = FALSE  \* malformed, or not 32 bits
          /\ UNCHANGED <<response_opcode, response_length>>
    /\ UNCHANGED <<bit_count, response_active, tdo_byte, tdo_bytes, credit>>

NoScan ==
    /\ tap \in {"Idle", "Pause", "Reset"}
    /\ payload_commit' = FALSE /\ payload_abort' = FALSE
    /\ UNCHANGED <<bit_count, response_length, response_opcode,
                   pending_response, response_active, hostVars>>

(* An edge into Test-Logic-Reset clears the engine and not the ring.       *)
EngineEdge ==
    \E next \in TapNext[tap] :
        /\ tap' = next
        /\ \/ next # "Reset" /\ (\/ CaptureDR \/ ShiftDR \/ UpdateResponse
                                 \/ UpdateRequest \/ NoScan)
           \/ next = "Reset" /\ EngineReset /\ UNCHANGED hostVars
        /\ header_snapshot' = IF header_req THEN header_snapshot ELSE header_live

-----------------------------------------------------------------------------
(* The edges of the two clocks.                                            *)
DebugClock ==
    /\ Ring!WriteClock
    /\ UNCHANGED <<engineVars, hostVars, tap, header_snapshot>>

TckClock ==
    /\ EngineEdge
    /\ Ring!RdEdge(payload_ready, payload_commit, payload_abort, wr_bin,
                   drop_gray, mem[Ring!FetchSlot(payload_ready)])
    /\ UNCHANGED wrVars

BothClocks ==
    \E valid \in BOOLEAN, isFull \in Ring!full :
        LET writes == valid /\ ~isFull
        IN  /\ Ring!WriterInput(valid)
            /\ EngineEdge
            /\ \E sample \in Ring!Sampled(rd_bin, Ring!CommittedNext(payload_commit)) :
                   Ring!WrEdge(valid, isFull, sample)
            /\ \E wrSample \in Ring!Sampled(wr_bin, IF writes THEN wr_bin + 1
                                                              ELSE wr_bin),
                  dropSample \in {drop_gray, dropped},
                  fetched \in Ring!Fetched(payload_ready, writes) :
                   Ring!RdEdge(payload_ready, payload_commit, payload_abort,
                               wrSample, dropSample, fetched)

(* debug_rst_n clears the ring, the mailbox and the engine; the TAP is     *)
(* where the host left it.  What an earlier header promised is void.       *)
DebugReset ==
    /\ Ring!Reset
    /\ EngineReset
    /\ header_snapshot' = <<0, 0, 0>>
    /\ tdo_byte' = NoByte /\ tdo_bytes' = <<>> /\ credit' = 0
    /\ UNCHANGED tap

Next == DebugClock \/ TckClock \/ BothClocks \/ DebugReset

Spec == Init /\ [][Next]_vars

-----------------------------------------------------------------------------
TypeOK ==
    /\ Ring!TypeOK
    /\ tap \in DOMAIN TapNext
    /\ bit_count \in 0 .. BIT_MAX
    /\ response_length \in 0 .. MAX_PAYLOAD \cup {HEADER_LENGTH}
    /\ response_opcode \in {"none", "header", "payload"}
    /\ {pending_response, response_active, payload_commit, payload_abort}
         \subseteq BOOLEAN
    /\ header_snapshot \in (0 .. COUNT_MOD - 1) \X (0 .. COUNT_MOD - 1) \X Nat
    /\ tdo_bytes \in Seq(Nat \cup {NoByte})
    /\ credit \in 0 .. SIZE - 1

(* The engine keeps the contract the ring relies on: it never commits and  *)
(* aborts on one edge and never takes a byte on the edge after a roll-back *)
(* (user_dr 52-56, 93-99).  So all that is shown of JtagRing holds here.   *)
LinkImplementsRing == Ring!Spec

(* Outside a response, and once its commit or abort has reached the ring,  *)
(* no byte is left taken and not committed, also after a TAP reset that    *)
(* clears the engine and not the ring (transport_xilinx 26-29): the next   *)
(* response starts at the first byte the host has not committed.           *)
NoLeftover == ~response_active /\ ~payload_commit /\ ~payload_abort
                => rd_work = rd_bin

(* A payload scan no longer than the last header promised shows the next   *)
(* bytes in order, each of them whole, and takes exactly those it showed   *)
(* (user_dr 46-68).                                                        *)
ShowsAndTakes ==
    payload_req /\ response_length <= credit
      => /\ \A i \in 1 .. Len(tdo_bytes) : tdo_bytes[i] = rd_bin + i - 1
         /\ rd_work = rd_bin + Len(tdo_bytes)

(* Every byte is shown to the host once: what a scan takes is what it      *)
(* shows, and what no scan completes is given back.                        *)
ShownOnce == NoLeftover /\ ShowsAndTakes

(* The fields of a header scan belong to one instant although the counts   *)
(* move while it is shifted out (mailbox 45-53, transport 35-38).          *)
HeaderCoherent ==
    header_req /\ Len(tdo_bytes) = HEADER_LENGTH
      => /\ (tdo_bytes[1] - tdo_bytes[2]) % COUNT_MOD = tdo_bytes[3]
         /\ tdo_bytes[2] = read_count

(* What a header promised stays readable until it is committed, whatever   *)
(* scans, aborts and TAP resets come between.                              *)
PromiseKept == credit <= Ring!available_bytes

(* A header is of one instant, and what it promised stays true.            *)
HeaderHolds == HeaderCoherent /\ PromiseKept
=============================================================================
