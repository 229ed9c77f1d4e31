--------------------------- MODULE JtagRingProofs ---------------------------
(***************************************************************************)
(* The ring of JtagRing is correct for every size, every bound and every   *)
(* interleaving of the two clocks.                                         *)
(***************************************************************************)
EXTENDS JtagRing, BasicFacts

(* The counts are in the order the bytes travel, and the ring never holds  *)
(* more than SIZE - 1 bytes.                                               *)
Order == /\ rd_bin <= rd_work /\ rd_work <= wr_rd2
         /\ wr_rd2 <= wr_rd1 /\ wr_rd1 <= wr_bin
         /\ wr_bin <= rd_bin + SIZE - 1

(* What the writer can still do with the read pointers in its synchroniser *)
(* stages.  A clean pointer is an old rd_bin.  A torn one was sampled on a *)
(* commit of at least two bytes, so there is room for the one byte its     *)
(* comparison may let in.                                                  *)
WriterView ==
    /\ rd_wr1 # Torn => rd_wr1 <= rd_bin
    /\ rd_wr2 # Torn => wr_bin <= rd_wr2 + SIZE - 1
    /\ rd_wr2 # Torn /\ rd_wr1 # Torn => rd_wr2 <= rd_wr1
    /\ rd_wr2 # Torn /\ rd_wr1 = Torn => rd_wr2 + 1 <= rd_bin
    /\ rd_wr2 = Torn /\ rd_wr1 # Torn => wr_bin <= rd_wr1 + SIZE - 2
    /\ rd_wr2 = Torn /\ rd_wr1 = Torn => wr_bin <= rd_bin + SIZE - 3

DropOrder == drop_rd2 <= drop_rd1 /\ drop_rd1 <= drop_gray /\ drop_gray <= dropped

RingInv == /\ TypeOK /\ Order /\ WriterView /\ DropOrder
           /\ NoOverwrite /\ OfferedIsNext /\ ReadCountExact

-----------------------------------------------------------------------------
(* What the remainders mean in a state of the invariant: every distance    *)
(* the RTL takes is below the modulus.                                     *)
LEMMA SizeFacts == /\ SIZE \in Nat \ {0} /\ PTR \in Nat \ {0}
                   /\ PTR = SIZE + SIZE /\ SIZE >= 4
  BY SizeAssumption DEF PTR

LEMMA FullMeans == ASSUME RingInv, rd_wr2 # Torn
                   PROVE  FullAgainst(rd_wr2) <=> wr_bin = rd_wr2 + SIZE - 1
<1>1. wr_bin + 1 - rd_wr2 \in 0 .. PTR - 1
  BY SizeFacts DEF RingInv, TypeOK, Order, WriterView, Pointer, Torn
<1>2. (wr_bin + 1 - rd_wr2) % PTR = wr_bin + 1 - rd_wr2
  BY <1>1, SizeFacts, ModSmall
<1> QED BY <1>1, <1>2, SizeFacts
        DEF FullAgainst, RingInv, TypeOK, Pointer, Torn

LEMMA ValidMeans == ASSUME RingInv PROVE rd_valid <=> rd_work < wr_rd2
<1>1. /\ rd_work \in Int /\ wr_rd2 \in Int /\ rd_work <= wr_rd2
      /\ wr_rd2 - rd_work < PTR /\ rd_work - wr_rd2 < PTR
  BY SizeFacts DEF RingInv, TypeOK, Order
<1>2. CASE rd_work = wr_rd2 BY <1>1, <1>2 DEF rd_valid
<1>3. CASE rd_work # wr_rd2
  <2>1. rd_work % PTR # wr_rd2 % PTR
    BY <1>1, <1>3, SizeFacts, ModDistinct, Zenon
  <2> QED BY <1>1, <1>3, <2>1 DEF rd_valid
<1> QED BY <1>2, <1>3

LEMMA DistancesMean == ASSUME RingInv
                       PROVE  /\ committed_bytes = rd_work - rd_bin
                              /\ available_bytes = wr_rd2 - rd_bin
<1>1. rd_work - rd_bin \in 0 .. PTR - 1 /\ wr_rd2 - rd_bin \in 0 .. PTR - 1
  BY SizeFacts DEF RingInv, TypeOK, Order
<1> QED BY <1>1, SizeFacts, ModSmall DEF committed_bytes, available_bytes

-----------------------------------------------------------------------------
(* One edge of the debug clock, whatever the reader does on the same edge: *)
(* the byte that goes in takes a slot no uncommitted byte is in.           *)
LEMMA WriterStep ==
    ASSUME RingInv, NEW valid \in BOOLEAN, NEW isFull \in full,
           NEW sample \in Pointer, WrEdge(valid, isFull, sample)
    PROVE  /\ wr_bin' \in {wr_bin, wr_bin + 1}
           /\ valid /\ ~isFull <=> wr_bin' = wr_bin + 1
           /\ rd_wr2 # Torn => wr_bin' <= rd_wr2 + SIZE - 1
           /\ mem' \in [Slot -> Nat \cup {NoByte}]
           /\ \A k \in rd_bin .. wr_bin' - 1 : mem'[k % SIZE] = k
           /\ dropped' \in 0 .. COUNT_MAX /\ dropped <= dropped'
<1> USE SizeFacts
<1>1. /\ wr_bin \in Nat /\ rd_bin \in Nat /\ rd_wr2 \in Pointer
      /\ mem \in [Slot -> Nat \cup {NoByte}]
      /\ dropped \in 0 .. COUNT_MAX /\ COUNT_MAX \in Nat
  BY CountAssumption DEF RingInv, TypeOK
<1>2. wr_bin' \in {wr_bin, wr_bin + 1}
  BY DEF WrEdge, Sync
<1>3. valid /\ ~isFull <=> wr_bin' = wr_bin + 1
  BY <1>1 DEF WrEdge, Sync
<1>4. rd_wr2 # Torn => wr_bin' <= rd_wr2 + SIZE - 1
  <2> SUFFICES ASSUME rd_wr2 # Torn PROVE wr_bin' <= rd_wr2 + SIZE - 1
    OBVIOUS
  <2>1. wr_bin <= rd_wr2 + SIZE - 1 /\ rd_wr2 \in Nat
    BY <1>1 DEF RingInv, WriterView, Pointer
  <2>2. isFull <=> wr_bin = rd_wr2 + SIZE - 1
    BY FullMeans DEF full
  <2> QED BY <1>1, <1>2, <1>3, <2>1, <2>2
<1>5. dropped' \in 0 .. COUNT_MAX /\ dropped <= dropped'
  BY <1>1 DEF WrEdge, Saturating
<1>6. wr_bin % SIZE \in Slot
  BY <1>1, ModDef DEF Slot
<1>7. mem' \in [Slot -> Nat \cup {NoByte}]
  BY <1>1, <1>6 DEF WrEdge, Sync
<1>8. ASSUME NEW k \in rd_bin .. wr_bin' - 1 PROVE mem'[k % SIZE] = k
  <2>1. k \in Int /\ k % SIZE \in Slot
    BY <1>1, <1>2, ModDef DEF Slot
  <2>2. CASE wr_bin' = wr_bin
    <3>1. mem' = mem BY <1>1, <2>2 DEF WrEdge, Sync
    <3> QED BY <3>1, <2>2, <1>1 DEF RingInv, NoOverwrite
  <2>3. CASE wr_bin' = wr_bin + 1
    <3>1. mem' = [mem EXCEPT ![wr_bin % SIZE] = wr_bin]
      BY <1>1, <2>3 DEF WrEdge, Sync
    <3>2. CASE k = wr_bin BY <3>1, <3>2, <1>1, <1>6
    <3>3. CASE k # wr_bin
      <4>1. k \in rd_bin .. wr_bin - 1 BY <1>1, <2>3, <3>3
      <4>2. wr_bin - k < SIZE /\ k - wr_bin < SIZE
        BY <4>1, <1>1 DEF RingInv, Order
      <4>3. k % SIZE # wr_bin % SIZE
        <5>1. wr_bin \in Int BY <1>1
        <5> QED BY <2>1, <3>3, <4>2, <5>1, SizeFacts, ModDistinct, Zenon
      <4>4. mem[k % SIZE] = k BY <4>1 DEF RingInv, NoOverwrite
      <4> QED BY <3>1, <4>3, <4>4, <1>1, <2>1
    <3> QED BY <3>2, <3>3
  <2> QED BY <1>2, <2>2, <2>3
<1> QED BY <1>2, <1>3, <1>4, <1>5, <1>7, <1>8

(* One edge of TCK, whatever the writer does on the same edge.             *)
LEMMA ReaderStep ==
    ASSUME RingInv,
           NEW ready \in BOOLEAN, NEW commit \in BOOLEAN, NEW abort \in BOOLEAN,
           NEW wrSample \in {wr_bin, wr_bin + 1}, NEW dropSample, NEW fetched,
           ReaderInput(ready, commit, abort),
           RdEdge(ready, commit, abort, wrSample, dropSample, fetched)
    PROVE  /\ rd_bin' \in Nat /\ rd_work' \in Nat
           /\ wr_rd1' \in Nat /\ wr_rd2' \in Nat
           /\ rd_bin <= rd_bin' /\ rd_bin' <= rd_work'
           /\ rd_work' <= wr_rd2' /\ wr_rd2' <= wr_rd1' /\ wr_rd2' <= wr_bin
           /\ read_count' = rd_bin' % COUNT_MOD
           /\ rolled_back' = abort
           /\ ~abort => FetchSlot(ready) = rd_work' % SIZE
<1> USE SizeFacts
<1>1. /\ rd_bin \in Nat /\ rd_work \in Nat /\ wr_bin \in Nat
      /\ wr_rd1 \in Nat /\ wr_rd2 \in Nat /\ rd_bin <= rd_work
      /\ rd_work <= wr_rd2 /\ wr_rd2 <= wr_rd1 /\ wr_rd1 <= wr_bin
  BY DEF RingInv, TypeOK, Order
<1>2. rd_work' \in Nat /\ rd_work' <= wr_rd2
  BY <1>1, ValidMeans DEF RdEdge, Sync
<1>3. wr_rd2' = wr_rd1 /\ wr_rd1' = wrSample
  BY DEF RdEdge, Sync
<1>4. rd_bin' \in Nat /\ rd_bin <= rd_bin' /\ rd_bin' <= rd_work'
  BY <1>1 DEF RdEdge, Sync, CommittedNext, ReaderInput
<1>5. read_count' = rd_bin' % COUNT_MOD
  <2>1. CASE commit
    <3>1. read_count' = ((rd_bin % COUNT_MOD) + (rd_work - rd_bin)) % COUNT_MOD
      BY <2>1, DistancesMean DEF RdEdge, Sync, RingInv, ReadCountExact
    <3>2. read_count' = (rd_bin + (rd_work - rd_bin)) % COUNT_MOD
      <4>1. /\ rd_bin \in Int /\ rd_work - rd_bin \in Int
            /\ COUNT_MOD \in Nat \ {0}
        BY <1>1, CountAssumption
      <4> QED BY <3>1, <4>1, ModAdd, Zenon
    <3>3. rd_bin + (rd_work - rd_bin) = rd_work BY <1>1
    <3> QED BY <2>1, <3>2, <3>3 DEF RdEdge, Sync, CommittedNext
  <2>2. CASE ~commit
    BY <2>2 DEF RdEdge, Sync, CommittedNext, RingInv, ReadCountExact
  <2> QED BY <2>1, <2>2
<1>6. ~abort => FetchSlot(ready) = rd_work' % SIZE
  BY DEF RdEdge, Sync, FetchSlot
<1>7. rolled_back' = abort BY DEF RdEdge, Sync
<1> QED BY <1>1, <1>2, <1>3, <1>4, <1>5, <1>6, <1>7

(* What a sample of the read pointer can be.                               *)
LEMMA SampleMeans ==
    ASSUME NEW old \in Nat, NEW new \in Nat, old <= new,
           NEW sample \in Sampled(old, new)
    PROVE  \/ sample = old
           \/ sample = new
           \/ sample = Torn /\ old + 2 <= new
  BY DEF Sampled

(* An edge of the debug clock keeps room for the writer, even when its     *)
(* sample of the read pointer is torn by a commit on the same edge.  The   *)
(* new values are constants of the lemma: the SMT backend does arithmetic  *)
(* on those and not on primed variables.                                   *)
LEMMA RoomStep ==
    ASSUME RingInv,
           NEW b \in Nat, rd_bin <= b,
           NEW w \in {wr_bin, wr_bin + 1},
           rd_wr2 # Torn => w <= rd_wr2 + SIZE - 1,
           NEW sample, \/ sample = rd_bin
                       \/ sample = b
                       \/ sample = Torn /\ rd_bin + 2 <= b,
           rd_bin' = b, wr_bin' = w, rd_wr1' = sample, rd_wr2' = rd_wr1
    PROVE  WriterView' /\ w <= b + SIZE - 1 /\ sample \in Pointer
<1>1. /\ wr_bin \in Nat /\ rd_bin \in Nat /\ w \in Nat /\ SIZE \in Nat
      /\ rd_wr1 \in Nat \cup {-1} /\ rd_wr2 \in Nat \cup {-1}
  BY SizeAssumption DEF RingInv, TypeOK, Pointer, Torn
<1>2. \/ sample = rd_bin
      \/ sample = b
      \/ sample = -1 /\ rd_bin + 2 <= b
  BY DEF Torn
<1>3. sample \in Pointer BY <1>1, <1>2 DEF Pointer, Torn
<1>4. WriterView BY DEF RingInv
<1>5. CASE rd_wr2 # -1 /\ rd_wr1 # -1
  <2>1. w <= rd_wr1 + SIZE - 1 /\ rd_wr1 <= rd_bin
    BY <1>1, <1>4, <1>5 DEF WriterView, Torn
  <2>2. WriterView' BY <1>1, <1>2, <1>5, <2>1 DEF WriterView, Torn
  <2> QED BY <1>1, <1>3, <1>5, <2>1, <2>2
<1>6. CASE rd_wr2 # -1 /\ rd_wr1 = -1
  <2>1. w <= rd_bin + SIZE - 2 BY <1>1, <1>4, <1>6 DEF WriterView, Torn
  <2>2. WriterView' BY <1>1, <1>2, <1>6, <2>1 DEF WriterView, Torn
  <2> QED BY <1>1, <1>3, <2>1, <2>2
<1>7. CASE rd_wr2 = -1 /\ rd_wr1 # -1
  <2>1. w <= rd_wr1 + SIZE - 1 /\ rd_wr1 <= rd_bin
    BY <1>1, <1>4, <1>7 DEF WriterView, Torn
  <2>2. WriterView' BY <1>1, <1>2, <1>7, <2>1 DEF WriterView, Torn
  <2> QED BY <1>1, <1>3, <1>7, <2>1, <2>2
<1>8. CASE rd_wr2 = -1 /\ rd_wr1 = -1
  <2>1. w <= rd_bin + SIZE - 2 BY <1>1, <1>4, <1>8 DEF WriterView, Torn
  <2>2. WriterView' BY <1>1, <1>2, <1>8, <2>1 DEF WriterView, Torn
  <2> QED BY <1>1, <1>3, <2>1, <2>2
<1> QED BY <1>5, <1>6, <1>7, <1>8

(* The byte the second port loads on an edge is the one at the new read    *)
(* pointer, whenever the flags will say that one is there: its slot is not *)
(* the slot a write of the same edge goes to.                              *)
LEMMA OfferedStep ==
    ASSUME RingInv,
           NEW u \in Nat, rd_work' = u,
           NEW v \in Nat, wr_rd2' = v,
           rd_bin <= u, u <= v, v <= wr_bin,
           NEW ready, NEW writes, NEW fetched \in Fetched(ready, writes),
           FetchSlot(ready) = u % SIZE,
           rd_data' = fetched
    PROVE  rd_valid' => rd_data' = u
<1> USE SizeFacts
<1> SUFFICES ASSUME rd_valid' PROVE fetched = u OBVIOUS
<1>1. /\ rd_bin \in Nat /\ wr_bin \in Nat /\ wr_bin <= rd_bin + SIZE - 1
      /\ mem \in [Slot -> Nat \cup {NoByte}]
  BY DEF RingInv, TypeOK, Order
<1>2. u # v
  <2>1. u % PTR # v % PTR BY DEF rd_valid
  <2> QED BY <2>1
<1>3. u \in rd_bin .. wr_bin - 1 BY <1>1, <1>2
<1>4. mem[u % SIZE] = u BY <1>3 DEF RingInv, NoOverwrite
<1>5. u % SIZE # wr_bin % SIZE
  <2>1. u \in Int /\ wr_bin \in Int /\ u # wr_bin
    BY <1>1, <1>3
  <2>2. u - wr_bin < SIZE /\ wr_bin - u < SIZE BY <1>1, <1>3
  <2> QED BY <2>1, <2>2, SizeFacts, ModDistinct, Zenon
<1>6. fetched = mem[FetchSlot(ready)] BY <1>5 DEF Fetched
<1> QED BY <1>4, <1>6

-----------------------------------------------------------------------------
LEMMA RingInit == Init => RingInv
<1> SUFFICES ASSUME Init PROVE RingInv OBVIOUS
<1> USE SizeFacts, CountAssumption DEF Init
<1>1. TypeOK
  <2>1. mem \in [Slot -> Nat \cup {NoByte}] BY DEF Slot
  <2>2. 0 \in 0 .. COUNT_MOD - 1 /\ 0 \in 0 .. COUNT_MAX OBVIOUS
  <2> QED BY <2>1, <2>2 DEF TypeOK, Pointer
<1>2. Order BY DEF Order
<1>3. WriterView BY DEF WriterView, Torn
<1>4. DropOrder BY DEF DropOrder
<1>5. NoOverwrite BY DEF NoOverwrite
<1>6. OfferedIsNext BY DEF OfferedIsNext, rd_valid
<1>7. ReadCountExact BY ModSmall DEF ReadCountExact
<1> QED BY <1>1, <1>2, <1>3, <1>4, <1>5, <1>6, <1>7 DEF RingInv

LEMMA WriteClockStep == ASSUME RingInv, WriteClock PROVE RingInv'
<1> USE SizeFacts, CountAssumption
<1>1. PICK valid \in BOOLEAN, isFull \in full :
          WrEdge(valid, isFull, rd_bin) /\ UNCHANGED rdVars
  BY DEF WriteClock
<1>2. /\ TypeOK /\ Order /\ DropOrder /\ OfferedIsNext /\ ReadCountExact
  BY DEF RingInv
<1>3. rd_bin \in Pointer /\ rd_bin \in Nat /\ wr_bin \in Nat
  BY <1>2 DEF TypeOK, Pointer
<1>4. PICK w \in {wr_bin, wr_bin + 1} :
          /\ wr_bin' = w
          /\ rd_wr2 # Torn => w <= rd_wr2 + SIZE - 1
          /\ mem' \in [Slot -> Nat \cup {NoByte}]
          /\ \A k \in rd_bin .. w - 1 : mem'[k % SIZE] = k
          /\ dropped' \in 0 .. COUNT_MAX /\ dropped <= dropped'
  <2>1. WrEdge(valid, isFull, rd_bin) BY <1>1
  <2>2. PICK sample \in Pointer : WrEdge(valid, isFull, sample) BY <1>3, <2>1 DEF WrEdge, Sync
  <2> QED BY <2>2, WriterStep
<1>5. /\ rd_wr1' = rd_bin /\ rd_wr2' = rd_wr1 /\ drop_gray' = dropped
  BY <1>1 DEF WrEdge, Sync
<1>6. /\ rd_bin' = rd_bin /\ rd_work' = rd_work /\ rd_data' = rd_data
      /\ read_count' = read_count /\ wr_rd1' = wr_rd1 /\ wr_rd2' = wr_rd2
      /\ drop_rd1' = drop_rd1 /\ drop_rd2' = drop_rd2
      /\ rolled_back' = rolled_back
  BY <1>1 DEF rdVars
<1>7. WriterView' /\ w <= rd_bin + SIZE - 1
  BY <1>3, <1>4, <1>5, <1>6, RoomStep
<1>8. TypeOK'
  BY <1>2, <1>3, <1>4, <1>5, <1>6 DEF TypeOK, Pointer
<1>9. Order'
  BY <1>2, <1>3, <1>4, <1>6, <1>7 DEF TypeOK, Order
<1>10. DropOrder'
  BY <1>2, <1>4, <1>5, <1>6 DEF TypeOK, DropOrder
<1>11. NoOverwrite'
  BY <1>4, <1>6 DEF NoOverwrite
<1>12. OfferedIsNext' /\ ReadCountExact'
  BY <1>2, <1>6 DEF OfferedIsNext, rd_valid, ReadCountExact
<1> QED BY <1>7, <1>8, <1>9, <1>10, <1>11, <1>12 DEF RingInv

(* The common end of the steps in which TCK has an edge: the two sides'    *)
(* new states, put together.                                               *)
LEMMA JoinStep ==
    ASSUME RingInv,
           NEW ready \in BOOLEAN, NEW commit \in BOOLEAN, NEW abort \in BOOLEAN,
           NEW wrSample \in {wr_bin, wr_bin + 1}, NEW dropSample,
           NEW writes \in BOOLEAN, NEW fetched \in Fetched(ready, writes),
           ReaderInput(ready, commit, abort),
           RdEdge(ready, commit, abort, wrSample, dropSample, fetched),
           NEW w \in {wr_bin, wr_bin + 1}, wr_bin' = w, wrSample <= w,
           WriterView', w <= CommittedNext(commit) + SIZE - 1,
           rd_wr1' \in Pointer, rd_wr2' \in Pointer,
           mem' \in [Slot -> Nat \cup {NoByte}],
           \A k \in rd_bin .. w - 1 : mem'[k % SIZE] = k,
           dropped' \in 0 .. COUNT_MAX, drop_gray' \in 0 .. COUNT_MAX,
           dropSample \in 0 .. COUNT_MAX, drop_rd1 <= dropSample,
           dropSample <= drop_gray', drop_gray' <= dropped'
    PROVE  RingInv'
<1> USE SizeFacts, CountAssumption
<1>1. /\ rd_bin \in Nat /\ wr_bin \in Nat /\ wr_rd1 \in Nat /\ w \in Nat
      /\ rd_bin <= wr_bin /\ wr_rd1 <= wr_bin /\ wrSample \in Nat
      /\ wr_rd1 <= wrSample
      /\ drop_rd1 \in 0 .. COUNT_MAX /\ drop_rd2 \in 0 .. COUNT_MAX
  BY DEF RingInv, TypeOK, Order
<1>2. PICK b \in Nat, u \in Nat, v \in Nat :
          /\ rd_bin' = b /\ rd_work' = u /\ wr_rd2' = v
          /\ rd_bin <= b /\ b <= u /\ u <= v /\ v <= wr_bin /\ v <= wrSample
          /\ read_count' = b % COUNT_MOD
          /\ rolled_back' = abort
          /\ ~abort => FetchSlot(ready) = u % SIZE
  BY <1>1, ReaderStep DEF RdEdge, Sync
<1>3. /\ wr_rd1' = wrSample /\ rd_data' = fetched /\ b = CommittedNext(commit)
      /\ drop_rd1' = dropSample /\ drop_rd2' = drop_rd1
  BY <1>2 DEF RdEdge, Sync
<1>4. OfferedIsNext'
  <2> SUFFICES ASSUME rd_valid', ~abort PROVE rd_data' = u
    BY <1>2 DEF OfferedIsNext
  <2>1. rd_bin <= u BY <1>1, <1>2
  <2> QED BY <1>2, <1>3, <2>1, OfferedStep
<1>5. fetched \in Nat \cup {NoByte}
  <2>1. mem \in [Slot -> Nat \cup {NoByte}] /\ rd_work \in Nat
    BY DEF RingInv, TypeOK
  <2>2. FetchSlot(ready) \in Slot BY <2>1, ModDef DEF FetchSlot, Slot
  <2> QED BY <1>1, <2>1, <2>2 DEF Fetched
<1>6. read_count' \in 0 .. COUNT_MOD - 1 BY <1>2, ModDef
<1>7. TypeOK'
  BY <1>1, <1>2, <1>3, <1>5, <1>6 DEF TypeOK
<1>8. Order'
  BY <1>1, <1>2, <1>3 DEF Order
<1>9. DropOrder'
  BY <1>3 DEF DropOrder, RingInv, TypeOK
<1>10. NoOverwrite'
  <2>1. \A k \in b .. w - 1 : k \in rd_bin .. w - 1 BY <1>1, <1>2
  <2> QED BY <1>2, <2>1 DEF NoOverwrite
<1>11. ReadCountExact' BY <1>2 DEF ReadCountExact
<1> QED BY <1>4, <1>7, <1>8, <1>9, <1>10, <1>11 DEF RingInv

LEMMA ReadClockStep == ASSUME RingInv, ReadClock PROVE RingInv'
<1> USE SizeFacts
<1>1. PICK ready \in BOOLEAN, commit \in BOOLEAN, abort \in BOOLEAN :
          /\ ReaderInput(ready, commit, abort)
          /\ RdEdge(ready, commit, abort, wr_bin, drop_gray, mem[FetchSlot(ready)])
          /\ UNCHANGED wrVars
  BY DEF ReadClock
<1>2. /\ wr_bin' = wr_bin /\ mem' = mem /\ rd_wr1' = rd_wr1 /\ rd_wr2' = rd_wr2
      /\ dropped' = dropped /\ drop_gray' = drop_gray
  BY <1>1 DEF wrVars
<1>3. TypeOK /\ Order /\ WriterView /\ DropOrder /\ NoOverwrite
  BY DEF RingInv
<1>4. PICK b \in {rd_bin, rd_work} : rd_bin' = b /\ b = CommittedNext(commit)
  BY <1>1 DEF RdEdge, Sync, CommittedNext
<1>5. rd_bin \in Nat /\ b \in Nat /\ rd_bin <= b /\ wr_bin \in Nat
  BY <1>3 DEF TypeOK, Order
<1>6. WriterView'
  <2>1. rd_wr1 \in Nat \cup {-1} /\ rd_wr2 \in Nat \cup {-1}
    BY <1>3 DEF TypeOK, Pointer, Torn
  <2> QED BY <1>2, <1>3, <1>4, <1>5, <2>1 DEF WriterView, Torn
<1>7. wr_bin <= CommittedNext(commit) + SIZE - 1
  BY <1>3, <1>4, <1>5 DEF Order
<1>8. PICK wrSample \in {wr_bin, wr_bin + 1}, dropSample \in {drop_gray},
           fetched \in Fetched(ready, FALSE) :
          /\ RdEdge(ready, commit, abort, wrSample, dropSample, fetched)
          /\ wrSample <= wr_bin /\ ReaderInput(ready, commit, abort)
  <2>1. mem[FetchSlot(ready)] \in Fetched(ready, FALSE) BY DEF Fetched
  <2>2. wr_bin <= wr_bin BY <1>5
  <2> QED BY <1>1, <2>1, <2>2 DEF RdEdge, Sync
<1>9. /\ rd_wr1' \in Pointer /\ rd_wr2' \in Pointer
      /\ mem' \in [Slot -> Nat \cup {NoByte}]
      /\ \A k \in rd_bin .. wr_bin - 1 : mem'[k % SIZE] = k
  BY <1>2, <1>3 DEF TypeOK, NoOverwrite
<1>10. /\ dropped' \in 0 .. COUNT_MAX /\ drop_gray' \in 0 .. COUNT_MAX
       /\ dropSample \in 0 .. COUNT_MAX /\ drop_rd1 <= dropSample
       /\ dropSample <= drop_gray' /\ drop_gray' <= dropped'
  BY <1>2, <1>3, <1>8 DEF TypeOK, DropOrder
<1>11. PICK w \in {wr_bin, wr_bin + 1} :
           /\ wr_bin' = w /\ wrSample <= w /\ w <= CommittedNext(commit) + SIZE - 1
           /\ \A k \in rd_bin .. w - 1 : mem'[k % SIZE] = k
  BY <1>2, <1>7, <1>8, <1>9
<1> QED BY <1>6, <1>8, <1>9, <1>10, <1>11, JoinStep, Zenon

LEMMA BothClocksStep == ASSUME RingInv, BothClocks PROVE RingInv'
<1> USE SizeFacts
<1>0. PICK valid \in BOOLEAN, ready \in BOOLEAN, commit \in BOOLEAN,
           abort \in BOOLEAN, isFull \in full :
          /\ ReaderInput(ready, commit, abort)
          /\ \E sample \in Sampled(rd_bin, CommittedNext(commit)) :
                 WrEdge(valid, isFull, sample)
          /\ \E wrSample \in Sampled(wr_bin, IF valid /\ ~isFull
                                             THEN wr_bin + 1 ELSE wr_bin),
                dropSample \in {drop_gray, dropped},
                fetched \in Fetched(ready, valid /\ ~isFull) :
                 RdEdge(ready, commit, abort, wrSample, dropSample, fetched)
  BY DEF BothClocks
<1>1. PICK sample \in Sampled(rd_bin, CommittedNext(commit)),
           wrSample \in Sampled(wr_bin, IF valid /\ ~isFull THEN wr_bin + 1
                                                            ELSE wr_bin),
           dropSample \in {drop_gray, dropped},
           fetched \in Fetched(ready, valid /\ ~isFull) :
          /\ WrEdge(valid, isFull, sample)
          /\ RdEdge(ready, commit, abort, wrSample, dropSample, fetched)
  BY <1>0
<1>2. TypeOK /\ Order /\ WriterView /\ DropOrder /\ NoOverwrite
  BY DEF RingInv
<1>3. PICK b \in {rd_bin, rd_work} : rd_bin' = b /\ b = CommittedNext(commit)
  BY <1>1 DEF RdEdge, Sync, CommittedNext
<1>4. rd_bin \in Nat /\ b \in Nat /\ rd_bin <= b /\ wr_bin \in Nat
  BY <1>2, <1>3 DEF TypeOK, Order
<1>5. \/ sample = rd_bin
      \/ sample = b
      \/ sample = Torn /\ rd_bin + 2 <= b
  BY <1>1, <1>3, <1>4, SampleMeans
<1>6. sample \in Pointer BY <1>4, <1>5 DEF Pointer
<1>7. PICK w \in {wr_bin, wr_bin + 1} :
          /\ wr_bin' = w
          /\ valid /\ ~isFull <=> w = wr_bin + 1
          /\ rd_wr2 # Torn => w <= rd_wr2 + SIZE - 1
          /\ mem' \in [Slot -> Nat \cup {NoByte}]
          /\ \A k \in rd_bin .. w - 1 : mem'[k % SIZE] = k
          /\ dropped' \in 0 .. COUNT_MAX /\ dropped <= dropped'
  BY <1>1, <1>6, WriterStep
<1>8. rd_wr1' = sample /\ rd_wr2' = rd_wr1 /\ drop_gray' = dropped
  BY <1>1 DEF WrEdge, Sync
<1>9. WriterView' /\ w <= b + SIZE - 1
  BY <1>3, <1>4, <1>5, <1>7, <1>8, RoomStep
<1>10. rd_wr1' \in Pointer /\ rd_wr2' \in Pointer
  BY <1>2, <1>6, <1>8 DEF TypeOK
<1>11. /\ drop_gray' \in 0 .. COUNT_MAX /\ dropSample \in 0 .. COUNT_MAX
       /\ drop_rd1 <= dropSample /\ dropSample <= drop_gray'
       /\ drop_gray' <= dropped'
  BY <1>1, <1>2, <1>7, <1>8 DEF TypeOK, DropOrder
<1>12. wrSample \in {wr_bin, wr_bin + 1} /\ wrSample <= w
  BY <1>1, <1>4, <1>7 DEF Sampled
<1>13. w <= CommittedNext(commit) + SIZE - 1 BY <1>3, <1>9
<1>14. PICK writes \in BOOLEAN : fetched \in Fetched(ready, writes)
  <2>1. CASE valid /\ ~isFull
    <3>1. fetched \in Fetched(ready, TRUE) BY <1>1, <2>1 DEF Fetched
    <3> QED BY <3>1
  <2>2. CASE ~(valid /\ ~isFull)
    <3>1. fetched \in Fetched(ready, FALSE) BY <1>1, <2>2 DEF Fetched
    <3> QED BY <3>1
  <2> QED BY <2>1, <2>2
<1>15. /\ ReaderInput(ready, commit, abort)
       /\ RdEdge(ready, commit, abort, wrSample, dropSample, fetched)
  BY <1>0, <1>1
<1>16. /\ wr_bin' = w /\ mem' \in [Slot -> Nat \cup {NoByte}]
       /\ \A k \in rd_bin .. w - 1 : mem'[k % SIZE] = k
       /\ dropped' \in 0 .. COUNT_MAX
  BY <1>7
<1>17. WriterView' BY <1>9
<1> QED BY <1>10, <1>11, <1>12, <1>13, <1>14, <1>15, <1>16, <1>17, JoinStep,
        Zenon

LEMMA ResetStep == ASSUME Reset PROVE RingInv'
<1> USE SizeFacts, CountAssumption DEF Reset
<1>1. TypeOK'
  <2>1. mem' \in [Slot -> Nat \cup {NoByte}] BY DEF Slot
  <2>2. 0 \in 0 .. COUNT_MOD - 1 /\ 0 \in 0 .. COUNT_MAX OBVIOUS
  <2> QED BY <2>1, <2>2 DEF TypeOK, Pointer
<1>2. Order' BY DEF Order
<1>3. WriterView' BY DEF WriterView, Torn
<1>4. DropOrder' BY DEF DropOrder
<1>5. NoOverwrite' BY DEF NoOverwrite
<1>6. OfferedIsNext' BY DEF OfferedIsNext, rd_valid
<1>7. ReadCountExact' BY ModSmall DEF ReadCountExact
<1> QED BY <1>1, <1>2, <1>3, <1>4, <1>5, <1>6, <1>7 DEF RingInv

LEMMA RingStep == RingInv /\ [Next]_vars => RingInv'
<1> SUFFICES ASSUME RingInv, [Next]_vars PROVE RingInv' OBVIOUS
<1>1. CASE WriteClock BY <1>1, WriteClockStep
<1>2. CASE ReadClock BY <1>2, ReadClockStep
<1>3. CASE BothClocks BY <1>3, BothClocksStep
<1>4. CASE Reset BY <1>4, ResetStep
<1>5. CASE UNCHANGED vars
  BY <1>5 DEF vars, wrVars, rdVars, RingInv, TypeOK, Order, WriterView,
              DropOrder, NoOverwrite, OfferedIsNext, rd_valid, ReadCountExact
<1> QED BY <1>1, <1>2, <1>3, <1>4, <1>5 DEF Next

(* The invariant holds in every reachable state.                           *)
THEOREM RingInvariant == Spec => []RingInv
<1> QED BY RingInit, RingStep, PTL DEF Spec

-----------------------------------------------------------------------------
(* Every register of the ring keeps its range.                             *)
THEOREM RingTypes == Spec => []TypeOK
<1>1. RingInv => TypeOK BY DEF RingInv
<1> QED BY <1>1, RingInvariant, PTL

(* The drop counter the header shows only grows and never shows a drop     *)
(* that has not happened, whatever the synchronisers catch.                *)
THEOREM DropsAreReported == Spec => DropsReported
<1> DEFINE Shown == \/ drop_rd2' >= drop_rd2 /\ drop_rd2' <= dropped'
                    \/ dropped' = 0 /\ drop_rd2' = 0
<1>1. RingInv /\ [Next]_vars => [Shown]_vars
  <2> SUFFICES ASSUME RingInv, [Next]_vars PROVE [Shown]_vars OBVIOUS
  <2>1. /\ dropped \in 0 .. COUNT_MAX /\ drop_gray \in 0 .. COUNT_MAX
        /\ drop_rd1 \in 0 .. COUNT_MAX /\ drop_rd2 \in 0 .. COUNT_MAX
        /\ COUNT_MAX \in Nat /\ DropOrder
    BY CountAssumption DEF RingInv, TypeOK
  <2>2. RingInv' BY RingStep
  <2>3. dropped' \in 0 .. COUNT_MAX /\ drop_rd2' \in 0 .. COUNT_MAX /\ DropOrder'
    BY <2>2 DEF RingInv, TypeOK
  <2>4. drop_rd2' <= dropped'
    BY <2>2, CountAssumption DEF RingInv, TypeOK, DropOrder
  <2>5. CASE WriteClock
    BY <2>1, <2>4, <2>5 DEF WriteClock, rdVars
  <2>6. CASE ReadClock
    BY <2>1, <2>4, <2>6 DEF ReadClock, RdEdge, Sync, DropOrder
  <2>7. CASE BothClocks
    BY <2>1, <2>4, <2>7 DEF BothClocks, RdEdge, Sync, DropOrder
  <2>8. CASE Reset BY <2>8 DEF Reset
  <2>9. CASE UNCHANGED vars BY <2>9
  <2> QED BY <2>5, <2>6, <2>7, <2>8, <2>9 DEF Next
<1>2. Spec => [][Shown]_vars BY <1>1, RingInvariant, PTL DEF Spec
<1> QED BY <1>2 DEF DropsReported

(* What the debug clock domain wrote stays in its slot until the host has  *)
(* committed it, for every ring size and every interleaving of the clocks. *)
THEOREM NeverOverwritten == Spec => []NoOverwrite
<1>1. RingInv => NoOverwrite BY DEF RingInv
<1> QED BY <1>1, RingInvariant, PTL

(* What TCK is offered is the next byte in order.                          *)
THEOREM OfferedInOrder == Spec => []OfferedIsNext
<1>1. RingInv => OfferedIsNext BY DEF RingInv
<1> QED BY <1>1, RingInvariant, PTL

(* What the header promises can be read.                                   *)
THEOREM AvailableIsSound == Spec => []AvailableSound
<1>1. RingInv => AvailableSound
  <2> SUFFICES ASSUME RingInv PROVE AvailableSound OBVIOUS
  <2>1. available_bytes = wr_rd2 - rd_bin BY DistancesMean
  <2>2. /\ rd_bin \in Nat /\ wr_rd2 \in Nat /\ wr_bin \in Nat
        /\ wr_rd2 <= wr_bin /\ wr_bin <= rd_bin + SIZE - 1
    BY SizeFacts DEF RingInv, TypeOK, Order
  <2> QED BY <2>1, <2>2, SizeFacts DEF AvailableSound
<1> QED BY <1>1, RingInvariant, PTL

(* The published count is the number of committed bytes, whatever wraps.   *)
THEOREM ReadCountIsExact == Spec => []ReadCountExact
<1>1. RingInv => ReadCountExact BY DEF RingInv
<1> QED BY <1>1, RingInvariant, PTL

(* No byte is lost or changed on its way to the reader.                    *)
THEOREM BytesAreKept == Spec => []BytesKept
<1>1. NoOverwrite /\ OfferedIsNext => BytesKept BY DEF BytesKept
<1> QED BY <1>1, NeverOverwritten, OfferedInOrder, PTL

(* What the header shows is sound.                                         *)
THEOREM HeaderIsSound == Spec => HeaderSound
<1>1. AvailableSound /\ ReadCountExact => (AvailableSound /\ ReadCountExact) OBVIOUS
<1>2. Spec => [](AvailableSound /\ ReadCountExact)
  BY <1>1, AvailableIsSound, ReadCountIsExact, PTL
<1> QED BY <1>2, DropsAreReported DEF HeaderSound

-----------------------------------------------------------------------------
(* The ring implements the mailbox queue.  Each side of a step maps to one *)
(* of the queue's choices for that side.                                   *)
LEMMA WriterMaps ==
    ASSUME RingInv, NEW valid \in BOOLEAN, NEW isFull \in full,
           NEW sample \in Pointer, WrEdge(valid, isFull, sample)
    PROVE  Queue!Put \/ Queue!NoPut
<1>1. PICK w \in {wr_bin, wr_bin + 1} :
          wr_bin' = w /\ (rd_wr2 # Torn => w <= rd_wr2 + SIZE - 1)
  BY WriterStep
<1>2. /\ wr_bin \in Nat /\ rd_bin \in Nat /\ SIZE \in Nat
      /\ rd_wr1 \in Nat \cup {-1} /\ rd_wr2 \in Nat \cup {-1}
  BY SizeFacts DEF RingInv, TypeOK, Pointer, Torn
<1>3. CASE w = wr_bin BY <1>1, <1>3 DEF Queue!NoPut
<1>4. CASE w = wr_bin + 1
  <2>1. wr_bin < rd_bin + (SIZE - 1)
    BY <1>1, <1>2, <1>4 DEF RingInv, WriterView, Torn
  <2> QED BY <1>1, <1>4, <2>1 DEF Queue!Put
<1> QED BY <1>3, <1>4

LEMMA ReaderMaps ==
    ASSUME RingInv,
           NEW ready \in BOOLEAN, NEW commit \in BOOLEAN, NEW abort \in BOOLEAN,
           NEW wrSample, NEW dropSample, NEW fetched,
           ReaderInput(ready, commit, abort),
           RdEdge(ready, commit, abort, wrSample, dropSample, fetched)
    PROVE  \/ Queue!Take \/ Queue!Commit \/ Queue!CommitTake
           \/ Queue!GiveBack \/ Queue!NoRead
<1>1. rd_valid => rd_work < wr_bin
  BY ValidMeans DEF RingInv, TypeOK, Order
<1>2. CASE abort
  BY <1>2 DEF ReaderInput, RdEdge, Sync, CommittedNext, Queue!GiveBack
<1>3. CASE ~abort /\ commit /\ rd_valid /\ ready
  BY <1>1, <1>3 DEF RdEdge, Sync, CommittedNext, Queue!CommitTake
<1>4. CASE ~abort /\ commit /\ ~(rd_valid /\ ready)
  BY <1>4 DEF RdEdge, Sync, CommittedNext, Queue!Commit
<1>5. CASE ~abort /\ ~commit /\ rd_valid /\ ready
  BY <1>1, <1>5 DEF RdEdge, Sync, CommittedNext, Queue!Take
<1>6. CASE ~abort /\ ~commit /\ ~(rd_valid /\ ready)
  BY <1>6 DEF RdEdge, Sync, CommittedNext, Queue!NoRead
<1> QED BY <1>2, <1>3, <1>4, <1>5, <1>6

LEMMA StepMaps == RingInv /\ [Next]_vars => [Queue!Next]_(Queue!vars)
<1> SUFFICES ASSUME RingInv, [Next]_vars PROVE [Queue!Next]_(Queue!vars)
  OBVIOUS
<1>0. rd_bin \in Nat /\ rd_work \in Nat /\ rd_bin <= rd_work /\ rd_bin \in Pointer
  BY DEF RingInv, TypeOK, Order, Pointer
<1>1. CASE WriteClock
  <2>1. PICK valid \in BOOLEAN, isFull \in full : WrEdge(valid, isFull, rd_bin)
    BY <1>1 DEF WriteClock
  <2>4. PICK sample \in Pointer : WrEdge(valid, isFull, sample) BY <1>0, <2>1
    DEF WrEdge, Sync
  <2>3. Queue!Put \/ Queue!NoPut BY <2>4, WriterMaps
  <2>2. Queue!NoRead BY <1>1 DEF WriteClock, rdVars, Queue!NoRead
  <2> QED BY <2>3, <2>2 DEF Queue!Next
<1>2. CASE ReadClock
  <2>3. PICK ready \in BOOLEAN, commit \in BOOLEAN, abort \in BOOLEAN :
            /\ ReaderInput(ready, commit, abort)
            /\ RdEdge(ready, commit, abort, wr_bin, drop_gray,
                      mem[FetchSlot(ready)])
    BY <1>2 DEF ReadClock
  <2>4. PICK wrSample, dropSample, fetched :
            RdEdge(ready, commit, abort, wrSample, dropSample, fetched)
    BY <2>3 DEF RdEdge, Sync
  <2>1. \/ Queue!Take \/ Queue!Commit \/ Queue!CommitTake
        \/ Queue!GiveBack \/ Queue!NoRead
    BY <2>3, <2>4, ReaderMaps
  <2>2. Queue!NoPut BY <1>2 DEF ReadClock, wrVars, Queue!NoPut
  <2> QED BY <2>1, <2>2 DEF Queue!Next
<1>3. CASE BothClocks
  <2>1. PICK valid \in BOOLEAN, ready \in BOOLEAN, commit \in BOOLEAN,
             abort \in BOOLEAN, isFull \in full :
            /\ ReaderInput(ready, commit, abort)
            /\ \E sample \in Sampled(rd_bin, CommittedNext(commit)) :
                   WrEdge(valid, isFull, sample)
            /\ \E wrSample \in Sampled(wr_bin, IF valid /\ ~isFull
                                               THEN wr_bin + 1 ELSE wr_bin),
                  dropSample \in {drop_gray, dropped},
                  fetched \in Fetched(ready, valid /\ ~isFull) :
                   RdEdge(ready, commit, abort, wrSample, dropSample, fetched)
    BY <1>3 DEF BothClocks
  <2>2. \A sample \in Sampled(rd_bin, CommittedNext(commit)) : sample \in Pointer
    BY <1>0 DEF Sampled, CommittedNext, Pointer
  <2>3. Queue!Put \/ Queue!NoPut BY <2>1, <2>2, WriterMaps
  <2>4. \/ Queue!Take \/ Queue!Commit \/ Queue!CommitTake
        \/ Queue!GiveBack \/ Queue!NoRead
    BY <2>1, ReaderMaps
  <2> QED BY <2>3, <2>4 DEF Queue!Next
<1>4. CASE Reset BY <1>4 DEF Reset, Queue!Next, Queue!Clear
<1>5. CASE UNCHANGED vars
  BY <1>5 DEF vars, wrVars, rdVars, Queue!vars
<1> QED BY <1>1, <1>2, <1>3, <1>4, <1>5 DEF Next

THEOREM RingImplementsQueue == Spec => ImplementsQueue
<1>1. Init => Queue!Init BY DEF Init, Queue!Init
<1>2. Spec => Queue!Spec
  BY <1>1, StepMaps, RingInvariant, PTL DEF Spec, Queue!Spec
<1> QED BY <1>2 DEF ImplementsQueue
=============================================================================
