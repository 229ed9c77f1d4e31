------------------------------ MODULE JtagRing ------------------------------
(***************************************************************************)
(* yifpga_jtag_ring_buffer: the dual-clock ring between the debug clock    *)
(* (the writer) and TCK (the reader).  Pointers cross the domains in Gray  *)
(* code through two flip-flops; the reader advances a speculative pointer  *)
(* that a commit publishes and an abort rolls back; a byte offered to a    *)
(* full ring is dropped and counted.                                       *)
(*                                                                         *)
(* A byte is its position in the accepted stream: the RTL never looks at   *)
(* its value.  A pointer register is PTR_WIDTH bits wide; the variable     *)
(* holds the whole count and every use takes it modulo 2 * SIZE, which is  *)
(* the same thing for registers that are only incremented and copied.      *)
(***************************************************************************)
EXTENDS Integers

CONSTANTS SIZE,       \* 1 << ADDR_WIDTH, the slots of the memory
          COUNT_MOD,  \* 2^32, the modulus of the published byte count
          COUNT_MAX,  \* 32'hffff_ffff, where the drop counters saturate
          MaxBytes    \* bound on the accepted bytes

ASSUME SizeAssumption == SIZE \in Nat /\ SIZE >= 4
ASSUME CountAssumption == /\ COUNT_MOD \in Nat \ {0}
                          /\ COUNT_MAX \in Nat
                          /\ MaxBytes \in Nat

VARIABLES wr_bin,      \* bytes accepted (wr_bin, wr_gray and write_count)
          mem,         \* slot -> the byte it holds
          rd_wr1,      \* rd_gray_wr1: rd_bin as the writer's first stage has it
          rd_wr2,      \* rd_gray_wr2
          dropped,     \* dropped_bytes, and overflow_count that moves with it
          drop_gray,   \* dropped_bytes_gray, its registered Gray form
          rd_bin,      \* bytes committed (rd_bin and rd_gray)
          rd_work,     \* rd_work_bin, the speculative read pointer
          rd_data,     \* the registered output of the memory's second port
          read_count,  \* the 32-bit committed count shown in the header
          wr_rd1,      \* wr_gray_rd1
          wr_rd2,      \* wr_gray_rd2
          drop_rd1,    \* dropped_bytes_gray_rd1
          drop_rd2,    \* dropped_bytes_gray_rd2
          rolled_back  \* the last TCK edge carried rd_abort

wrVars == <<wr_bin, mem, rd_wr1, rd_wr2, dropped, drop_gray>>
rdVars == <<rd_bin, rd_work, rd_data, read_count, wr_rd1, wr_rd2,
            drop_rd1, drop_rd2, rolled_back>>
vars   == <<wrVars, rdVars>>

NoByte == -1  \* uninitialised memory, or a read that collided with a write
Torn   == -1  \* a sample that mixed bits of two Gray values
PTR    == 2 * SIZE
Slot   == 0 .. SIZE - 1

Init == /\ wr_bin = 0 /\ rd_wr1 = 0 /\ rd_wr2 = 0
        /\ mem = [s \in Slot |-> NoByte]
        /\ dropped = 0 /\ drop_gray = 0
        /\ rd_bin = 0 /\ rd_work = 0 /\ read_count = 0
        /\ rd_data = NoByte
        /\ wr_rd1 = 0 /\ wr_rd2 = 0
        /\ drop_rd1 = 0 /\ drop_rd2 = 0
        /\ rolled_back = FALSE

-----------------------------------------------------------------------------
(* The flags of the two sides.                                             *)

(* Mutant: full tested on the last write pointer.                          *)
FullAgainst_Last(r) == (wr_bin - 1 - r) % PTR = SIZE

(* full compares the next write pointer with the synchronised read pointer *)
(* for equality only; one slot stays empty.                                *)
FullAgainst(r) == (wr_bin + 1 - r) % PTR = SIZE

(* With a torn pointer in the second stage the comparison can go either    *)
(* way.                                                                    *)
full == IF rd_wr2 = Torn THEN BOOLEAN ELSE {FullAgainst(rd_wr2)}

rd_valid == rd_work % PTR # wr_rd2 % PTR

available_bytes == (wr_rd2 - rd_bin) % PTR

(* Mutant: the distance of the slot addresses, not of the pointers.        *)
committed_bytes_Narrow == (rd_work % SIZE) - (rd_bin % SIZE)

committed_bytes == (rd_work - rd_bin) % PTR

(* What the first flip-flop of a synchroniser can catch when its clock     *)
(* edge meets a change of the source from old to new: one Gray bit moves   *)
(* per step, so either value; several bits when the source jumps, so       *)
(* possibly a mixture that is neither.                                     *)
Sampled(old, new) == IF new \in {old, old + 1} THEN {old, new}
                                               ELSE {old, new, Torn}

(* A two flip-flop synchroniser.                                           *)
Sync_OneStage(first, second, sample) == first' = sample /\ second' = second
Sync(first, second, sample) == first' = sample /\ second' = first

(* The drop counters saturate.                                             *)
Saturating(count) == IF count < COUNT_MAX THEN count + 1 ELSE count

-----------------------------------------------------------------------------
(* One edge of the debug clock: valid is wr_valid, isFull the value of     *)
(* full, sample what the read-pointer synchroniser catches.                *)
WrEdge(valid, isFull, sample) ==
    /\ Sync(rd_wr1, rd_wr2, sample)
    /\ drop_gray' = dropped
    /\ \/ /\ valid /\ ~isFull
          /\ wr_bin' = wr_bin + 1
          /\ mem' = [mem EXCEPT ![wr_bin % SIZE] = wr_bin]
          /\ UNCHANGED dropped
       \/ /\ valid /\ isFull
          /\ dropped' = Saturating(dropped)
          /\ UNCHANGED <<wr_bin, mem>>
       \/ /\ ~valid
          /\ UNCHANGED <<wr_bin, mem, dropped>>

(* The slot the second port reads on this edge.                            *)
FetchSlot(ready) == (IF rd_valid /\ ready THEN rd_work + 1 ELSE rd_work) % SIZE

(* Mutant: the writer is shown the speculative pointer.                    *)
CommittedNext_Early(commit) == rd_work
CommittedNext(commit) == IF commit THEN rd_work ELSE rd_bin

(* One edge of TCK.                                                        *)
RdEdge(ready, commit, abort, wrSample, dropSample, fetched) ==
    /\ Sync(wr_rd1, wr_rd2, wrSample)
    /\ Sync(drop_rd1, drop_rd2, dropSample)
    /\ rd_data' = fetched
    /\ rd_work' = IF abort THEN rd_bin
                  ELSE IF rd_valid /\ ready THEN rd_work + 1 ELSE rd_work
    /\ rd_bin' = CommittedNext(commit)
    /\ read_count' = IF commit THEN (read_count + committed_bytes) % COUNT_MOD
                               ELSE read_count
    /\ rolled_back' = abort

(* What the two users of the ring may present: a producer that stops at    *)
(* the bound, and the USER-DR engine, which never commits and aborts on    *)
(* one edge and never takes a byte on the edge after an abort.             *)
WriterInput(valid) == valid => wr_bin < MaxBytes
ReaderInput(ready, commit, abort) == /\ ~(commit /\ abort)
                                     /\ rolled_back => ~ready

WriteClock ==
    \E valid \in BOOLEAN, isFull \in full :
        /\ WriterInput(valid)
        /\ WrEdge(valid, isFull, rd_bin)
        /\ UNCHANGED rdVars

ReadClock ==
    \E ready, commit, abort \in BOOLEAN :
        /\ ReaderInput(ready, commit, abort)
        /\ RdEdge(ready, commit, abort, wr_bin, drop_gray, mem[FetchSlot(ready)])
        /\ UNCHANGED wrVars

(* What the second port returns when the first writes a byte on the same   *)
(* edge: anything if both are at one slot.                                 *)
Fetched(ready, writes) ==
    IF writes /\ FetchSlot(ready) = wr_bin % SIZE
    THEN {mem[FetchSlot(ready)], wr_bin, NoByte}
    ELSE {mem[FetchSlot(ready)]}

(* The two edges fall together: each synchroniser catches the old or the   *)
(* new value of what it samples.                                           *)
BothClocks ==
    \E valid, ready, commit, abort \in BOOLEAN, isFull \in full :
        LET writes == valid /\ ~isFull
        IN  /\ WriterInput(valid)
            /\ ReaderInput(ready, commit, abort)
            /\ \E sample \in Sampled(rd_bin, CommittedNext(commit)) :
                   WrEdge(valid, isFull, sample)
            /\ \E wrSample \in Sampled(wr_bin, IF writes THEN wr_bin + 1 ELSE wr_bin),
                  dropSample \in {drop_gray, dropped},
                  fetched \in Fetched(ready, writes) :
                   RdEdge(ready, commit, abort, wrSample, dropSample, fetched)

(* debug_rst_n clears both domains; the memory keeps bytes that belong to  *)
(* no byte of the new session.                                             *)
Reset == /\ wr_bin' = 0 /\ rd_wr1' = 0 /\ rd_wr2' = 0
         /\ mem' = [s \in Slot |-> NoByte]
         /\ dropped' = 0 /\ drop_gray' = 0
         /\ rd_bin' = 0 /\ rd_work' = 0 /\ read_count' = 0
         /\ rd_data' = NoByte
         /\ wr_rd1' = 0 /\ wr_rd2' = 0
         /\ drop_rd1' = 0 /\ drop_rd2' = 0
         /\ rolled_back' = FALSE

Next == WriteClock \/ ReadClock \/ BothClocks \/ Reset

Spec == Init /\ [][Next]_vars

(* Both clocks run for ever; nothing is assumed of the producer or the     *)
(* host.                                                                   *)
FairSpec == /\ Spec
            /\ WF_vars(WriteClock \/ BothClocks)
            /\ WF_vars(ReadClock \/ BothClocks)

-----------------------------------------------------------------------------
Pointer == Nat \cup {Torn}

TypeOK == /\ wr_bin \in Nat /\ rd_bin \in Nat /\ rd_work \in Nat
          /\ rd_wr1 \in Pointer /\ rd_wr2 \in Pointer
          /\ wr_rd1 \in Nat /\ wr_rd2 \in Nat
          /\ mem \in [Slot -> Nat \cup {NoByte}]
          /\ rd_data \in Nat \cup {NoByte}
          /\ read_count \in 0 .. COUNT_MOD - 1
          /\ dropped \in 0 .. COUNT_MAX /\ drop_gray \in 0 .. COUNT_MAX
          /\ drop_rd1 \in 0 .. COUNT_MAX /\ drop_rd2 \in 0 .. COUNT_MAX
          /\ rolled_back \in BOOLEAN

(* No accepted byte is overwritten before it is committed: every position  *)
(* between the committed and the accepted count is still in its slot, even *)
(* though a commit moves several Gray bits of the read pointer at once and *)
(* full is only an equality test (ring buffer 67-72, 98-121, 159-166).     *)
NoOverwrite == \A k \in rd_bin .. wr_bin - 1 : mem[k % SIZE] = k

(* A byte the reader is offered is the next one it has not taken: rd_data, *)
(* loaded one edge earlier, is never the stale or half-written slot, but   *)
(* for the one edge after a roll-back (ring buffer 123-128, 155-158).      *)
OfferedIsNext == rd_valid /\ ~rolled_back => rd_data = rd_work

(* No byte is lost or changed between the producer and the reader: it is   *)
(* kept until it is committed, and what is offered is the next one.        *)
BytesKept == NoOverwrite /\ OfferedIsNext

(* The count the header publishes never promises a byte that cannot be     *)
(* read: available_bytes, computed from a pointer two TCK edges old, is a  *)
(* lower bound of what was accepted and fits the ring (76).                *)
AvailableSound == /\ available_bytes < SIZE
                  /\ rd_bin + available_bytes <= wr_bin

(* The 32-bit committed count follows the narrow pointers exactly, across  *)
(* every wrap of either (159-166).                                         *)
ReadCountExact == read_count = rd_bin % COUNT_MOD

(* The drop counter the header shows never goes back and never runs ahead  *)
(* of the writer's own (46-52, 98-101, 150-154).                           *)
DropsReported == [][\/ drop_rd2' >= drop_rd2 /\ drop_rd2' <= dropped'
                    \/ dropped' = 0 /\ drop_rd2' = 0]_vars

(* What the header shows is sound at any moment: its counts never promise  *)
(* more than there is, follow the commits exactly, and its drops only grow *)
(* and never run ahead.                                                    *)
HeaderSound == [](AvailableSound /\ ReadCountExact) /\ DropsReported

(* Once the producer is silent, the header comes to tell of every byte it  *)
(* delivered and of every drop, and goes on doing so.                      *)
EverythingSurfaces ==
    <>[][wr_bin' = wr_bin /\ dropped' = dropped]_vars
      => <>[](wr_rd2 = wr_bin /\ drop_rd2 = dropped)

(* The ring implements the mailbox queue: what crosses the domains late    *)
(* only makes each side more cautious.                                     *)
Queue == INSTANCE MailboxQueue WITH Capacity <- SIZE - 1,
             put <- wr_bin, taken <- rd_work, done <- rd_bin
ImplementsQueue == Queue!Spec
=============================================================================
