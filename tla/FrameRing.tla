----------------------------- MODULE FrameRing -----------------------------
(***************************************************************************)
(* yifpga_debug_ring_buffer: a memory with two pointers and a count.  One  *)
(* step is one clock edge with any write and any read.                     *)
(***************************************************************************)
EXTENDS RingDepth, Integers, Sequences

CONSTANTS Entry, Blank  \* Blank: what a word holds before it is written

VARIABLES mem, wr_ptr, rd_ptr, count

ringVars == <<mem, wr_ptr, rd_ptr, count>>

InitRing == /\ mem = [p \in 0 .. DEPTH - 1 |-> Blank]
            /\ wr_ptr = 0 /\ rd_ptr = 0 /\ count = 0

full  == count = DEPTH
empty == count = 0

wr_ready(rd_ready) == ~full \/ rd_ready

do_read(rd_ready) == ~empty /\ rd_ready
do_write(offer, rd_ready) == offer # {} /\ wr_ready(rd_ready)

(* A pointer of ADDR_WIDTH bits wraps at DEPTH.                            *)
Wrapped(p) == IF p >= DEPTH THEN p - DEPTH ELSE p

Counted(writes, reads) ==
    IF writes /\ ~reads THEN count + 1
    ELSE IF reads /\ ~writes THEN count - 1 ELSE count

RingEdge(offer, rd_ready) ==
    /\ \/ \E e \in offer : /\ wr_ready(rd_ready)
                           /\ mem' = [mem EXCEPT ![wr_ptr] = e]
                           /\ wr_ptr' = Wrapped(wr_ptr + 1)
       \/ ~do_write(offer, rd_ready) /\ UNCHANGED <<mem, wr_ptr>>
    /\ rd_ptr' = IF do_read(rd_ready) THEN Wrapped(rd_ptr + 1) ELSE rd_ptr
    /\ count' = Counted(do_write(offer, rd_ready), do_read(rd_ready))

Offers == {{}} \cup {{e} : e \in Entry}

NextRing == \E offer \in Offers, rd_ready \in BOOLEAN : RingEdge(offer, rd_ready)

SpecRing == InitRing /\ [][NextRing]_ringVars

-----------------------------------------------------------------------------
RingTypeOK == /\ mem \in [0 .. DEPTH - 1 -> Entry \cup {Blank}]
              /\ {wr_ptr, rd_ptr} \subseteq 0 .. DEPTH - 1
              /\ count \in 0 .. DEPTH

(* The word the i-th entry of the queue is in.                             *)
Place(i) == Wrapped(rd_ptr + i - 1)

(* The three registers tell one story: the count is the way from the read  *)
(* pointer to the write pointer, and every word on it was written (24-70). *)
Coherent == /\ wr_ptr = Wrapped(rd_ptr + count)
            /\ \A i \in 1 .. count : mem[Place(i)] \in Entry

Stored == [i \in 1 .. count |-> mem[Place(i)]]

Queue == INSTANCE FrameQueue WITH queue <- Stored

(* The ring is a queue: entries come out once, whole and in order, through *)
(* every wrap and through writes into a full buffer that is being read.    *)
RingIsQueue == Queue!Spec
=============================================================================
