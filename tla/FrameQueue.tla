----------------------------- MODULE FrameQueue -----------------------------
(***************************************************************************)
(* What the message buffer of the debug core promises: a bounded queue     *)
(* that may be written and read on the same edge, even when it is full.    *)
(* FrameRing implements it; DebugCore is built on it.                      *)
(***************************************************************************)
EXTENDS Integers, Sequences

CONSTANTS DEPTH,  \* 2^ADDR_WIDTH entries
          Entry   \* what an entry can be

VARIABLE queue

Init == queue = <<>>

used_count == Len(queue)
rd_valid   == queue # <<>>

wr_ready(rd_ready) == used_count # DEPTH \/ rd_ready

(* One edge: offer is {} or holds the entry on the write port.             *)
Edge(offer, rd_ready) ==
    LET rest == IF rd_valid /\ rd_ready THEN Tail(queue) ELSE queue
    IN  \/ \E e \in offer : wr_ready(rd_ready) /\ queue' = Append(rest, e)
        \/ (offer = {} \/ ~wr_ready(rd_ready)) /\ queue' = rest

Next == \E offer \in {{}} \cup {{e} : e \in Entry}, rd_ready \in BOOLEAN :
            Edge(offer, rd_ready)

Spec == Init /\ [][Next]_queue
=============================================================================
