---------------------------- MODULE MailboxQueue ----------------------------
(***************************************************************************)
(* What the JTAG mailbox promises its two users, with both clock domains   *)
(* and the pointer crossings left out: a bounded queue whose reader takes  *)
(* bytes speculatively and then either commits all it took or gives all    *)
(* of it back.  A byte is identified by its position in the accepted       *)
(* stream, so the queue is three counts: the bytes put in, the bytes taken *)
(* and the bytes committed.                                                *)
(***************************************************************************)
EXTENDS Naturals

CONSTANT Capacity

VARIABLES put, taken, done

vars == <<put, taken, done>>

Init == put = 0 /\ taken = 0 /\ done = 0

(* The writer adds one byte, but never more than Capacity past what the    *)
(* reader has committed when the byte goes in.                             *)
Put == put < done + Capacity /\ put' = put + 1

NoPut == put' = put

(* The reader takes the next byte that was put, commits what it had taken, *)
(* does both at once, or gives back everything it has not committed.       *)
Take       == taken < put /\ taken' = taken + 1 /\ done' = done
Commit     == done' = taken /\ taken' = taken
CommitTake == taken < put /\ done' = taken /\ taken' = taken + 1
GiveBack   == taken' = done /\ done' = done
NoRead     == taken' = taken /\ done' = done

(* Reset of both sides: nothing put, taken or committed survives.          *)
Clear == put' = 0 /\ taken' = 0 /\ done' = 0

Next == \/ /\ Put \/ NoPut
           /\ Take \/ Commit \/ CommitTake \/ GiveBack \/ NoRead
        \/ Clear

Spec == Init /\ [][Next]_vars
=============================================================================
