----------------------------- MODULE MCJtagRing -----------------------------
(* The ring with the Gray codes of its pointers, for a ring of four slots. *)
EXTENDS JtagRingProofs

Gray == INSTANCE GrayPointers WITH ADDR_WIDTH <- 2

(* At every wrap, the comparison on codes that the RTL makes answers what  *)
(* JtagRing's on counts does, a decoded code gives the pointer back, and   *)
(* an accepted byte moves one bit of its pointer's code, so that a sample  *)
(* taken meanwhile is the old or the new pointer, as Sampled has it (ring  *)
(* buffer 41-76).                                                          *)
CodesAgree ==
    LET wr   == wr_bin % PTR
        next == (wr_bin + 1) % PTR
    IN  /\ rd_wr2 # Torn => (Gray!full(wr, rd_wr2 % PTR) <=> FullAgainst(rd_wr2))
        /\ Gray!gray_to_bin(Gray!bin_to_gray(wr)) = wr
        /\ \E i \in Gray!Bits : Gray!Moved(wr, next) = {i}
=============================================================================
