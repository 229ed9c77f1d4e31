---------------------------- MODULE GrayPointers ----------------------------
(***************************************************************************)
(* The Gray codes of yifpga_jtag_ring_buffer, bit by bit.  JtagRing states *)
(* the ring's comparisons on counts; these are the comparisons on codes    *)
(* that the RTL makes of the same pointers.                                *)
(***************************************************************************)
EXTENDS Integers

CONSTANT ADDR_WIDTH

PTR_WIDTH == ADDR_WIDTH + 1
Codes     == 0 .. 2 ^ PTR_WIDTH - 1
Bits      == 0 .. PTR_WIDTH - 1

Bit(v, i) == (v \div 2 ^ i) % 2

(* (value >> 1) ^ value                                                    *)
bin_to_gray(v) == [i \in Bits |-> (Bit(v, i) + Bit(v, i + 1)) % 2]

(* From the top bit down, each bit is the one above it exclusive-or the    *)
(* Gray bit.                                                               *)
gray_to_bin(g) ==
    LET result[i \in Bits] == IF i = PTR_WIDTH - 1 THEN g[i]
                              ELSE (result[i + 1] + g[i]) % 2
    IN  CHOOSE v \in Codes : \A i \in Bits : Bit(v, i) = result[i]

(* Mutant: only the top bit inverted.                                      *)
full_TopBit(wr, rd) ==
    bin_to_gray((wr + 1) % 2 ^ PTR_WIDTH)
      = [bin_to_gray(rd) EXCEPT ![PTR_WIDTH - 1] = 1 - @]

(* The next write pointer's code equals the read pointer's with its top    *)
(* two bits inverted.                                                      *)
full(wr, rd) ==
    LET g == bin_to_gray(rd)
    IN  bin_to_gray((wr + 1) % 2 ^ PTR_WIDTH)
          = [i \in Bits |-> IF i >= PTR_WIDTH - 2 THEN 1 - g[i] ELSE g[i]]

(* Bits that change when one pointer follows the other                     *)
Moved(v, w) == {i \in Bits : bin_to_gray(v)[i] # bin_to_gray(w)[i]}
=============================================================================
