----------------------------- MODULE RingDepth -----------------------------
(* The depth of the packet ring buffer, which the debug core chooses and    *)
(* the ring is built with: 2^ADDR_WIDTH entries.                            *)
EXTENDS Naturals

CONSTANT DEPTH

ASSUME DepthAssumption == DEPTH \in Nat \ {0}
=============================================================================
