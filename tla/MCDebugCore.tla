---------------------------- MODULE MCDebugCore ----------------------------
(* DebugCore with the shortest frames, of two and three bytes.             *)
EXTENDS DebugCore

MCHolders == {"monitor", "la"}
MCLegacy  == <<"event", "watch">>
MCTraces  == <<"span_begin", "mark">>
MCLen     == [m \in Messages |-> IF m = "monitor" THEN 1 ELSE 0]
=============================================================================
