----------------------------- MODULE MCAiDebug -----------------------------
(* AiDebug with four pages: an empty one; one with problems of two sources   *)
(* around a wrap of the time stamps; one with an incomplete capture and more *)
(* evidence than fits; one with two log lines that are the same.             *)
EXTENDS AiDebug

MCEmpty == [logs |-> <<>>, spans |-> <<>>, timeouts |-> 0, metrics |-> <<>>,
            captures |-> <<>>, latest |-> NONE, errors |-> 0]
Trouble == [MCEmpty EXCEPT !.spans = <<[at |-> 7, problem |-> TRUE], [at |-> 1, problem |-> TRUE]>>,
                           !.timeouts = 1, !.errors = 2,
                           !.captures = <<[at |-> 2, complete |-> FALSE]>>, !.latest = 1]
Partial == [MCEmpty EXCEPT !.captures = <<[at |-> 1, complete |-> FALSE], [at |-> 3, complete |-> FALSE]>>,
                           !.latest = 2, !.metrics = <<[at |-> 2, value |-> 3]>>,
                           !.logs = <<[at |-> 4, text |-> 1]>>]
Twins   == [MCEmpty EXCEPT !.logs = <<[at |-> NONE, text |-> 1], [at |-> NONE, text |-> 1]>>]
MCPages == {Trouble, Partial, Twins}
=============================================================================
