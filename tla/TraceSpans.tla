----------------------------- MODULE TraceSpans -----------------------------
(***************************************************************************)
(* How the Web viewer makes spans of trace frames (beginTraceSpan,         *)
(* endTraceSpan and renderTrace, src/tools/viewer/web/app.js), with the    *)
(* device that opens and closes spans and a line that loses frames and     *)
(* keeps their order.  A frame of another kind that only joins a bounded   *)
(* list (mark, value, drop) is a mark.  n and at are not seen by the code: *)
(* the span of the device a frame is of, and the time it was made at.      *)
(***************************************************************************)
EXTENDS Null, Integers, Sequences, FiniteSets, SequencesExt

CONSTANTS Keys,          \* pairs of trace_id and instance_id
          PERIOD,        \* time stamps count modulo this
          MAX_SPANS,     \* MAX_TRACE_SPANS and the limits of the other lists
          RENDER_ITEMS,  \* MAX_TRACE_RENDER_ITEMS
          MAX_TIME,      \* bound: ticks
          MAX_MADE,      \* bound: spans of the device
          MAX_MARKS,     \* bound: marks held or on the line
          MAX_WIRE       \* bound: frames on the line

ASSUME TraceAssumption ==
    /\ IsFiniteSet(Keys)
    /\ PERIOD \in Nat \ {0} /\ MAX_SPANS \in Nat \ {0} /\ RENDER_ITEMS \in Nat \ {0}
    /\ {MAX_TIME, MAX_MADE, MAX_MARKS, MAX_WIRE} \subseteq Nat
    /\ NONE \notin [n : Nat, at : Nat] \cup [startTimestamp : Nat, n : Nat, at : Nat]

VARIABLES
    now,        \* the device: ticks since power up
    running,    \* span it has open under each key
    made,       \* spans it has opened
    wire,       \* frames on the line
    gone,       \* history: frames lost, and begins that a clear threw away
    openSpans,  \* state.trace.openSpans
    spans,      \* state.trace.spans
    marks       \* state.trace.marks

traceVars == <<now, running, made, wire, gone, openSpans, spans, marks>>

InitTrace ==
    /\ now = 0 /\ made = 0 /\ running = [k \in Keys |-> NONE]
    /\ wire = <<>> /\ gone = {}
    /\ openSpans = [k \in Keys |-> NONE] /\ spans = <<>> /\ marks = <<>>

-----------------------------------------------------------------------------
(* The device *)

Send(kind, k, n) ==
    /\ Len(wire) < MAX_WIRE
    /\ wire' = Append(wire, [kind |-> kind, key |-> k, timestamp |-> now % PERIOD, n |-> n, at |-> now])

\* A span is closed before the counter comes round.
Tick ==
    /\ now < MAX_TIME
    /\ \A k \in Keys : running[k] # NONE => now + 1 - running[k].at < PERIOD
    /\ now' = now + 1
    /\ UNCHANGED <<running, made, wire, gone, openSpans, spans, marks>>

BeginSpan ==
    \E k \in Keys :
        /\ running[k] = NONE /\ made < MAX_MADE
        /\ Send("begin", k, made + 1)
        /\ running' = [running EXCEPT ![k] = [n |-> made + 1, at |-> now]]
        /\ made' = made + 1
        /\ UNCHANGED <<now, gone, openSpans, spans, marks>>

EndSpan ==
    \E k \in Keys :
        /\ running[k] # NONE
        /\ Send("end", k, running[k].n)
        /\ running' = [running EXCEPT ![k] = NONE]
        /\ UNCHANGED <<now, made, gone, openSpans, spans, marks>>

Mark ==
    \E k \in Keys :
        /\ Len(marks) + Len(SelectSeq(wire, LAMBDA f : f.kind = "mark")) < MAX_MARKS
        /\ Send("mark", k, 0)
        /\ UNCHANGED <<now, running, made, gone, openSpans, spans, marks>>

Lose ==
    /\ wire # <<>> /\ wire' = Tail(wire)
    /\ gone' = gone \cup {<<Head(wire).kind, Head(wire).n>>}
    /\ UNCHANGED <<now, running, made, openSpans, spans, marks>>

-----------------------------------------------------------------------------
(* Decoding *)

\* pruneTraceHistory
Pruned(list) == SubSeq(list, Len(list) - (IF Len(list) > MAX_SPANS THEN MAX_SPANS ELSE Len(list)) + 1, Len(list))

\* An open span of the same key is replaced.
beginTraceSpan(f) ==
    /\ openSpans' = [openSpans EXCEPT ![f.key] = [startTimestamp |-> f.timestamp, n |-> f.n, at |-> f.at]]
    /\ UNCHANGED <<spans, marks>>

\* The span an end closes; without a begin it is an orphan.
Closed(begin, f) ==
    IF begin = NONE
    THEN [orphan |-> TRUE, startTimestamp |-> NONE, endTimestamp |-> f.timestamp, duration |-> NONE,
          began |-> NONE, ended |-> f.n, from |-> NONE, to |-> f.at]
    ELSE [orphan |-> FALSE, startTimestamp |-> begin.startTimestamp, endTimestamp |-> f.timestamp,
          duration |-> (f.timestamp - begin.startTimestamp) % PERIOD,
          began |-> begin.n, ended |-> f.n, from |-> begin.at, to |-> f.at]

\* Mutant: the begin is left open.
LeftOpen_Keeps(k) == openSpans

\* What is open after an end of key k
LeftOpen(k) == [openSpans EXCEPT ![k] = NONE]

endTraceSpan(f) ==
    /\ spans' = Pruned(Append(spans, Closed(openSpans[f.key], f)))
    /\ openSpans' = LeftOpen(f.key)
    /\ UNCHANGED marks

decodeMark(f) ==
    /\ marks' = Pruned(Append(marks, [timestamp |-> f.timestamp, at |-> f.at]))
    /\ UNCHANGED <<openSpans, spans>>

Deliver ==
    /\ wire # <<>> /\ wire' = Tail(wire)
    /\ LET f == Head(wire)
       IN \/ f.kind = "begin" /\ beginTraceSpan(f)
          \/ f.kind = "end" /\ endTraceSpan(f)
          \/ f.kind = "mark" /\ decodeMark(f)
    /\ UNCHANGED <<now, running, made, gone>>

clearAllSpans ==
    /\ gone' = gone \cup {<<"begin", openSpans[k].n>> : k \in {k \in Keys : openSpans[k] # NONE}}
    /\ openSpans' = [k \in Keys |-> NONE] /\ spans' = <<>> /\ marks' = <<>>
    /\ UNCHANGED <<now, running, made, wire>>

-----------------------------------------------------------------------------
(* The timeline *)

\* traceItemTime of each item that buildTraceItems lists, with the time it stands for
buildTraceItems ==
    LET opened == SetToSeq({openSpans[k] : k \in Keys} \ {NONE})
    IN [i \in DOMAIN spans |->
            IF spans[i].orphan THEN [time |-> spans[i].endTimestamp, at |-> spans[i].to]
            ELSE [time |-> spans[i].startTimestamp, at |-> spans[i].from]]
       \o [i \in DOMAIN opened |-> [time |-> opened[i].startTimestamp, at |-> opened[i].at]]
       \o [i \in DOMAIN marks |-> [time |-> marks[i].timestamp, at |-> marks[i].at]]

\* Mutant: the order in which items came decides.
Later_Came(items, j, i) == j > i

\* Does item j come after item i when they are sorted by time?
Later(items, j, i) ==
    items[j].time > items[i].time \/ (items[j].time = items[i].time /\ j > i)

\* renderTrace without a time window: the last items, if there are many
Drawn(items) ==
    {i \in DOMAIN items : Cardinality({j \in DOMAIN items : Later(items, j, i)}) < RENDER_ITEMS}

NextTrace == Tick \/ BeginSpan \/ EndSpan \/ Mark \/ Lose \/ Deliver \/ clearAllSpans

SpecTrace == InitTrace /\ [][NextTrace]_traceVars

-----------------------------------------------------------------------------
(* Properties *)

\* A span shown is one of the device with the ticks it took, through a wrap of
\* the time stamps; it joins two spans only if both frames between them are
\* gone, and it is an orphan only if its begin is.  A span shown as open has an
\* end to come, or one that is lost.
SpansTrue ==
    /\ \A i \in DOMAIN spans :
          LET s == spans[i]
          IN CASE s.orphan -> <<"begin", s.ended>> \in gone
               [] ~s.orphan /\ s.began = s.ended -> s.duration = s.to - s.from
               [] ~s.orphan /\ s.began # s.ended ->
                      {<<"end", s.began>>, <<"begin", s.ended>>} \subseteq gone
    /\ \A k \in Keys : openSpans[k] # NONE =>
          \/ running[k] # NONE /\ running[k].n = openSpans[k].n
          \/ \E i \in DOMAIN wire : wire[i].kind = "end" /\ wire[i].n = openSpans[k].n
          \/ <<"end", openSpans[k].n>> \in gone

\* As long as all that is held is of one turn of the time stamps, what the
\* timeline leaves out began no later than anything it draws, closed, open,
\* orphaned or a mark.
LatestDrawn ==
    LET items == buildTraceItems
        drawn == Drawn(items)
    IN (\A i, j \in DOMAIN items : items[i].at \div PERIOD = items[j].at \div PERIOD)
         => /\ \A i \in drawn, j \in DOMAIN items \ drawn : items[j].at <= items[i].at
            /\ drawn # DOMAIN items => Cardinality(drawn) = RENDER_ITEMS
=============================================================================
