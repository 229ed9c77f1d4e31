----------------------------- MODULE Diagnosis -----------------------------
(***************************************************************************)
(* The diagnosis pipeline of the Web viewer as functions of the data the   *)
(* page holds: the snapshot of it (diagnostic_snapshot.js), the local      *)
(* rules on a snapshot (diagnostic_rules.js), the part of both that is     *)
(* sent to a provider (buildContext, ai_provider.js) and the check of what *)
(* comes back (diagnosis_validator.js).  An evidence item is its own       *)
(* identifier, for the code hashes its content; texts, orders of display,  *)
(* and the rules that only differ from latency.spike.v1 in the metric they *)
(* look at are left out.                                                   *)
(***************************************************************************)
EXTENDS Null, Integers, Sequences, FiniteSets, SequencesExt, FiniteSetsExt, Functions

CONSTANTS MODULUS,   \* time stamps count modulo this
          LIMIT,     \* threshold of latency.spike.v1
          WINDOW,    \* threshold of cross_source.temporal_overlap.v1
          BUDGET     \* findings and evidence that fit into a request

ASSUME DiagnosisAssumption ==
    /\ MODULUS \in Nat \ {0} /\ BUDGET \in Nat
    /\ LIMIT \in Nat /\ WINDOW \in Nat

-----------------------------------------------------------------------------
(* The snapshot *)

\* What a page may hold; a record without a time stamp has none in its snapshot.
Stamp == Nat \cup {NONE}
PageData ==
    [logs : Seq([at : Stamp, text : Nat]), spans : Seq([at : Stamp, problem : BOOLEAN]),
     timeouts : Nat, metrics : Seq([at : Stamp, value : Nat]),
     captures : Seq([at : Stamp, complete : BOOLEAN]), latest : Nat \cup {NONE}, errors : Nat]

Row(kind, source, at, bad, n) ==
    [kind |-> kind, source |-> source, at |-> at, bad |-> bad, n |-> n]

\* Rows in the order in which the lists of the page hold them: the log is kept
\* newest first, the others oldest first.
collectRecords(page, captureId) ==
    LET capture(c) == Row("la_capture", "logic_analyzer", page.captures[c].at, ~page.captures[c].complete, c)
    IN [i \in DOMAIN page.logs |-> Row("debug_log", "debug", page.logs[i].at, FALSE, page.logs[i].text)]
       \o [i \in DOMAIN page.spans |-> Row("trace_span", "trace", page.spans[i].at, page.spans[i].problem, i)]
       \o [i \in 1..page.timeouts |-> Row("monitor_timeout", "monitor", NONE, TRUE, i)]
       \o [i \in DOMAIN page.metrics |-> Row("profiler_metric", "profiler", page.metrics[i].at, FALSE, page.metrics[i].value)]
       \o (IF captureId = NONE THEN [c \in DOMAIN page.captures |-> capture(c)]
           ELSE IF captureId \in DOMAIN page.captures THEN <<capture(captureId)>> ELSE <<>>)
       \o <<Row("viewer_transport", "viewer", NONE, page.errors > 0, page.errors)>>

\* A jump back by more than half the modulus is taken for a wrap, from row to
\* row, whatever lists the rows come from.
unwrapTimestamps(rows) ==
    LET step(acc, row) ==
            LET back  == acc.previous # NONE /\ row.at # NONE /\ acc.previous - row.at > MODULUS \div 2
                wraps == acc.wraps + (IF back THEN 1 ELSE 0)
                tick  == IF row.at = NONE THEN NONE ELSE row.at + wraps * MODULUS
            IN [previous |-> IF row.at = NONE THEN acc.previous ELSE row.at,
                wraps |-> wraps,
                out |-> Append(acc.out, [row EXCEPT !.at = tick])]
    IN FoldLeft(step, [previous |-> NONE, wraps |-> 0, out |-> <<>>], rows).out

\* The scopes the page offers have no time bounds, so every row is in scope.
build(page, scope) ==
    [scope |-> scope,
     evidence |-> unwrapTimestamps(collectRecords(page, IF scope = "la_capture" THEN page.latest ELSE NONE))]

EvidenceOf(snapshot) == Range(snapshot.evidence)

-----------------------------------------------------------------------------
(* The local rules *)

Finding(rule, cites) == IF cites = {} THEN {} ELSE {[rule |-> rule, cites |-> cites]}

OfKind(items, kind) == {item \in items : item.kind = kind}

\* The closest pair of abnormal items of two sources.  Of several, the code takes
\* the first by time and then by identifier, a hash: any of them is as good here.
CloseInTime(evidence) ==
    LET abnormal == {i \in DOMAIN evidence : evidence[i].bad /\ evidence[i].at # NONE}
        apart(p) == Max({evidence[p[1]].at - evidence[p[2]].at, evidence[p[2]].at - evidence[p[1]].at})
        pairs    == {p \in abnormal \X abnormal :
                        /\ p[1] < p[2] /\ evidence[p[1]].source # evidence[p[2]].source
                        /\ apart(p) <= WINDOW}
        closest  == {p \in pairs : \A q \in pairs : apart(p) <= apart(q)}
    IN IF pairs = {} THEN {}
       ELSE LET pair == CHOOSE p \in closest : TRUE
            IN {evidence[pair[1]], evidence[pair[2]]}

\* Two items of the same content are one identifier, which the rules refuse.
HasDuplicates(snapshot) == Cardinality(EvidenceOf(snapshot)) # Len(snapshot.evidence)

\* evaluate throws
THROWS == [rule |-> "duplicate evidence IDs", cites |-> {}]

evaluate(snapshot) ==
    LET items      == EvidenceOf(snapshot)
        incomplete == {item \in OfKind(items, "la_capture") : item.bad}
    IN IF HasDuplicates(snapshot) THEN {THROWS}
       ELSE Finding("data_quality.incomplete", incomplete)
            \cup Finding("transport.error_rate", {item \in OfKind(items, "viewer_transport") : item.n >= 1})
            \cup Finding("monitor.response_timeout", OfKind(items, "monitor_timeout"))
            \cup Finding("latency.spike", {item \in OfKind(items, "profiler_metric") : item.n > LIMIT})
            \cup Finding("la.data_integrity", incomplete)
            \cup Finding("cross_source.temporal_overlap", CloseInTime(snapshot.evidence))

-----------------------------------------------------------------------------
(* What is sent *)

Size(context) == Cardinality(context.findings) + Cardinality(context.evidence)

\* Mutant: a finding is sent without the evidence it cites.
WithFinding_Alone(context, f, unit) == [context EXCEPT !.findings = @ \cup {f}]

\* A finding goes with its evidence.
WithFinding(context, f, unit) ==
    [context EXCEPT !.findings = @ \cup {f}, !.evidence = @ \cup unit]

WithEvidence(context, item) == [context EXCEPT !.evidence = @ \cup {item}]

IsQuality(f) == f.rule = "data_quality.incomplete"

\* Findings in turn, those on data quality first and whatever their size, each
\* with the evidence it cites as far as the snapshot has it; then the rest of
\* the evidence, the abnormal first, as long as it fits.
buildContext(snapshot, findings) ==
    LET items == EvidenceOf(snapshot)
        turn  == SetToSeq({f \in findings : IsQuality(f)}) \o SetToSeq({f \in findings : ~IsQuality(f)})
        take(context, f) ==
            LET candidate == WithFinding(context, f, f.cites \cap items)
            IN IF Size(candidate) <= BUDGET \/ IsQuality(f) THEN candidate ELSE context
        units == FoldLeft(take, [findings |-> {}, evidence |-> {}], turn)
        rest  == SetToSeq({item \in items \ units.evidence : item.bad})
                 \o SetToSeq({item \in items \ units.evidence : ~item.bad})
        fill(context, item) ==
            IF Size(WithEvidence(context, item)) <= BUDGET THEN WithEvidence(context, item) ELSE context
    IN FoldLeft(fill, units, rest)

-----------------------------------------------------------------------------
(* What comes back *)

\* A well-formed answer that cites nothing but what was sent
validate(raw, sent) == raw.formed /\ raw.cites \subseteq sent
=============================================================================
