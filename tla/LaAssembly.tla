----------------------------- MODULE LaAssembly -----------------------------
(***************************************************************************)
(* How the Web viewer puts a logic-analyzer capture together from header,   *)
(* trigger, sample and status frames (src/tools/viewer/web/app.js), with    *)
(* the device that reads captures out over a line that loses frames.  The   *)
(* line keeps the order, and a frame is decoded in one piece, so that a     *)
(* frame is either lost or decoded as it is sent.                           *)
(***************************************************************************)
EXTENDS Null, Naturals, Sequences, FiniteSets, SequencesExt, FiniteSetsExt

CONSTANTS Windows,   \* sequences of samples that a capture may hold
          CHUNK,     \* samples in a frame
          IDS        \* captures the device makes

ASSUME AssemblyAssumption ==
    /\ CHUNK \in Nat \ {0} /\ IDS \in Nat \ {0}
    /\ \A w \in Windows : w \in Seq({w[i] : i \in DOMAIN w} \ {NONE})

VARIABLES
    window,     \* the device: samples of each capture made so far
    readout,    \* frames of the current readout that are still to be sent
    missed,     \* history: chunks of the current readout that were lost
    again,      \* is the current readout the second of its capture?
    captures,   \* state.logicAnalyzer.captures
    latest,     \* state.logicAnalyzer.latestCaptureId; 0 is null
    counters    \* state.logicAnalyzer.counters, those of what did not come in order

assemblyVars == <<window, readout, missed, again, captures, latest, counters>>

\* None for an empty window: a capture stopped before its first sample
ChunkCount(w) == (Len(w) + CHUNK - 1) \div CHUNK
ChunkOf(w, id, k) ==
    [type |-> "sample", id |-> id, chunk |-> k, first |-> k * CHUNK,
     values |-> SubSeq(w, k * CHUNK + 1, Min({Len(w), (k + 1) * CHUNK}))]

\* What the device sends for a capture, in order
Program(windows, id) ==
    <<[type |-> "header", id |-> id, count |-> Len(windows[id])],
      [type |-> "trigger", id |-> id]>>
    \o [i \in 1..ChunkCount(windows[id]) |-> ChunkOf(windows[id], id, i - 1)]
    \o <<[type |-> "status", id |-> id]>>

\* A new entry of the captures map
BlankCapture == [count |-> NONE, status |-> FALSE, trigger |-> FALSE, chunks |-> {},
          samples |-> <<>>, missingRanges |-> <<>>, complete |-> FALSE, errors |-> {}]

ZeroCounters == [missingChunks |-> 0, outOfOrderChunks |-> 0, malformed |-> 0]

InitAssembly ==
    /\ window = <<>> /\ readout = <<>> /\ missed = {} /\ again = FALSE
    /\ captures = <<>>      \* the empty function
    /\ latest = 0
    /\ counters = ZeroCounters

-----------------------------------------------------------------------------
(* Decoding.  v is what the logic-analyzer model holds.                    *)

Model == [captures |-> captures, latest |-> latest, counters |-> counters]

laCapture(caps, id) == IF id \in DOMAIN caps THEN caps[id] ELSE BlankCapture

Put(v, id, capture) ==
    [v EXCEPT !.captures = [i \in DOMAIN @ \cup {id} |-> IF i = id THEN capture ELSE @[i]],
              !.latest = id]

Holes(n) == [i \in 1..n |-> NONE]

decodeHeader(v, f) ==
    Put(v, f.id, [laCapture(v.captures, f.id) EXCEPT
                    !.count = f.count, !.samples = Holes(f.count), !.complete = FALSE])

decodeTrigger(v, f) == Put(v, f.id, [laCapture(v.captures, f.id) EXCEPT !.trigger = TRUE])
decodeStatus(v, f)  == Put(v, f.id, [laCapture(v.captures, f.id) EXCEPT !.status = TRUE])

\* Mutant: the gap is taken to begin after the chunks counted, not the last one.
Gap_ByCount(chunks, k) == IF k > Cardinality(chunks) THEN <<<<Cardinality(chunks), k - 1>>>> ELSE <<>>

\* Chunks that did not come before chunk k: a range, or nothing
Gap(chunks, k) ==
    LET next == IF chunks = {} THEN 0 ELSE Max(chunks) + 1
    IN IF k > next THEN <<<<next, k - 1>>>> ELSE <<>>

RangeSizes(ranges) == FoldLeft(LAMBDA n, r : n + (r[2] + 1 - r[1]), 0, ranges)

\* Samples with room for index n, and then the values from index first
Grown(samples, n) == samples \o Holes(IF n > Len(samples) THEN n - Len(samples) ELSE 0)

\* Only holes are filled: what came first stays.
WithSamples(samples, first, values) ==
    [i \in DOMAIN Grown(samples, first + Len(values)) |->
        LET old == Grown(samples, first + Len(values))[i]
        IN IF old = NONE /\ i \in (first + 1)..(first + Len(values))
           THEN values[i - first] ELSE old]

Overlaps(samples, first, values) ==
    \E i \in DOMAIN samples \cap ((first + 1)..(first + Len(values))) : samples[i] # NONE

\* Mutant: the window is complete when no hole is left, header or not.
Complete_NoHeader(c) == \A i \in DOMAIN c.samples : c.samples[i] # NONE

\* Mutant: the number of chunks is rounded down.
Complete_Floor(c) == c.count # NONE /\ Cardinality(c.chunks) = c.count \div CHUNK

Complete(c) == c.count # NONE /\ \A i \in 1..c.count : c.samples[i] # NONE

Duplicate(v, f, c) ==
    [v EXCEPT !.captures = [i \in DOMAIN @ \cup {f.id} |->
                               IF i = f.id THEN [c EXCEPT !.errors = @ \cup {"overlap"}] ELSE @[i]]]

decodeSampleData(v, f) ==
    LET c0    == laCapture(v.captures, f.id)
        c1    == IF c0.count = NONE THEN [c0 EXCEPT !.errors = @ \cup {"missing_header"}] ELSE c0
        gap   == Gap(c1.chunks, f.chunk)
        c2    == [c1 EXCEPT
                    !.missingRanges = @ \o gap,
                    !.samples = WithSamples(@, f.first, f.values),
                    !.chunks = @ \cup {f.chunk},
                    !.errors = IF Overlaps(c1.samples, f.first, f.values) THEN @ \cup {"overlap"} ELSE @]
        late  == c1.chunks # {} /\ f.chunk < Max(c1.chunks)
    IN IF f.chunk \in c1.chunks THEN Duplicate(v, f, c1)
       ELSE [Put(v, f.id, [c2 EXCEPT !.complete = @ \/ Complete(c2)])
             EXCEPT !.counters =
                [v.counters EXCEPT !.missingChunks = @ + RangeSizes(gap),
                                   !.outOfOrderChunks = @ + (IF late THEN 1 ELSE 0)]]

decodeLogicAnalyzerFrame(v, f) ==
    CASE f.type = "header"  -> decodeHeader(v, f)
      [] f.type = "trigger" -> decodeTrigger(v, f)
      [] f.type = "sample"  -> decodeSampleData(v, f)
      [] f.type = "status"  -> decodeStatus(v, f)

Show(v) == captures' = v.captures /\ latest' = v.latest /\ counters' = v.counters

-----------------------------------------------------------------------------
(* The device *)

NewCapture ==
    /\ Len(window) < IDS
    /\ \E samples \in Windows :
           /\ window' = Append(window, samples)
           /\ readout' = Program(Append(window, samples), Len(window) + 1)
    /\ missed' = {} /\ again' = FALSE
    /\ UNCHANGED <<captures, latest, counters>>

ReadAgain ==
    /\ ~again /\ window # <<>> /\ readout = <<>>
    /\ readout' = Program(window, Len(window))
    /\ missed' = {} /\ again' = TRUE
    /\ UNCHANGED <<window, captures, latest, counters>>

DeliverFrame ==
    /\ readout # <<>>
    /\ Show(decodeLogicAnalyzerFrame(Model, Head(readout)))
    /\ readout' = Tail(readout)
    /\ UNCHANGED <<window, missed, again>>

LoseFrame ==
    /\ readout # <<>>
    /\ readout' = Tail(readout)
    /\ missed' = IF Head(readout).type = "sample" THEN missed \cup {Head(readout).chunk} ELSE missed
    /\ UNCHANGED <<window, again, captures, latest, counters>>

\* A frame of a wrong length or packing is counted and changes nothing else.
Malformed ==
    /\ readout # <<>>
    /\ counters.malformed = 0
    /\ counters' = [counters EXCEPT !.malformed = 1]
    /\ readout' = Tail(readout)
    /\ missed' = IF Head(readout).type = "sample" THEN missed \cup {Head(readout).chunk} ELSE missed
    /\ UNCHANGED <<window, again, captures, latest>>

-----------------------------------------------------------------------------
clearAllCaptures ==
    /\ captures' = <<>> /\ latest' = 0 /\ counters' = ZeroCounters
    /\ UNCHANGED <<window, readout, missed, again>>

NextAssembly == NewCapture \/ ReadAgain \/ DeliverFrame \/ LoseFrame \/ Malformed \/ clearAllCaptures

SpecAssembly == InitAssembly /\ [][NextAssembly]_assemblyVars

-----------------------------------------------------------------------------
(* Properties *)

\* What is shown of a capture is what the device captured, sample by sample; a
\* capture called complete is the whole window.
WindowExact ==
    \A id \in DOMAIN captures :
        LET c == captures[id]
        IN /\ \A i \in DOMAIN c.samples :
                  c.samples[i] # NONE => i <= Len(window[id]) /\ c.samples[i] = window[id][i]
           /\ c.complete => c.samples = window[id]

\* The missing ranges tell each chunk that did not come in its turn once: those
\* that never came before the last one that did, and those that came late, which
\* are the ones counted out of order.  The counters are sums over the captures
\* since the last clear.
GapsExact ==
    LET told(c)  == UNION {c.missingRanges[i][1]..c.missingRanges[i][2] : i \in DOMAIN c.missingRanges}
        late(c)  == told(c) \cap c.chunks
        sum(f(_)) == MapThenSumSet(LAMBDA id : f(captures[id]), DOMAIN captures)
    IN /\ \A id \in DOMAIN captures :
              LET c == captures[id]
              IN told(c) \ c.chunks = (IF c.chunks = {} THEN {} ELSE 0..Max(c.chunks)) \ c.chunks
       /\ counters.missingChunks = sum(LAMBDA c : Cardinality(told(c)))
       /\ counters.outOfOrderChunks = sum(LAMBDA c : Cardinality(late(c)))

Whole(id) == readout = <<>> /\ id = Len(window) /\ id \in DOMAIN captures

\* The first readout of a capture, if nothing but the trigger or the status was
\* lost, ends with a complete capture; but an empty one is not called complete,
\* for it is a chunk that makes a capture so.
CompleteWhenAll ==
    \A id \in DOMAIN window :
        Whole(id) /\ missed = {} /\ ~again /\ captures[id].count # NONE
            => (captures[id].complete <=> window[id] # <<>>)
=============================================================================
