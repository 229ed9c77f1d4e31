---------------------------- MODULE ViewerProofs ----------------------------
(***************************************************************************)
(* Parts of the Web viewer for every value of their constants: the         *)
(* assembly of captures, the trace, the AI panel, the monitor and the      *)
(* render loop, which have no variable in common.                          *)
(***************************************************************************)
EXTENDS LaAssembly, TraceSpans, AiDebug, MonitorClient, RenderLoop,
        SequenceTheorems, FiniteSetTheorems, BasicFacts

-----------------------------------------------------------------------------
(* The assembly of captures                                                *)

Samples == UNION {{w[i] : i \in DOMAIN w} : w \in Windows}

LaFrame ==
    [type : {"header"}, id : Nat, count : Nat]
    \cup [type : {"trigger", "status"}, id : Nat]
    \cup [type : {"sample"}, id : Nat, chunk : Nat, first : Nat, values : Seq(Samples)]

Capture ==
    [count : Nat \cup {NONE}, status : BOOLEAN, trigger : BOOLEAN, chunks : SUBSET Nat,
     samples : Seq(Samples \cup {NONE}), missingRanges : Seq(Nat \X Nat),
     complete : BOOLEAN, errors : SUBSET {"missing_header", "overlap"}]

(* A frame tells the truth about the window it is of.                      *)
FrameOf(f, w) ==
    /\ f.type = "header" => f.count = Len(w)
    /\ f.type = "sample" =>
         /\ f.first = f.chunk * CHUNK
         /\ Len(f.values) > 0
         /\ f.first + Len(f.values) <= Len(w)
         /\ \A i \in 1 .. Len(f.values) : f.values[i] = w[f.first + i]

(* A capture holds nothing but samples of the window, each in its place.   *)
CaptureOf(c, w) ==
    /\ c.chunks \subseteq 0 .. Len(w)
    /\ Len(c.samples) <= Len(w)
    /\ \A i \in 1 .. Len(c.samples) : c.samples[i] \in {NONE, w[i]}
    /\ c.count # NONE => c.count = Len(w) /\ Len(c.samples) = Len(w)
    /\ c.complete => c.samples = w /\ Len(w) > 0

Covers(f, i) == f.type = "sample" /\ f.first < i /\ i <= f.first + Len(f.values)

LaTypes ==
    /\ window \in Seq(Windows)
    /\ readout \in Seq(LaFrame)
    /\ again \in BOOLEAN
    /\ DOMAIN captures \subseteq 1 .. Len(window)
    /\ captures \in [DOMAIN captures -> Capture]

Truth ==
    /\ \A i \in DOMAIN readout : /\ window # <<>> /\ readout[i].id = Len(window)
                                 /\ FrameOf(readout[i], window[Len(window)])
    /\ \A id \in DOMAIN captures : CaptureOf(captures[id], window[id])

(* A readout sends its header first and its chunks in order, each once.    *)
Ordered(p) ==
    \A i, j \in DOMAIN p :
        i < j => /\ p[j].type # "header"
                 /\ p[i].type = "sample" /\ p[j].type = "sample" => p[i].chunk < p[j].chunk

InOrder == Ordered(readout)

(* A header on its way has all chunks behind it.                           *)
HeaderLeads ==
    \A h \in DOMAIN readout : readout[h].type = "header" =>
        \A i \in 1 .. Len(window[Len(window)]) : \E j \in DOMAIN readout : Covers(readout[j], i)

(* In the first readout nothing of what is to come is there yet.           *)
Untouched ==
    ~again => \A i \in DOMAIN readout :
        /\ readout[i].type = "header" => Len(window) \notin DOMAIN captures
        /\ readout[i].type = "sample" /\ Len(window) \in DOMAIN captures
             => readout[i].chunk \notin captures[Len(window)].chunks

(* If no chunk of it was lost, every hole is to be filled, and the capture *)
(* is complete when none is left, or it has no samples at all.             *)
HolesToCome ==
    ~again /\ missed = {} /\ Len(window) \in DOMAIN captures =>
        LET c == captures[Len(window)]
            w == window[Len(window)]
        IN c.count # NONE =>
             /\ \A i \in 1 .. Len(w) : \/ c.samples[i] # NONE
                                       \/ \E j \in DOMAIN readout : Covers(readout[j], i)
             /\ c.complete \/ Len(w) = 0 \/ \E i \in 1 .. Len(w) : c.samples[i] = NONE

LaInv == LaTypes /\ Truth /\ InOrder /\ HeaderLeads /\ Untouched /\ HolesToCome

(* A window is a sequence of samples, none of which stands for a hole.     *)
LEMMA WindowSamples ==
    ASSUME NEW w \in Windows
    PROVE  /\ w \in Seq(Samples) /\ Len(w) \in Nat
           /\ \A i \in 1 .. Len(w) : w[i] # NONE
<1> DEFINE V == {w[i] : i \in DOMAIN w}
<1>1. w \in Seq(V \ {NONE})
  BY AssemblyAssumption
<1>2. V \ {NONE} \subseteq Samples
  BY DEF Samples
<1> HIDE DEF V
<1>3. w \in Seq(Samples)
  BY <1>1, <1>2, SeqMonotonic
<1>4. Len(w) \in Nat
  BY <1>1, LenProperties
<1>5. \A i \in 1 .. Len(w) : w[i] \in V \ {NONE}
  BY <1>1, ElementOfSeq
<1> QED BY <1>3, <1>4, <1>5

(* The largest of a bounded set of numbers.                                *)
LEMMA MaxOf ==
    ASSUME NEW n \in Nat, NEW S \in SUBSET (0 .. n), S # {}
    PROVE  Max(S) \in S /\ \A x \in S : x <= Max(S)
<1> DEFINE U == {u \in Nat : \A x \in S : x <= u}
<1>1. n \in U
  OBVIOUS
<1>2. PICK u \in U : \A y \in U : u <= y
  BY <1>1, LeastNumber
<1>3. u \in S
  <2> SUFFICES ASSUME u \notin S PROVE FALSE OBVIOUS
  <2>1. PICK x0 \in S : TRUE OBVIOUS
  <2>2. u > 0
    BY <2>1, <1>2
  <2>3. u - 1 \in U
    BY <2>2, <1>2
  <2> QED BY <2>3, <1>2
<1>4. \E x \in S : \A y \in S : x >= y
  BY <1>2, <1>3
<1> QED BY <1>4 DEF Max

LEMMA GapType ==
    ASSUME NEW n \in Nat, NEW chunks \in SUBSET (0 .. n), NEW k \in Nat
    PROVE  Gap(chunks, k) \in Seq(Nat \X Nat)
<1> DEFINE next == IF chunks = {} THEN 0 ELSE Max(chunks) + 1
<1>1. next \in Nat
  <2>1. CASE chunks = {}
    BY <2>1
  <2>2. CASE chunks # {}
    <3>1. Max(chunks) \in chunks
      BY <2>2, MaxOf
    <3>2. \A x \in chunks : x \in Nat
      OBVIOUS
    <3>3. Max(chunks) \in Nat
      BY <3>1, <3>2
    <3> QED BY <2>2, <3>3
  <2> QED BY <2>1, <2>2
<1> HIDE DEF next
<1>2. k > next => <<next, k - 1>> \in Nat \X Nat
  BY <1>1
<1>3. Gap(chunks, k) = IF k > next THEN <<<<next, k - 1>>>> ELSE <<>>
  BY DEF Gap, next
<1>4. CASE k > next
  <2> DEFINE e == <<next, k - 1>>
  <2>1. e \in Nat \X Nat /\ Gap(chunks, k) = <<e>>
    BY <1>2, <1>3, <1>4
  <2> HIDE DEF e
  <2> QED BY <2>1
<1>5. CASE ~(k > next)
  BY <1>3, <1>5
<1> QED BY <1>4, <1>5

LEMMA GrownFacts ==
    ASSUME NEW S, NONE \in S, NEW s \in Seq(S), NEW n \in Nat
    PROVE  /\ Grown(s, n) \in Seq(S)
           /\ Len(Grown(s, n)) = IF n > Len(s) THEN n ELSE Len(s)
           /\ \A i \in 1 .. Len(Grown(s, n)) :
                 Grown(s, n)[i] = IF i <= Len(s) THEN s[i] ELSE NONE
<1> DEFINE m == IF n > Len(s) THEN n - Len(s) ELSE 0
<1>1. Len(s) \in Nat /\ m \in Nat
  BY LenProperties
<1>2. /\ Holes(m) \in Seq(S) /\ Len(Holes(m)) = m
      /\ \A i \in 1 .. m : Holes(m)[i] = NONE
  BY <1>1 DEF Holes
<1>3. Grown(s, n) = s \o Holes(m)
  BY DEF Grown
<1> HIDE DEF m
<1>4. /\ Grown(s, n) \in Seq(S)
      /\ Len(Grown(s, n)) = Len(s) + m
      /\ \A i \in 1 .. Len(s) + m :
            Grown(s, n)[i] = IF i <= Len(s) THEN s[i] ELSE Holes(m)[i - Len(s)]
  <2> DEFINE h == Holes(m)
  <2>1. h \in Seq(S) /\ Len(h) = m
    BY <1>2
  <2> HIDE DEF h
  <2>2. /\ s \o h \in Seq(S)
        /\ Len(s \o h) = Len(s) + Len(h)
        /\ \A i \in 1 .. Len(s) + Len(h) : (s \o h)[i] = IF i <= Len(s) THEN s[i] ELSE h[i - Len(s)]
    BY <2>1, ConcatProperties
  <2> QED BY <1>3, <2>1, <2>2 DEF h
<1>5. Len(s) + m = IF n > Len(s) THEN n ELSE Len(s)
  BY <1>1 DEF m
<1> QED BY <1>1, <1>2, <1>4, <1>5

(* The samples after a frame: longer if need be, with holes filled where   *)
(* the frame has a sample.                                                 *)
LEMMA WrittenFacts ==
    ASSUME NEW s \in Seq(Samples \cup {NONE}), NEW first \in Nat, NEW vals \in Seq(Samples)
    PROVE  LET n == IF first + Len(vals) > Len(s) THEN first + Len(vals) ELSE Len(s)
               t == WithSamples(s, first, vals)
           IN /\ t \in Seq(Samples \cup {NONE}) /\ Len(t) = n
              /\ \A i \in 1 .. n :
                    t[i] = IF i <= Len(s) /\ s[i] # NONE THEN s[i]
                           ELSE IF first < i /\ i <= first + Len(vals) THEN vals[i - first]
                           ELSE NONE
<1> DEFINE n == IF first + Len(vals) > Len(s) THEN first + Len(vals) ELSE Len(s)
           g == Grown(s, first + Len(vals))
           t == WithSamples(s, first, vals)
<1>1. Len(s) \in Nat /\ Len(vals) \in Nat /\ n \in Nat
  BY LenProperties
<1>2. /\ g \in Seq(Samples \cup {NONE}) /\ Len(g) = n
      /\ \A i \in 1 .. n : g[i] = IF i <= Len(s) THEN s[i] ELSE NONE
  <2> DEFINE S == Samples \cup {NONE}
  <2>1. NONE \in S /\ s \in Seq(S) /\ first + Len(vals) \in Nat
    BY <1>1
  <2> HIDE DEF S
  <2>2. /\ g \in Seq(S)
        /\ Len(g) = n
        /\ \A i \in 1 .. Len(g) : g[i] = IF i <= Len(s) THEN s[i] ELSE NONE
    BY <2>1, GrownFacts
  <2> QED BY <2>2 DEF S
<1>3. DOMAIN g = 1 .. n
  BY <1>2, LenProperties
<1>4. t = [i \in DOMAIN g |->
             IF g[i] = NONE /\ i \in (first + 1) .. (first + Len(vals))
             THEN vals[i - first] ELSE g[i]]
  BY DEF WithSamples
<1> HIDE DEF g, t
<1>5. \A i \in 1 .. n : g[i] \in Samples \cup {NONE}
  BY <1>2, ElementOfSeq
<1>6. \A i \in (first + 1) .. (first + Len(vals)) : vals[i - first] \in Samples
  BY <1>1, ElementOfSeq
<1>7. t = [i \in 1 .. n |->
             IF g[i] = NONE /\ i \in (first + 1) .. (first + Len(vals))
             THEN vals[i - first] ELSE g[i]]
  BY <1>3, <1>4
<1>8. t \in [1 .. n -> Samples \cup {NONE}]
  BY <1>5, <1>6, <1>7
<1>9. t \in Seq(Samples \cup {NONE}) /\ Len(t) = n
  BY <1>1, <1>8
<1>10. \A i \in 1 .. n :
          t[i] = IF i <= Len(s) /\ s[i] # NONE THEN s[i]
                 ELSE IF first < i /\ i <= first + Len(vals) THEN vals[i - first]
                 ELSE NONE
  BY <1>1, <1>2, <1>7
<1> QED BY <1>9, <1>10 DEF t

LEMMA BlankHolds ==
    ASSUME NEW w, Len(w) \in Nat
    PROVE  BlankCapture \in Capture /\ CaptureOf(BlankCapture, w)
<1>1. <<>> \in Seq(Samples \cup {NONE}) /\ Len(<<>>) = 0 /\ <<>> \in Seq(Nat \X Nat)
  OBVIOUS
<1>2. BlankCapture \in Capture
  BY <1>1 DEF BlankCapture, Capture
<1> QED BY <1>1, <1>2 DEF BlankCapture, CaptureOf

(* What a frame makes of the capture it is of.                             *)
HeaderTo(c, w) == [c EXCEPT !.count = Len(w), !.samples = Holes(Len(w)), !.complete = FALSE]

SampleTo(c, d, f) ==
    IF f.chunk \in c.chunks
    THEN d.count = c.count /\ d.samples = c.samples /\ d.chunks = c.chunks /\ d.complete = c.complete
    ELSE /\ d.count = c.count /\ d.chunks = c.chunks \cup {f.chunk}
         /\ d.samples = WithSamples(c.samples, f.first, f.values)
         /\ d.complete = (c.complete \/ Complete(d))

LEMMA HeaderHolds ==
    ASSUME NEW w \in Windows, NEW c \in Capture, CaptureOf(c, w)
    PROVE  HeaderTo(c, w) \in Capture /\ CaptureOf(HeaderTo(c, w), w)
<1>1. Len(w) \in Nat
  BY WindowSamples
<1>2. /\ Holes(Len(w)) \in Seq(Samples \cup {NONE}) /\ Len(Holes(Len(w))) = Len(w)
      /\ \A i \in 1 .. Len(w) : Holes(Len(w))[i] = NONE
  BY <1>1 DEF Holes
<1> DEFINE h == Holes(Len(w))
<1> HIDE DEF h
<1>3. HeaderTo(c, w) = [c EXCEPT !.count = Len(w), !.samples = h, !.complete = FALSE]
  BY DEF HeaderTo, h
<1>4. h \in Seq(Samples \cup {NONE}) /\ Len(h) = Len(w) /\ \A i \in 1 .. Len(w) : h[i] = NONE
  BY <1>2 DEF h
<1>5. HeaderTo(c, w) \in Capture
  BY <1>1, <1>3, <1>4 DEF Capture
<1>6. /\ HeaderTo(c, w).count = Len(w) /\ HeaderTo(c, w).samples = h
      /\ HeaderTo(c, w).complete = FALSE /\ HeaderTo(c, w).chunks = c.chunks
  BY <1>3 DEF Capture
<1> QED BY <1>1, <1>4, <1>5, <1>6 DEF CaptureOf

(* Marking a capture changes no sample of it.                              *)
LEMMA MarkHolds ==
    ASSUME NEW w, NEW c \in Capture, CaptureOf(c, w), NEW d \in Capture,
           d.count = c.count, d.samples = c.samples, d.chunks = c.chunks, d.complete = c.complete
    PROVE  CaptureOf(d, w)
  BY DEF CaptureOf

(* A capture of which no sample is missing is the window.                  *)
LEMMA CompleteIsWhole ==
    ASSUME NEW w \in Windows, NEW c \in Capture,
           c.count # NONE, c.count = Len(w), Len(c.samples) = Len(w),
           \A i \in 1 .. Len(c.samples) : c.samples[i] \in {NONE, w[i]},
           Complete(c)
    PROVE  c.samples = w
<1>1. c.samples \in Seq(Samples \cup {NONE}) /\ w \in Seq(Samples \cup {NONE})
  <2>1. w \in Seq(Samples) /\ Samples \subseteq Samples \cup {NONE}
    BY WindowSamples
  <2> QED BY <2>1, SeqMonotonic DEF Capture
<1>2. \A i \in 1 .. Len(c.samples) : c.samples[i] = w[i]
  BY DEF Complete
<1> QED BY <1>1, <1>2, SeqEqual

LEMMA SampleHolds ==
    ASSUME NEW w \in Windows, NEW c \in Capture, CaptureOf(c, w),
           NEW f \in LaFrame, f.type = "sample", FrameOf(f, w),
           NEW d \in Capture, SampleTo(c, d, f)
    PROVE  CaptureOf(d, w)
<1>1. CASE f.chunk \in c.chunks
  BY <1>1, MarkHolds DEF SampleTo
<1>2. CASE f.chunk \notin c.chunks
  <2>1. /\ d.count = c.count /\ d.chunks = c.chunks \cup {f.chunk}
        /\ d.samples = WithSamples(c.samples, f.first, f.values)
        /\ d.complete = (c.complete \/ Complete(d))
    BY <1>2 DEF SampleTo
  <2>2. /\ f.chunk \in Nat /\ f.first \in Nat /\ f.values \in Seq(Samples)
        /\ c.samples \in Seq(Samples \cup {NONE})
    BY DEF LaFrame, Capture
  <2>3. /\ w \in Seq(Samples) /\ Len(w) \in Nat /\ Len(c.samples) \in Nat
        /\ Len(f.values) \in Nat
    BY <2>2, WindowSamples, LenProperties
  <2>4. /\ f.first = f.chunk * CHUNK /\ f.first + Len(f.values) <= Len(w)
        /\ \A i \in 1 .. Len(f.values) : f.values[i] = w[f.first + i]
    BY DEF FrameOf
  <2>5. f.chunk <= f.chunk * CHUNK
    <3>1. CHUNK \in Nat \ {0}
      BY AssemblyAssumption
    <3>2. \A x \in Nat, y \in Nat \ {0} : x <= x * y
      OBVIOUS
    <3> QED BY <2>2, <3>1, <3>2
  <2>6. d.chunks \subseteq 0 .. Len(w)
    BY <2>1, <2>2, <2>3, <2>4, <2>5 DEF CaptureOf
  <2> DEFINE n == IF f.first + Len(f.values) > Len(c.samples)
                  THEN f.first + Len(f.values) ELSE Len(c.samples)
  <2>7. /\ Len(d.samples) = n
        /\ \A i \in 1 .. n :
              d.samples[i] = IF i <= Len(c.samples) /\ c.samples[i] # NONE THEN c.samples[i]
                             ELSE IF f.first < i /\ i <= f.first + Len(f.values)
                             THEN f.values[i - f.first] ELSE NONE
    <3> DEFINE s == c.samples
               first == f.first
               vals == f.values
    <3>1. s \in Seq(Samples \cup {NONE}) /\ first \in Nat /\ vals \in Seq(Samples)
      BY <2>2
    <3> HIDE DEF s, first, vals
    <3>2. /\ Len(WithSamples(s, first, vals))
               = IF first + Len(vals) > Len(s) THEN first + Len(vals) ELSE Len(s)
          /\ \A i \in 1 .. (IF first + Len(vals) > Len(s) THEN first + Len(vals) ELSE Len(s)) :
                WithSamples(s, first, vals)[i]
                  = IF i <= Len(s) /\ s[i] # NONE THEN s[i]
                    ELSE IF first < i /\ i <= first + Len(vals) THEN vals[i - first]
                    ELSE NONE
      BY <3>1, WrittenFacts
    <3> QED BY <2>1, <3>2 DEF s, first, vals
  <2>8. n \in Nat /\ n <= Len(w)
    BY <2>2, <2>3, <2>4 DEF CaptureOf
  <2>9. \A i \in 1 .. n : d.samples[i] \in {NONE, w[i]}
    <3> SUFFICES ASSUME NEW i \in 1 .. n PROVE d.samples[i] \in {NONE, w[i]} OBVIOUS
    <3>1. CASE i <= Len(c.samples) /\ c.samples[i] # NONE
      BY <2>3, <2>7, <2>8, <3>1 DEF CaptureOf
    <3>2. CASE f.first < i /\ i <= f.first + Len(f.values)
      <4>1. i - f.first \in 1 .. Len(f.values) /\ f.first + (i - f.first) = i
        BY <2>2, <2>3, <2>8, <3>2
      <4>2. f.values[i - f.first] = w[i]
        BY <2>4, <4>1
      <4> QED BY <2>7, <3>1, <3>2, <4>2
    <3> QED BY <2>7, <3>1, <3>2
  <2> HIDE DEF n
  <2>10. d.count # NONE => d.count = Len(w) /\ Len(d.samples) = Len(w)
    <3> SUFFICES ASSUME d.count # NONE PROVE d.count = Len(w) /\ Len(d.samples) = Len(w) OBVIOUS
    <3>1. c.count = Len(w) /\ Len(c.samples) = Len(w)
      BY <2>1 DEF CaptureOf
    <3>2. n = Len(w)
      BY <2>2, <2>3, <2>4, <3>1 DEF n
    <3> QED BY <2>1, <2>7, <3>1, <3>2
  <2>11. Complete(d) => d.samples = w
    BY <2>7, <2>9, <2>10, CompleteIsWhole DEF Complete
  <2>12. c.complete => d.samples = w
    <3> SUFFICES ASSUME c.complete PROVE d.samples = w OBVIOUS
    <3>1. c.samples = w
      BY DEF CaptureOf
    <3>2. n = Len(w)
      BY <2>2, <2>3, <2>4, <3>1 DEF n
    <3>3. \A i \in 1 .. Len(w) : d.samples[i] = w[i]
      BY <2>3, <2>7, <3>1, <3>2, WindowSamples
    <3>4. /\ d.samples \in Seq(Samples \cup {NONE})
          /\ w \in Seq(Samples \cup {NONE})
      BY <2>3, SeqMonotonic, Samples \subseteq Samples \cup {NONE} DEF Capture
    <3> QED BY <2>7, <3>2, <3>3, <3>4, SeqEqual
  <2>13. Len(w) > 0
    <3>1. Len(f.values) > 0
      BY DEF FrameOf
    <3> QED BY <2>2, <2>3, <2>4, <3>1
  <2> QED BY <2>1, <2>6, <2>7, <2>8, <2>9, <2>10, <2>11, <2>12, <2>13 DEF CaptureOf
<1> QED BY <1>1, <1>2

(* Decoding a frame changes the capture it is of and no other.             *)
PutAt(id, d) == [i \in DOMAIN captures \cup {id} |-> IF i = id THEN d ELSE captures[i]]

DecodesTo(f, c, d) ==
    /\ decodeLogicAnalyzerFrame(Model, f).captures = PutAt(f.id, d)
    /\ f.type = "header" => d = [c EXCEPT !.count = f.count, !.samples = Holes(f.count), !.complete = FALSE]
    /\ f.type \in {"trigger", "status"} =>
         d.count = c.count /\ d.samples = c.samples /\ d.chunks = c.chunks /\ d.complete = c.complete
    /\ f.type = "sample" => SampleTo(c, d, f)

LEMMA PutModel ==
    ASSUME NEW id, NEW d
    PROVE  /\ Put(Model, id, d).captures = PutAt(id, d)
           /\ \A x : [Put(Model, id, d) EXCEPT !.counters = x].captures = PutAt(id, d)
  BY DEF Put, Model, PutAt

LEMMA SampleDecodes ==
    ASSUME NEW f \in LaFrame, f.type = "sample", NEW n \in Nat,
           NEW c \in Capture, c = laCapture(captures, f.id), c.chunks \subseteq 0 .. n
    PROVE  \E d \in Capture : DecodesTo(f, c, d)
<1> DEFINE c1   == IF c.count = NONE THEN [c EXCEPT !.errors = @ \cup {"missing_header"}] ELSE c
           gap  == Gap(c1.chunks, f.chunk)
           errs == IF Overlaps(c1.samples, f.first, f.values) THEN c1.errors \cup {"overlap"} ELSE c1.errors
           c2   == [c1 EXCEPT !.missingRanges = @ \o gap,
                              !.samples = WithSamples(@, f.first, f.values),
                              !.chunks = @ \cup {f.chunk},
                              !.errors = errs]
           dup  == [c1 EXCEPT !.errors = @ \cup {"overlap"}]
           new  == [c2 EXCEPT !.complete = @ \/ Complete(c2)]
<1>1. f.chunk \in Nat /\ f.first \in Nat /\ f.values \in Seq(Samples)
  BY DEF LaFrame
<1>2. /\ c1 \in Capture /\ c1.count = c.count /\ c1.samples = c.samples
      /\ c1.chunks = c.chunks /\ c1.complete = c.complete
  BY DEF Capture
<1> HIDE DEF c1
<1>3. CASE f.chunk \in c.chunks
  <2>1. /\ dup \in Capture /\ dup.count = c.count /\ dup.samples = c.samples
        /\ dup.chunks = c.chunks /\ dup.complete = c.complete
    BY <1>2 DEF Capture
  <2> HIDE DEF dup
  <2>2. decodeLogicAnalyzerFrame(Model, f) = Duplicate(Model, f, c1)
    BY <1>2, <1>3 DEF decodeLogicAnalyzerFrame, decodeSampleData, Model, c1
  <2>3. Duplicate(Model, f, c1).captures = PutAt(f.id, dup)
    BY DEF Duplicate, Model, PutAt, dup
  <2>4. DecodesTo(f, c, dup)
    BY <1>3, <2>1, <2>2, <2>3 DEF DecodesTo, SampleTo
  <2> QED BY <2>1, <2>4
<1>4. CASE f.chunk \notin c.chunks
  <2>1. gap \in Seq(Nat \X Nat)
    BY <1>1, <1>2, GapType
  <2>2. c1.missingRanges \o gap \in Seq(Nat \X Nat)
    BY <1>2, <2>1, ConcatProperties DEF Capture
  <2>3. WithSamples(c1.samples, f.first, f.values) \in Seq(Samples \cup {NONE})
    BY <1>1, <1>2, WrittenFacts DEF Capture
  <2>4. errs \in SUBSET {"missing_header", "overlap"}
    BY <1>2 DEF Capture
  <2> HIDE DEF gap, errs
  <2>5. /\ c2 \in Capture /\ c2.count = c.count /\ c2.chunks = c.chunks \cup {f.chunk}
        /\ c2.samples = WithSamples(c.samples, f.first, f.values) /\ c2.complete = c.complete
    BY <1>1, <1>2, <2>2, <2>3, <2>4 DEF Capture
  <2>6. Complete(c2) \in BOOLEAN
    BY DEF Complete
  <2> HIDE DEF c2
  <2>7. /\ new \in Capture /\ new.count = c2.count /\ new.chunks = c2.chunks
        /\ new.samples = c2.samples /\ new.complete = (c2.complete \/ Complete(c2))
    BY <2>5, <2>6 DEF Capture
  <2> HIDE DEF new
  <2>8. Complete(new) = Complete(c2)
    BY <2>7 DEF Complete
  <2>9. decodeLogicAnalyzerFrame(Model, f).captures = PutAt(f.id, new)
    <3> DEFINE late == c1.chunks # {} /\ f.chunk < Max(c1.chunks)
               put == Put(Model, f.id, new)
    <3>1. decodeLogicAnalyzerFrame(Model, f)
            = [put EXCEPT !.counters =
                 [counters EXCEPT !.missingChunks = @ + RangeSizes(gap),
                                    !.outOfOrderChunks = @ + (IF late THEN 1 ELSE 0)]]
      BY <1>2, <1>4 DEF decodeLogicAnalyzerFrame, decodeSampleData, Model, c1, c2, gap, errs, new
    <3> HIDE DEF late
    <3> QED BY <3>1, PutModel
  <2>10. DecodesTo(f, c, new)
    BY <1>4, <2>5, <2>7, <2>8, <2>9 DEF DecodesTo, SampleTo
  <2> QED BY <2>7, <2>10
<1> QED BY <1>3, <1>4

LEMMA FrameDecodes ==
    ASSUME NEW f \in LaFrame, NEW n \in Nat,
           NEW c \in Capture, c = laCapture(captures, f.id), c.chunks \subseteq 0 .. n
    PROVE  \E d \in Capture : DecodesTo(f, c, d)
<1>1. CASE f.type = "sample"
  BY <1>1, SampleDecodes
<1>2. CASE f.type = "header"
  <2> DEFINE h == Holes(f.count)
             d == [c EXCEPT !.count = f.count, !.samples = h, !.complete = FALSE]
  <2>1. f.count \in Nat
    BY <1>2 DEF LaFrame
  <2>2. h \in Seq(Samples \cup {NONE})
    BY <2>1 DEF Holes
  <2> HIDE DEF h
  <2>3. d \in Capture
    BY <2>1, <2>2 DEF Capture
  <2>4. decodeLogicAnalyzerFrame(Model, f) = Put(Model, f.id, d)
    BY <1>2 DEF decodeLogicAnalyzerFrame, decodeHeader, Model, h
  <2>5. DecodesTo(f, c, d)
    BY <1>2, <2>4, PutModel DEF DecodesTo, h
  <2> QED BY <2>3, <2>5
<1>3. CASE f.type = "trigger"
  <2> DEFINE d == [c EXCEPT !.trigger = TRUE]
  <2>1. /\ d \in Capture /\ d.count = c.count /\ d.samples = c.samples
        /\ d.chunks = c.chunks /\ d.complete = c.complete
    BY DEF Capture
  <2>2. decodeLogicAnalyzerFrame(Model, f) = Put(Model, f.id, d)
    BY <1>3 DEF decodeLogicAnalyzerFrame, decodeTrigger, Model
  <2> HIDE DEF d
  <2>3. DecodesTo(f, c, d)
    BY <1>3, <2>1, <2>2, PutModel DEF DecodesTo
  <2> QED BY <2>1, <2>3
<1>4. CASE f.type = "status"
  <2> DEFINE d == [c EXCEPT !.status = TRUE]
  <2>1. /\ d \in Capture /\ d.count = c.count /\ d.samples = c.samples
        /\ d.chunks = c.chunks /\ d.complete = c.complete
    BY DEF Capture
  <2>2. decodeLogicAnalyzerFrame(Model, f) = Put(Model, f.id, d)
    BY <1>4 DEF decodeLogicAnalyzerFrame, decodeStatus, Model
  <2> HIDE DEF d
  <2>3. DecodesTo(f, c, d)
    BY <1>4, <2>1, <2>2, PutModel DEF DecodesTo
  <2> QED BY <2>1, <2>3
<1> QED BY <1>1, <1>2, <1>3, <1>4 DEF LaFrame

(* What chunk a sample is in, and what samples a chunk holds.              *)
LEMMA ChunkBounds ==
    ASSUME NEW n \in Nat, NEW k \in 0 .. ((n + CHUNK - 1) \div CHUNK) - 1
    PROVE  k * CHUNK < n
<1> DEFINE q == (n + CHUNK - 1) \div CHUNK
           r == (n + CHUNK - 1) % CHUNK
<1>1. CHUNK \in Nat \ {0}
  BY AssemblyAssumption
<1>2. q \in Int /\ r \in 0 .. CHUNK - 1 /\ n + CHUNK - 1 = (CHUNK * q) + r
  <2>1. n + CHUNK - 1 \in Int
    BY <1>1
  <2> QED BY <1>1, <2>1, ModDef
<1> HIDE DEF q, r
<1>3. k \in Nat /\ k + 1 <= q
  BY <1>2 DEF q
<1>4. CHUNK * (k + 1) <= CHUNK * q
  BY <1>1, <1>2, <1>3
<1>5. CHUNK * (k + 1) = (CHUNK * k) + CHUNK
  BY <1>1, <1>3
<1> QED BY <1>1, <1>2, <1>3, <1>4, <1>5

LEMMA ChunkCover ==
    ASSUME NEW n \in Nat, NEW i \in 1 .. n
    PROVE  \E k \in 0 .. ((n + CHUNK - 1) \div CHUNK) - 1 :
              k * CHUNK < i /\ i <= (k + 1) * CHUNK
<1> DEFINE q == (n + CHUNK - 1) \div CHUNK
           r == (n + CHUNK - 1) % CHUNK
           k == (i - 1) \div CHUNK
           x == (i - 1) % CHUNK
<1>1. CHUNK \in Nat \ {0}
  BY AssemblyAssumption
<1>2. q \in Int /\ r \in 0 .. CHUNK - 1 /\ n + CHUNK - 1 = (CHUNK * q) + r
  <2>1. n + CHUNK - 1 \in Int
    BY <1>1
  <2> QED BY <1>1, <2>1, ModDef
<1>3. k \in Int /\ x \in 0 .. CHUNK - 1 /\ i - 1 = (CHUNK * k) + x
  <2>1. i - 1 \in Int
    OBVIOUS
  <2> QED BY <1>1, <2>1, ModDef
<1> HIDE DEF q, r, k, x
<1>4. k >= 0
  <2> SUFFICES ASSUME k <= -1 PROVE FALSE BY <1>3
  <2>1. CHUNK * k <= 0 - CHUNK
    BY <1>1, <1>3
  <2> QED BY <1>1, <1>3, <2>1
<1>5. k + 1 <= q
  <2> SUFFICES ASSUME k >= q PROVE FALSE BY <1>2, <1>3
  <2>1. CHUNK * k >= CHUNK * q
    BY <1>1, <1>2, <1>3
  <2> QED BY <1>1, <1>2, <1>3, <2>1
<1>6. k * CHUNK < i /\ i <= (k + 1) * CHUNK
  BY <1>1, <1>3
<1> QED BY <1>2, <1>3, <1>4, <1>5, <1>6 DEF q

(* The number of chunks, none for nothing.                                 *)
LEMMA ChunksAreCounted ==
    ASSUME NEW n \in Nat
    PROVE  (n + CHUNK - 1) \div CHUNK \in Nat
<1> DEFINE q == (n + CHUNK - 1) \div CHUNK
           r == (n + CHUNK - 1) % CHUNK
<1>1. CHUNK \in Nat \ {0}
  BY AssemblyAssumption
<1>2. q \in Int /\ r \in 0 .. CHUNK - 1 /\ n + CHUNK - 1 = (CHUNK * q) + r
  <2>1. n + CHUNK - 1 \in Int
    BY <1>1
  <2> QED BY <1>1, <2>1, ModDef
<1> HIDE DEF q, r
<1>3. q >= 0
  <2> SUFFICES ASSUME q <= -1 PROVE FALSE BY <1>2
  <2>1. CHUNK * q <= 0 - CHUNK
    BY <1>1, <1>2
  <2> QED BY <1>1, <1>2, <2>1
<1> QED BY <1>2, <1>3 DEF q

LEMMA ChunkFrame ==
    ASSUME NEW w \in Windows, NEW id \in Nat, NEW k \in 0 .. ChunkCount(w) - 1
    PROVE  LET f == ChunkOf(w, id, k)
           IN /\ f \in LaFrame /\ f.type = "sample" /\ f.id = id /\ f.chunk = k /\ FrameOf(f, w)
              /\ \A i \in 1 .. Len(w) :
                    k * CHUNK < i /\ i <= (k + 1) * CHUNK => Covers(f, i)
<1> DEFINE f == ChunkOf(w, id, k)
           first == k * CHUNK
           last == Min({Len(w), (k + 1) * CHUNK})
           v == SubSeq(w, first + 1, last)
<1>1. CHUNK \in Nat \ {0} /\ w \in Seq(Samples) /\ Len(w) \in Nat
  BY WindowSamples, AssemblyAssumption
<1>2. k \in Nat /\ first < Len(w)
  <2>1. k \in 0 .. ((Len(w) + CHUNK - 1) \div CHUNK) - 1
    BY DEF ChunkCount
  <2> QED BY <1>1, <2>1, ChunkBounds
<1>3. first \in Nat /\ (k + 1) * CHUNK \in Nat /\ (k + 1) * CHUNK = first + CHUNK
  BY <1>1, <1>2
<1>4. last \in {Len(w), (k + 1) * CHUNK} /\ last <= Len(w) /\ last <= (k + 1) * CHUNK
  <2>1. \A a, b \in Int : /\ Min({a, b}) \in {a, b}
                          /\ Min({a, b}) <= a /\ Min({a, b}) <= b
    <3> SUFFICES ASSUME NEW a \in Int, NEW b \in Int
                 PROVE  /\ Min({a, b}) \in {a, b}
                        /\ Min({a, b}) <= a /\ Min({a, b}) <= b
      OBVIOUS
    <3>1. \E x \in {a, b} : \A y \in {a, b} : x <= y
      BY a <= b \/ b <= a
    <3> QED BY <3>1 DEF Min
  <2> DEFINE e == (k + 1) * CHUNK
             l == Len(w)
  <2>2. e \in Int /\ l \in Int
    BY <1>1, <1>3
  <2> HIDE DEF e, l
  <2>3. Min({l, e}) \in {l, e} /\ Min({l, e}) <= l /\ Min({l, e}) <= e
    BY <2>1, <2>2
  <2> QED BY <2>3 DEF e, l
<1>5. f = [type |-> "sample", id |-> id, chunk |-> k, first |-> first, values |-> v]
  BY DEF ChunkOf
<1>6. last \in Nat /\ first < last
  BY <1>1, <1>2, <1>3, <1>4
<1> HIDE DEF first, last, f
<1>7. \A i \in first + 1 .. last : w[i] \in Samples
  BY <1>1, <1>3, <1>4, <1>6, ElementOfSeq
<1>8. /\ v \in Seq(Samples) /\ Len(v) = last - first
      /\ \A i \in 1 .. last - first : v[i] = w[first + i]
  BY <1>3, <1>6, <1>7, SubSeqProperties
<1> HIDE DEF v
<1>9. f \in LaFrame
  BY <1>2, <1>3, <1>5, <1>8 DEF LaFrame
<1>10. FrameOf(f, w)
  <2>1. Len(v) > 0 /\ first + Len(v) <= Len(w)
    BY <1>1, <1>3, <1>4, <1>6, <1>8
  <2>2. f.type = "sample" /\ f.first = first /\ f.chunk = k /\ f.values = v
    BY <1>5
  <2>3. first = k * CHUNK
    BY DEF first
  <2> QED BY <1>8, <2>1, <2>2, <2>3 DEF FrameOf
<1>11. \A i \in 1 .. Len(w) : first < i /\ i <= (k + 1) * CHUNK => Covers(f, i)
  <2> SUFFICES ASSUME NEW i \in 1 .. Len(w), first < i, i <= (k + 1) * CHUNK
               PROVE  Covers(f, i)
    OBVIOUS
  <2>1. i <= last
    BY <1>1, <1>3, <1>4
  <2> QED BY <1>3, <1>5, <1>6, <1>8, <2>1 DEF Covers
<1> QED BY <1>5, <1>9, <1>10, <1>11 DEF f, first

(* What a readout sends: the whole capture, in order.                      *)
LEMMA ProgramHolds ==
    ASSUME NEW ws \in Seq(Windows), NEW id \in 1 .. Len(ws)
    PROVE  /\ Program(ws, id) \in Seq(LaFrame)
           /\ \A i \in DOMAIN Program(ws, id) :
                 Program(ws, id)[i].id = id /\ FrameOf(Program(ws, id)[i], ws[id])
           /\ Ordered(Program(ws, id))
           /\ \A i \in 1 .. Len(ws[id]) :
                 \E j \in DOMAIN Program(ws, id) : Covers(Program(ws, id)[j], i)
<1> DEFINE w == ws[id]
           n == ChunkCount(w)
           a == <<[type |-> "header", id |-> id, count |-> Len(w)], [type |-> "trigger", id |-> id]>>
           b == [i \in 1 .. n |-> ChunkOf(w, id, i - 1)]
           c == <<[type |-> "status", id |-> id]>>
           p == Program(ws, id)
<1>1. id \in Nat /\ w \in Windows /\ Len(w) \in Nat
  <2>1. w \in Windows
    BY ElementOfSeq
  <2> QED BY <2>1, WindowSamples
<1>2. p = (a \o b) \o c
  BY DEF Program
<1>3. n \in Nat /\ n = (Len(w) + CHUNK - 1) \div CHUNK
  <2> HIDE DEF w
  <2> QED BY <1>1, ChunksAreCounted DEF ChunkCount
<1>4. /\ a \in Seq(LaFrame) /\ Len(a) = 2 /\ a[1].type = "header" /\ a[2].type = "trigger"
      /\ a[1].id = id /\ a[2].id = id /\ a[1].count = Len(w)
  BY <1>1 DEF LaFrame
<1>5. c \in Seq(LaFrame) /\ Len(c) = 1 /\ c[1].type = "status" /\ c[1].id = id
  BY <1>1 DEF LaFrame
<1>6. \A i \in 1 .. n :
         /\ b[i] \in LaFrame /\ b[i].type = "sample" /\ b[i].id = id /\ b[i].chunk = i - 1
         /\ FrameOf(b[i], w)
         /\ \A x \in 1 .. Len(w) : (i - 1) * CHUNK < x /\ x <= i * CHUNK => Covers(b[i], x)
  <2> SUFFICES ASSUME NEW i \in 1 .. n
               PROVE  /\ b[i] \in LaFrame /\ b[i].type = "sample" /\ b[i].id = id /\ b[i].chunk = i - 1
                      /\ FrameOf(b[i], w)
                      /\ \A x \in 1 .. Len(w) : (i - 1) * CHUNK < x /\ x <= i * CHUNK => Covers(b[i], x)
    OBVIOUS
  <2> DEFINE k == i - 1
  <2>1. k \in 0 .. ChunkCount(w) - 1 /\ i = k + 1 /\ b[i] = ChunkOf(w, id, k)
    BY <1>3
  <2> HIDE DEF k, w, b
  <2>2. /\ b[i] \in LaFrame /\ b[i].type = "sample" /\ b[i].id = id /\ b[i].chunk = k
        /\ FrameOf(b[i], w)
        /\ \A x \in 1 .. Len(w) : k * CHUNK < x /\ x <= (k + 1) * CHUNK => Covers(b[i], x)
    BY <1>1, <2>1, ChunkFrame
  <2> QED BY <2>1, <2>2 DEF k
<1> HIDE DEF w, n
<1>7. b \in Seq(LaFrame) /\ Len(b) = n
  <2>1. b = [i \in 1 .. n |-> b[i]]
    OBVIOUS
  <2> HIDE DEF b
  <2>2. n \in Nat /\ \A i \in 1 .. n : b[i] \in LaFrame
    BY <1>3, <1>6
  <2> QED BY <2>1, <2>2
<1> HIDE DEF a, b, c, p
<1>8. /\ a \o b \in Seq(LaFrame) /\ Len(a \o b) = n + 2
      /\ (a \o b)[1] = a[1] /\ (a \o b)[2] = a[2]
      /\ \A i \in 1 .. n : (a \o b)[i + 2] = b[i]
  <2>1. /\ a \o b \in Seq(LaFrame) /\ Len(a \o b) = Len(a) + Len(b)
        /\ \A i \in 1 .. Len(a) + Len(b) : (a \o b)[i] = IF i <= Len(a) THEN a[i] ELSE b[i - Len(a)]
    <3>1. a \in Seq(LaFrame) /\ b \in Seq(LaFrame)
      BY <1>4, <1>7
    <3> QED BY <3>1, ConcatProperties
  <2> QED BY <1>3, <1>4, <1>7, <2>1
<1>9. /\ p \in Seq(LaFrame) /\ Len(p) = n + 3
      /\ p[1] = a[1] /\ p[2] = a[2] /\ p[n + 3] = c[1]
      /\ \A i \in 1 .. n : p[i + 2] = b[i]
  <2> DEFINE ab == a \o b
  <2>1. ab \in Seq(LaFrame) /\ Len(ab) = n + 2 /\ ab[1] = a[1] /\ ab[2] = a[2]
    BY <1>8
  <2> HIDE DEF ab
  <2>2. /\ ab \o c \in Seq(LaFrame) /\ Len(ab \o c) = Len(ab) + Len(c)
        /\ \A i \in 1 .. Len(ab) + Len(c) : (ab \o c)[i] = IF i <= Len(ab) THEN ab[i] ELSE c[i - Len(ab)]
    BY <1>5, <2>1, ConcatProperties
  <2>3. p = ab \o c
    BY <1>2 DEF ab
  <2>4. p \in Seq(LaFrame) /\ Len(p) = n + 3 /\ \A i \in 1 .. n + 2 : p[i] = ab[i]
    BY <1>3, <1>5, <2>1, <2>2, <2>3
  <2>5. p[n + 3] = c[1]
    BY <1>3, <1>5, <2>1, <2>2, <2>3
  <2>6. p[1] = a[1] /\ p[2] = a[2]
    <3>1. 1 \in 1 .. n + 2 /\ 2 \in 1 .. n + 2
      BY <1>3
    <3>2. p[1] = ab[1] /\ p[2] = ab[2]
      BY <2>4, <3>1
    <3> QED BY <2>1, <3>2
  <2>7. ASSUME NEW i \in 1 .. n PROVE p[i + 2] = b[i]
    <3>1. i + 2 \in 1 .. n + 2
      BY <1>3
    <3> QED BY <1>8, <2>4, <3>1 DEF ab
  <2> QED BY <2>4, <2>5, <2>6, <2>7
<1>10. \A i \in DOMAIN p : i = 1 \/ i = 2 \/ i = n + 3 \/ i - 2 \in 1 .. n
  BY <1>3, <1>9, LenProperties
<1>11. \A i \in DOMAIN p : i - 2 \in 1 .. n => p[i] = b[i - 2] /\ p[i].chunk = i - 3
  <2> SUFFICES ASSUME NEW i \in DOMAIN p, i - 2 \in 1 .. n
               PROVE  p[i] = b[i - 2] /\ p[i].chunk = i - 3
    OBVIOUS
  <2>1. i \in Int /\ (i - 2) + 2 = i
    BY <1>9, LenProperties
  <2> QED BY <1>6, <1>9, <2>1
<1>12. ASSUME NEW i \in DOMAIN p PROVE p[i].id = id /\ FrameOf(p[i], w)
  <2>1. CASE i = 1
    BY <1>4, <1>9, <2>1 DEF FrameOf
  <2>2. CASE i = 2
    BY <1>4, <1>9, <2>2 DEF FrameOf
  <2>3. CASE i = n + 3
    BY <1>5, <1>9, <2>3 DEF FrameOf
  <2>4. CASE i - 2 \in 1 .. n
    BY <1>6, <1>11, <2>4
  <2> QED BY <1>10, <2>1, <2>2, <2>3, <2>4
<1>13. Ordered(p)
  <2> SUFFICES ASSUME NEW i \in DOMAIN p, NEW j \in DOMAIN p, i < j
               PROVE  /\ p[j].type # "header"
                      /\ p[i].type = "sample" /\ p[j].type = "sample" => p[i].chunk < p[j].chunk
    BY DEF Ordered
  <2>1. i \in 1 .. n + 3 /\ j \in 1 .. n + 3
    BY <1>9, LenProperties
  <2>2. p[j].type # "header"
    <3>1. CASE j - 2 \in 1 .. n
      BY <1>6, <1>11, <3>1
    <3>2. CASE j = 2 \/ j = n + 3
      BY <1>4, <1>5, <1>9, <3>2
    <3> QED BY <1>10, <2>1, <3>1, <3>2
  <2>3. ASSUME p[i].type = "sample", p[j].type = "sample" PROVE p[i].chunk < p[j].chunk
    <3>1. i - 2 \in 1 .. n
      BY <1>4, <1>5, <1>9, <1>10, <2>3
    <3>2. j - 2 \in 1 .. n
      BY <1>4, <1>5, <1>9, <1>10, <2>3
    <3> QED BY <1>3, <1>11, <2>1, <3>1, <3>2
  <2> QED BY <2>2, <2>3
<1>14. ASSUME NEW i \in 1 .. Len(w) PROVE \E j \in DOMAIN p : Covers(p[j], i)
  <2> DEFINE m == Len(w)
  <2>1. m \in Nat /\ i \in 1 .. m /\ (m + CHUNK - 1) \div CHUNK = n
    BY <1>1, <1>3
  <2> HIDE DEF m
  <2>2. PICK k \in 0 .. ((m + CHUNK - 1) \div CHUNK) - 1 : k * CHUNK < i /\ i <= (k + 1) * CHUNK
    BY <2>1, ChunkCover
  <2>3. k + 1 \in 1 .. n /\ (k + 1) - 1 = k
    BY <1>3, <2>1, <2>2
  <2>4. Covers(b[k + 1], i)
    BY <1>6, <2>2, <2>3
  <2>5. k + 3 \in DOMAIN p /\ p[k + 3] = b[k + 1]
    <3>1. (k + 1) + 2 = k + 3 /\ k + 3 \in 1 .. n + 3
      BY <1>3, <2>3
    <3> QED BY <1>9, <2>3, <3>1, LenProperties
  <2> QED BY <2>4, <2>5
<1> QED BY <1>9, <1>12, <1>13, <1>14 DEF p, w

LEMMA EmptyMap == DOMAIN <<>> = {} /\ <<>> \in [DOMAIN <<>> -> Capture]
<1>1. <<>> \in Seq(Capture) /\ Len(<<>>) = 0
  OBVIOUS
<1>2. <<>> \in [1 .. 0 -> Capture] /\ DOMAIN <<>> = 1 .. 0
  BY <1>1, LenProperties
<1> QED BY <1>2

(* The frames behind the first one.                                        *)
LEMMA Behind ==
    ASSUME LaTypes, readout # <<>>
    PROVE  /\ Tail(readout) \in Seq(LaFrame)
           /\ readout[1] \in LaFrame /\ 1 \in DOMAIN readout /\ Head(readout) = readout[1]
           /\ \A i \in DOMAIN Tail(readout) :
                 i \in Nat /\ i > 0 /\ i + 1 \in DOMAIN readout /\ Tail(readout)[i] = readout[i + 1]
           /\ \A j \in DOMAIN readout :
                 j # 1 => \E i \in DOMAIN Tail(readout) : Tail(readout)[i] = readout[j]
<1>1. readout \in Seq(LaFrame)
  BY DEF LaTypes
<1> DEFINE r == readout
           t == Tail(readout)
<1>2. /\ t \in Seq(LaFrame) /\ Len(t) = Len(r) - 1 /\ \A i \in 1 .. Len(t) : t[i] = r[i + 1]
      /\ Len(r) \in Nat \ {0} /\ DOMAIN r = 1 .. Len(r) /\ DOMAIN t = 1 .. Len(t)
  BY <1>1, HeadTailProperties, LenProperties, EmptySeq
<1>3. r[1] \in LaFrame /\ 1 \in DOMAIN r
  BY <1>1, <1>2, ElementOfSeq
<1>4. Head(r) = r[1]
  BY <1>1, <1>2
<1> HIDE DEF r, t
<1>5. ASSUME NEW i \in DOMAIN t PROVE i \in Nat /\ i > 0 /\ i + 1 \in DOMAIN r /\ t[i] = r[i + 1]
  BY <1>2, <1>5
<1>6. ASSUME NEW j \in DOMAIN r, j # 1 PROVE \E i \in DOMAIN t : t[i] = r[j]
  <2>1. j - 1 \in DOMAIN t /\ (j - 1) + 1 = j
    BY <1>2, <1>6
  <2>2. t[j - 1] = r[j]
    BY <1>5, <2>1
  <2> QED BY <2>1, <2>2
<1> QED BY <1>2, <1>3, <1>4, <1>5, <1>6 DEF r, t

(* What holds of the frames behind the first one, whatever became of it.   *)
LEMMA BehindHolds ==
    ASSUME LaInv, readout # <<>>, readout' = Tail(readout), UNCHANGED window
    PROVE  /\ readout' \in Seq(LaFrame)
           /\ \A i \in DOMAIN readout' : /\ window' # <<>> /\ readout'[i].id = Len(window')
                                         /\ FrameOf(readout'[i], window'[Len(window')])
           /\ InOrder' /\ HeaderLeads'
           /\ \A i \in DOMAIN readout' : readout'[i].type # "header"
<1>1. LaTypes /\ Truth /\ Ordered(readout)
  BY DEF LaInv, InOrder
<1> DEFINE t == readout'
<1>2. /\ t \in Seq(LaFrame) /\ 1 \in DOMAIN readout
      /\ \A i \in DOMAIN t : i \in Nat /\ i > 0 /\ i + 1 \in DOMAIN readout /\ t[i] = readout[i + 1]
  BY <1>1, Behind
<1> HIDE DEF t
<1>3. \A i \in DOMAIN t : t[i].type # "header"
  <2> SUFFICES ASSUME NEW i \in DOMAIN t PROVE t[i].type # "header" OBVIOUS
  <2>1. 1 < i + 1 /\ i + 1 \in DOMAIN readout
    BY <1>2
  <2> QED BY <1>1, <1>2, <2>1 DEF Ordered
<1>4. Ordered(t)
  <2> SUFFICES ASSUME NEW i \in DOMAIN t, NEW j \in DOMAIN t, i < j
               PROVE  /\ t[j].type # "header"
                      /\ t[i].type = "sample" /\ t[j].type = "sample" => t[i].chunk < t[j].chunk
    BY DEF Ordered
  <2>1. i + 1 < j + 1 /\ i + 1 \in DOMAIN readout /\ j + 1 \in DOMAIN readout
    BY <1>2
  <2>2. /\ readout[j + 1].type # "header"
        /\ readout[i + 1].type = "sample" /\ readout[j + 1].type = "sample"
             => readout[i + 1].chunk < readout[j + 1].chunk
    BY <1>1, <2>1 DEF Ordered
  <2> QED BY <1>2, <2>2
<1>5. \A i \in DOMAIN t : /\ window # <<>> /\ t[i].id = Len(window)
                          /\ FrameOf(t[i], window[Len(window)])
  BY <1>1, <1>2 DEF Truth
<1> QED BY <1>2, <1>3, <1>4, <1>5 DEF t, InOrder, HeaderLeads

LEMMA LaInit == ASSUME InitAssembly PROVE LaInv
<1>1. /\ window = <<>> /\ readout = <<>> /\ again = FALSE /\ captures = <<>>
  BY DEF InitAssembly
<1>2. <<>> \in Seq(Windows) /\ <<>> \in Seq(LaFrame) /\ Len(<<>>) = 0 /\ DOMAIN <<>> = {}
  BY EmptyMap
<1>3. LaTypes
  BY <1>1, <1>2, EmptyMap DEF LaTypes
<1>4. Truth /\ InOrder /\ HeaderLeads /\ Untouched /\ HolesToCome
  BY <1>1, <1>2 DEF Truth, InOrder, Ordered, HeaderLeads, Untouched, HolesToCome
<1> QED BY <1>3, <1>4 DEF LaInv

LEMMA LaNewCapture ==
    ASSUME LaInv, NewCapture PROVE LaInv'
<1>1. LaTypes /\ Truth
  BY DEF LaInv
<1>2. PICK w \in Windows : /\ window' = Append(window, w)
                           /\ readout' = Program(Append(window, w), Len(window) + 1)
  BY DEF NewCapture
<1>3. missed' = {} /\ again' = FALSE /\ captures' = captures
  BY DEF NewCapture
<1> DEFINE n == Len(window)
<1>4. /\ window \in Seq(Windows) /\ n \in Nat
      /\ window' \in Seq(Windows) /\ Len(window') = n + 1
      /\ window' # <<>> /\ \A i \in 1 .. n : window'[i] = window[i]
  BY <1>1, <1>2, AppendProperties, LenProperties DEF LaTypes
<1> HIDE DEF n
<1>5. readout' = Program(window', n + 1) /\ n + 1 \in 1 .. Len(window')
  BY <1>2, <1>4 DEF n
<1>6. /\ readout' \in Seq(LaFrame)
      /\ \A i \in DOMAIN readout' : readout'[i].id = n + 1 /\ FrameOf(readout'[i], window'[n + 1])
      /\ Ordered(readout')
      /\ \A i \in 1 .. Len(window'[n + 1]) : \E j \in DOMAIN readout' : Covers(readout'[j], i)
  BY <1>4, <1>5, ProgramHolds
<1>7. DOMAIN captures \subseteq 1 .. n /\ n + 1 \notin DOMAIN captures
  BY <1>1, <1>4 DEF LaTypes, n
<1>8. LaTypes'
  <2>1. DOMAIN captures' \subseteq 1 .. Len(window')
    BY <1>3, <1>4, <1>7
  <2>2. captures' \in [DOMAIN captures' -> Capture]
    BY <1>1, <1>3 DEF LaTypes
  <2> QED BY <1>3, <1>4, <1>6, <2>1, <2>2 DEF LaTypes
<1>9. Truth'
  BY <1>1, <1>3, <1>4, <1>6, <1>7 DEF Truth, n
<1>10. InOrder' /\ HeaderLeads'
  BY <1>4, <1>6 DEF InOrder, HeaderLeads
<1>11. Untouched' /\ HolesToCome'
  BY <1>3, <1>4, <1>7 DEF Untouched, HolesToCome
<1> QED BY <1>8, <1>9, <1>10, <1>11 DEF LaInv

LEMMA LaReadAgain ==
    ASSUME LaInv, ReadAgain PROVE LaInv'
<1>1. LaTypes /\ Truth
  BY DEF LaInv
<1>2. /\ window # <<>> /\ readout' = Program(window, Len(window)) /\ again' = TRUE
      /\ window' = window /\ captures' = captures
  BY DEF ReadAgain
<1>3. window \in Seq(Windows) /\ Len(window) \in 1 .. Len(window)
  BY <1>1, <1>2, EmptySeq DEF LaTypes
<1>4. /\ readout' \in Seq(LaFrame)
      /\ \A i \in DOMAIN readout' :
            readout'[i].id = Len(window) /\ FrameOf(readout'[i], window[Len(window)])
      /\ Ordered(readout')
      /\ \A i \in 1 .. Len(window[Len(window)]) : \E j \in DOMAIN readout' : Covers(readout'[j], i)
  BY <1>2, <1>3, ProgramHolds
<1> QED BY <1>1, <1>2, <1>4
        DEF LaInv, LaTypes, Truth, InOrder, HeaderLeads, Untouched, HolesToCome

(* A frame that is lost or dropped takes nothing with it but its own chunk.*)
LEMMA LaDropped ==
    ASSUME LaInv, readout # <<>>, readout' = Tail(readout), UNCHANGED <<window, again, captures>>,
           missed' = IF Head(readout).type = "sample" THEN missed \cup {Head(readout).chunk} ELSE missed
    PROVE  LaInv'
<1>1. LaTypes /\ Truth /\ Untouched /\ HolesToCome
  BY DEF LaInv
<1> DEFINE t == readout'
<1>2. /\ Head(readout) = readout[1]
      /\ \A i \in DOMAIN t : i \in Nat /\ i + 1 \in DOMAIN readout /\ t[i] = readout[i + 1]
      /\ \A j \in DOMAIN readout : j # 1 => \E i \in DOMAIN t : t[i] = readout[j]
  BY <1>1, Behind
<1>3. /\ t \in Seq(LaFrame)
      /\ \A i \in DOMAIN t : /\ window' # <<>> /\ t[i].id = Len(window')
                             /\ FrameOf(t[i], window'[Len(window')])
      /\ InOrder' /\ HeaderLeads'
      /\ \A i \in DOMAIN t : t[i].type # "header"
  BY BehindHolds
<1>4. LaTypes' /\ Truth'
  BY <1>1, <1>3 DEF LaTypes, Truth
<1>5. Untouched'
  BY <1>1, <1>2, <1>3 DEF Untouched
<1>6. HolesToCome'
  <2> DEFINE c == captures[Len(window)]
             w == window[Len(window)]
  <2> SUFFICES ASSUME ~again, missed' = {}, Len(window) \in DOMAIN captures, c.count # NONE
               PROVE  /\ \A i \in 1 .. Len(w) : \/ c.samples[i] # NONE
                                                \/ \E j \in DOMAIN t : Covers(t[j], i)
                      /\ c.complete \/ Len(w) = 0 \/ \E i \in 1 .. Len(w) : c.samples[i] = NONE
    BY DEF HolesToCome
  <2>1. missed = {} /\ readout[1].type # "sample"
    BY <1>2
  <2>2. /\ \A i \in 1 .. Len(w) : \/ c.samples[i] # NONE
                                  \/ \E j \in DOMAIN readout : Covers(readout[j], i)
        /\ c.complete \/ Len(w) = 0 \/ \E i \in 1 .. Len(w) : c.samples[i] = NONE
    BY <1>1, <2>1 DEF HolesToCome
  <2>3. \A j \in DOMAIN readout, i \in 1 .. Len(w) : Covers(readout[j], i) => j # 1
    BY <2>1 DEF Covers
  <2> QED BY <1>2, <2>2, <2>3
<1> QED BY <1>3, <1>4, <1>5, <1>6 DEF LaInv

LEMMA LaDeliver ==
    ASSUME LaInv, DeliverFrame PROVE LaInv'
<1>1. LaTypes /\ Truth /\ InOrder /\ HeaderLeads /\ Untouched /\ HolesToCome
  BY DEF LaInv
<1> DEFINE t  == readout'
           f  == Head(readout)
           id == Len(window)
           w  == window[id]
           c  == laCapture(captures, id)
<1>2. /\ readout # <<>> /\ readout' = Tail(readout) /\ UNCHANGED <<window, missed, again>>
      /\ captures' = decodeLogicAnalyzerFrame(Model, f).captures
  BY DEF DeliverFrame, Show
<1>3. /\ f = readout[1] /\ f \in LaFrame /\ 1 \in DOMAIN readout
      /\ \A i \in DOMAIN t : i \in Nat /\ i > 0 /\ i + 1 \in DOMAIN readout /\ t[i] = readout[i + 1]
      /\ \A j \in DOMAIN readout : j # 1 => \E i \in DOMAIN t : t[i] = readout[j]
  BY <1>1, <1>2, Behind
<1>4. /\ t \in Seq(LaFrame)
      /\ \A i \in DOMAIN t : /\ window' # <<>> /\ t[i].id = Len(window')
                             /\ FrameOf(t[i], window'[Len(window')])
      /\ InOrder' /\ HeaderLeads'
      /\ \A i \in DOMAIN t : t[i].type # "header"
  BY <1>2, BehindHolds
<1>5. window # <<>> /\ f.id = id /\ FrameOf(f, w)
  BY <1>1, <1>3 DEF Truth
<1>6. id \in 1 .. Len(window) /\ id \in Nat /\ w \in Windows
  <2>1. window \in Seq(Windows)
    BY <1>1 DEF LaTypes
  <2>2. id \in Nat \ {0}
    BY <1>5, <2>1, EmptySeq
  <2> QED BY <2>1, <2>2, ElementOfSeq
<1>7. w \in Seq(Samples) /\ Len(w) \in Nat /\ \A i \in 1 .. Len(w) : w[i] # NONE
  BY <1>6, WindowSamples
<1>8. c \in Capture /\ CaptureOf(c, w)
  <2>1. CASE id \in DOMAIN captures
    BY <1>1, <2>1 DEF laCapture, LaTypes, Truth
  <2>2. CASE id \notin DOMAIN captures
    BY <1>7, <2>2, BlankHolds DEF laCapture
  <2> QED BY <2>1, <2>2
<1> HIDE DEF f, w, c, t
<1>9. PICK d \in Capture : DecodesTo(f, c, d)
  <2>1. c = laCapture(captures, f.id)
    BY <1>5 DEF c
  <2>2. c.chunks \subseteq 0 .. Len(w)
    BY <1>8 DEF CaptureOf
  <2> QED BY <1>3, <1>7, <1>8, <2>1, <2>2, FrameDecodes
<1>10. captures' = [i \in DOMAIN captures \cup {id} |-> IF i = id THEN d ELSE captures[i]]
  BY <1>2, <1>5, <1>9 DEF DecodesTo, PutAt
<1>11. CaptureOf(d, w)
  <2>1. CASE f.type = "header"
    <3>1. d = HeaderTo(c, w)
      BY <1>5, <1>9, <2>1 DEF DecodesTo, HeaderTo, FrameOf
    <3> QED BY <1>6, <1>8, <3>1, HeaderHolds
  <2>2. CASE f.type \in {"trigger", "status"}
    BY <1>8, <1>9, <2>2, MarkHolds DEF DecodesTo
  <2>3. CASE f.type = "sample"
    BY <1>3, <1>5, <1>6, <1>8, <1>9, <2>3, SampleHolds DEF DecodesTo
  <2> QED BY <1>3, <2>1, <2>2, <2>3 DEF LaFrame
<1>12. LaTypes'
  BY <1>1, <1>2, <1>4, <1>6, <1>10 DEF LaTypes, t
<1>13. Truth'
  <2>1. ASSUME NEW i \in DOMAIN captures' PROVE CaptureOf(captures'[i], window[i])
    <3>1. CASE i = id
      BY <1>10, <1>11, <3>1 DEF w
    <3>2. CASE i # id
      BY <1>1, <1>10, <3>2 DEF Truth
    <3> QED BY <3>1, <3>2
  <2> QED BY <1>2, <1>4, <2>1 DEF Truth, t
<1>14. id \in DOMAIN captures' /\ captures'[id] = d
  BY <1>10
(* The capture the frame is of, in a first readout.                        *)
<1>15. ~again /\ f.type = "sample" => f.chunk \notin c.chunks
  <2> SUFFICES ASSUME ~again, f.type = "sample" PROVE f.chunk \notin c.chunks OBVIOUS
  <2>1. CASE id \in DOMAIN captures
    BY <1>1, <1>3, <2>1 DEF Untouched, laCapture, c
  <2>2. CASE id \notin DOMAIN captures
    BY <2>2 DEF laCapture, BlankCapture, c
  <2> QED BY <2>1, <2>2
<1>16. Untouched'
  <2> SUFFICES ASSUME ~again, NEW i \in DOMAIN t, t[i].type = "sample"
               PROVE  t[i].chunk \notin d.chunks
    BY <1>2, <1>4, <1>14 DEF Untouched, t
  <2>1. i + 1 \in DOMAIN readout /\ 1 < i + 1 /\ t[i] = readout[i + 1]
    BY <1>3
  <2>2. t[i].chunk \notin c.chunks
    <3>1. CASE id \in DOMAIN captures
      BY <1>1, <2>1, <3>1 DEF Untouched, laCapture, c
    <3>2. CASE id \notin DOMAIN captures
      BY <3>2 DEF laCapture, BlankCapture, c
    <3> QED BY <3>1, <3>2
  <2>3. f.type = "sample" => t[i].chunk # f.chunk
    <3> SUFFICES ASSUME f.type = "sample" PROVE t[i].chunk # f.chunk OBVIOUS
    <3>1. f.chunk < t[i].chunk
      BY <1>1, <1>3, <2>1 DEF InOrder, Ordered
    <3>2. f.chunk \in Nat
      BY <1>3 DEF LaFrame
    <3>3. t[i].chunk \in Nat
      BY <1>4, LenProperties DEF LaFrame
    <3> QED BY <3>1, <3>2, <3>3
  <2>4. d.chunks = c.chunks \/ (f.type = "sample" /\ d.chunks = c.chunks \cup {f.chunk})
    <3>1. CASE f.type = "header"
      BY <1>8, <1>9, <3>1 DEF DecodesTo, Capture
    <3>2. CASE f.type \in {"trigger", "status"}
      BY <1>9, <3>2 DEF DecodesTo
    <3>3. CASE f.type = "sample"
      BY <1>9, <3>3 DEF DecodesTo, SampleTo
    <3> QED BY <1>3, <3>1, <3>2, <3>3 DEF LaFrame
  <2> QED BY <2>2, <2>3, <2>4
<1>17. HolesToCome'
  <2> SUFFICES ASSUME ~again, missed = {}, d.count # NONE
               PROVE  /\ \A i \in 1 .. Len(w) : \/ d.samples[i] # NONE
                                                \/ \E j \in DOMAIN t : Covers(t[j], i)
                      /\ d.complete \/ Len(w) = 0 \/ \E i \in 1 .. Len(w) : d.samples[i] = NONE
    BY <1>2, <1>14 DEF HolesToCome, t, w
  <2>1. ASSUME NEW i \in 1 .. Len(w), NEW j \in DOMAIN readout, Covers(readout[j], i), ~Covers(f, i)
        PROVE  \E k \in DOMAIN t : Covers(t[k], i)
    BY <1>3, <2>1
  <2>2. CASE f.type = "header"
    <3>1. \A i \in 1 .. Len(w) : ~Covers(f, i) /\ \E j \in DOMAIN readout : Covers(readout[j], i)
      BY <1>1, <1>3, <2>2 DEF HeaderLeads, Covers, w
    <3>2. d.samples = Holes(Len(w))
      <4> DEFINE h == Holes(f.count)
      <4>1. d = [c EXCEPT !.count = f.count, !.samples = h, !.complete = FALSE]
        BY <1>9, <2>2 DEF DecodesTo
      <4>2. f.count = Len(w)
        BY <1>5, <2>2 DEF FrameOf
      <4> HIDE DEF h
      <4>3. d.samples = h
        BY <1>8, <4>1 DEF Capture
      <4> QED BY <4>2, <4>3 DEF h
    <3>3. Len(w) # 0 => 1 \in 1 .. Len(w) /\ d.samples[1] = NONE
      BY <1>7, <3>2 DEF Holes
    <3> QED BY <2>1, <3>1, <3>3
  <2>3. ASSUME c.count # NONE
        PROVE  /\ \A i \in 1 .. Len(w) : \/ c.samples[i] # NONE
                                         \/ \E j \in DOMAIN readout : Covers(readout[j], i)
               /\ c.complete \/ Len(w) = 0 \/ \E i \in 1 .. Len(w) : c.samples[i] = NONE
    <3>1. id \in DOMAIN captures /\ c = captures[id]
      BY <2>3 DEF laCapture, BlankCapture, c
    <3> QED BY <1>1, <2>3, <3>1 DEF HolesToCome, w
  <2>4. CASE f.type \in {"trigger", "status"}
    <3>1. d.count = c.count /\ d.samples = c.samples /\ d.complete = c.complete
      BY <1>9, <2>4 DEF DecodesTo
    <3>2. \A i \in 1 .. Len(w) : ~Covers(f, i)
      BY <2>4 DEF Covers
    <3> QED BY <2>1, <2>3, <3>1, <3>2
  <2>5. CASE f.type = "sample"
    <3>1. /\ d.count = c.count /\ d.samples = WithSamples(c.samples, f.first, f.values)
          /\ d.complete = (c.complete \/ Complete(d))
      BY <1>9, <1>15, <2>5 DEF DecodesTo, SampleTo
    <3>2. d.count = Len(w) /\ Len(c.samples) = Len(w)
      BY <1>8, <1>11, <3>1 DEF CaptureOf
    <3>3. d.complete \/ Len(w) = 0 \/ \E i \in 1 .. Len(w) : d.samples[i] = NONE
      BY <3>1, <3>2 DEF Complete
    <3> DEFINE s == c.samples
               first == f.first
               vals == f.values
    <3>4. s \in Seq(Samples \cup {NONE}) /\ first \in Nat /\ vals \in Seq(Samples)
      BY <1>3, <1>8, <2>5 DEF LaFrame, Capture
    <3>5. /\ first + Len(vals) <= Len(w) /\ Len(vals) \in Nat
          /\ \A i \in 1 .. Len(vals) : vals[i] = w[first + i]
      BY <1>5, <2>5, <3>4, LenProperties DEF FrameOf
    <3> HIDE DEF s, first, vals
    <3>6. \A i \in 1 .. Len(w) :
             WithSamples(s, first, vals)[i]
               = IF i <= Len(s) /\ s[i] # NONE THEN s[i]
                 ELSE IF first < i /\ i <= first + Len(vals) THEN vals[i - first]
                 ELSE NONE
      <4>1. Len(s) = Len(w)
        BY <3>2 DEF s
      <4> DEFINE e == IF first + Len(vals) > Len(s) THEN first + Len(vals) ELSE Len(s)
      <4>2. e = Len(w)
        BY <1>7, <3>4, <3>5, <4>1
      <4>3. \A i \in 1 .. e :
               WithSamples(s, first, vals)[i]
                 = IF i <= Len(s) /\ s[i] # NONE THEN s[i]
                   ELSE IF first < i /\ i <= first + Len(vals) THEN vals[i - first]
                   ELSE NONE
        BY <3>4, WrittenFacts
      <4> HIDE DEF e
      <4> QED BY <4>2, <4>3
    <3>7. ASSUME NEW i \in 1 .. Len(w)
          PROVE  d.samples[i] # NONE \/ \E j \in DOMAIN t : Covers(t[j], i)
      <4>1. CASE c.samples[i] # NONE
        BY <1>7, <3>1, <3>2, <3>6, <4>1 DEF s, first, vals
      <4>2. CASE c.samples[i] = NONE /\ Covers(f, i)
        <5>1. first < i /\ i <= first + Len(vals)
          BY <4>2 DEF Covers, first, vals
        <5>2. vals[i - first] = w[i]
          <6>1. i - first \in 1 .. Len(vals) /\ first + (i - first) = i
            BY <1>7, <3>4, <3>5, <5>1
          <6> QED BY <3>5, <6>1
        <5>3. d.samples[i] = w[i]
          BY <3>1, <3>6, <4>2, <5>1, <5>2 DEF s, first, vals
        <5> QED BY <1>7, <5>3
      <4>3. CASE c.samples[i] = NONE /\ ~Covers(f, i)
        BY <2>1, <2>3, <3>1, <4>3
      <4> QED BY <4>1, <4>2, <4>3
    <3> QED BY <3>3, <3>7
  <2> QED BY <1>3, <2>2, <2>4, <2>5 DEF LaFrame
<1> QED BY <1>4, <1>12, <1>13, <1>16, <1>17 DEF LaInv

LEMMA LaClear == ASSUME LaInv, clearAllCaptures PROVE LaInv'
<1>1. LaTypes /\ Truth /\ InOrder /\ HeaderLeads /\ Untouched
  BY DEF LaInv
<1>2. captures' = <<>> /\ UNCHANGED <<window, readout, missed, again>>
  BY DEF clearAllCaptures
<1>3. DOMAIN captures' = {} /\ captures' \in [DOMAIN captures' -> Capture]
  BY <1>2, EmptyMap
<1>4. LaTypes'
  BY <1>1, <1>2, <1>3 DEF LaTypes
<1>5. Truth' /\ InOrder' /\ HeaderLeads'
  BY <1>1, <1>2, <1>3 DEF Truth, InOrder, HeaderLeads
<1>6. Untouched' /\ HolesToCome'
  BY <1>1, <1>2, <1>3 DEF Untouched, HolesToCome
<1> QED BY <1>4, <1>5, <1>6 DEF LaInv

(* What is known of every capture, and of the readout under way, is kept   *)
(* by every frame, lost, dropped, repeated or decoded.                     *)
THEOREM AssemblyInvariant ==
    SpecAssembly => []LaInv
<1>1. InitAssembly => LaInv
  BY LaInit
<1>2. LaInv /\ [NextAssembly]_assemblyVars => LaInv'
  <2> SUFFICES ASSUME LaInv, [NextAssembly]_assemblyVars PROVE LaInv' OBVIOUS
  <2>1. CASE NewCapture
    BY <2>1, LaNewCapture
  <2>2. CASE ReadAgain
    BY <2>2, LaReadAgain
  <2>3. CASE DeliverFrame
    BY <2>3, LaDeliver
  <2>4. CASE LoseFrame
    BY <2>4, LaDropped DEF LoseFrame
  <2>5. CASE Malformed
    BY <2>5, LaDropped DEF Malformed
  <2>6. CASE clearAllCaptures
    BY <2>6, LaClear
  <2>7. CASE UNCHANGED assemblyVars
    BY <2>7 DEF assemblyVars, LaInv, LaTypes, Truth, InOrder, HeaderLeads, Untouched, HolesToCome
  <2> QED BY <2>1, <2>2, <2>3, <2>4, <2>5, <2>6, <2>7 DEF NextAssembly
<1> QED BY <1>1, <1>2, PTL DEF SpecAssembly

(* Nothing is shown of a capture that the device did not capture, sample   *)
(* by sample, and a capture called complete is the whole window            *)
(* (decodeLogicAnalyzerSampleData of app.js).                              *)
THEOREM ShownIsCaptured ==
    SpecAssembly => []WindowExact
<1>1. LaInv => WindowExact
  <2> SUFFICES ASSUME LaInv, NEW id \in DOMAIN captures
               PROVE  LET c == captures[id]
                      IN /\ \A i \in DOMAIN c.samples :
                               c.samples[i] # NONE => i <= Len(window[id]) /\ c.samples[i] = window[id][i]
                         /\ c.complete => c.samples = window[id]
    BY DEF WindowExact
  <2> DEFINE c == captures[id]
             w == window[id]
  <2>1. c \in Capture /\ CaptureOf(c, w) /\ w \in Windows
    BY ElementOfSeq DEF LaInv, LaTypes, Truth
  <2> HIDE DEF c, w
  <2>2. c.samples \in Seq(Samples \cup {NONE}) /\ Len(w) \in Nat
    BY <2>1, WindowSamples DEF Capture
  <2>3. DOMAIN c.samples = 1 .. Len(c.samples) /\ Len(c.samples) \in Nat
    BY <2>2, LenProperties
  <2> QED BY <2>1, <2>2, <2>3 DEF CaptureOf, c, w
<1> QED BY <1>1, AssemblyInvariant, PTL

(* The first readout of a capture, if no chunk of it was lost and its      *)
(* header was not, leaves no hole and is called complete, unless it is     *)
(* empty (decodeLogicAnalyzerSampleData of app.js, 932-934).               *)
THEOREM NothingLostIsComplete ==
    SpecAssembly => []CompleteWhenAll
<1>1. LaInv => CompleteWhenAll
  <2> SUFFICES ASSUME LaInv, NEW id \in DOMAIN window, Whole(id), missed = {}, ~again,
                      captures[id].count # NONE
               PROVE  captures[id].complete <=> window[id] # <<>>
    BY DEF CompleteWhenAll
  <2> DEFINE c == captures[id]
             w == window[id]
  <2>1. readout = <<>> /\ id = Len(window) /\ id \in DOMAIN captures
    BY DEF Whole
  <2>2. DOMAIN readout = {}
    BY <2>1, EmptyMap
  <2>3. c \in Capture /\ CaptureOf(c, w) /\ w \in Windows
    BY <2>1, ElementOfSeq DEF LaInv, LaTypes, Truth
  <2>4. /\ \A i \in 1 .. Len(w) : c.samples[i] # NONE
        /\ c.complete \/ Len(w) = 0 \/ \E i \in 1 .. Len(w) : c.samples[i] = NONE
    BY <2>1, <2>2 DEF LaInv, HolesToCome
  <2> HIDE DEF c, w
  <2>5. Len(w) = 0 <=> w = <<>>
    BY <2>3, WindowSamples, EmptySeq
  <2>6. c.complete => Len(w) > 0
    BY <2>3 DEF CaptureOf
  <2>7. c.complete <=> w # <<>>
    BY <2>4, <2>5, <2>6
  <2> QED BY <2>7 DEF c, w
<1> QED BY <1>1, AssemblyInvariant, PTL

(* The gaps of the captures.  A sum of sizes is the size of the sets put   *)
(* side by side.                                                           *)
Pick(T) == CHOOSE x \in T : TRUE

SumsSizes(it, S, B) ==
    it = [T \in SUBSET S |-> IF T = {} THEN 0 ELSE Cardinality(B[Pick(T)]) + it[T \ {Pick(T)}]]

Spread(S, B) == UNION {{x} \X B[x] : x \in S}

LEMMA SumExists ==
    ASSUME NEW S, IsFiniteSet(S), NEW B, \A x \in S : IsFiniteSet(B[x])
    PROVE  \E it : SumsSizes(it, S, B)
<1> DEFINE g == [z \in S \X Nat |-> Cardinality(B[z[1]]) + z[2]]
           c == [T \in SUBSET S |-> Pick(T)]
<1>1. g \in [S \X Nat -> Nat] /\ 0 \in Nat
  <2> SUFFICES ASSUME NEW z \in S \X Nat PROVE Cardinality(B[z[1]]) + z[2] \in Nat
    OBVIOUS
  <2>1. z[1] \in S /\ z[2] \in Nat /\ Cardinality(B[z[1]]) \in Nat
    BY FS_CardinalityType
  <2> QED BY <2>1
<1>2. Chooses(c, S)
  BY DEF Chooses, Pick
<1> HIDE DEF g, c
<1>3. PICK it \in [SUBSET S -> Nat] : IsFold(it, S, 0, g, c)
  BY <1>1, <1>2, FoldExists
<1>4. ASSUME NEW T \in SUBSET S, T # {}
      PROVE  g[<<c[T], it[T \ {c[T]}]>>] = Cardinality(B[Pick(T)]) + it[T \ {Pick(T)}]
  <2>1. c[T] = Pick(T) /\ Pick(T) \in S /\ it[T \ {Pick(T)}] \in Nat
    BY <1>2, <1>3, <1>4 DEF Chooses, c
  <2> QED BY <2>1 DEF g
<1>5. it = [T \in SUBSET S |-> IF T = {} THEN 0 ELSE g[<<c[T], it[T \ {c[T]}]>>]]
  BY <1>3 DEF IsFold
<1>6. SumsSizes(it, S, B)
  BY <1>4, <1>5, Zenon DEF SumsSizes
<1> QED BY <1>6

(* A part more, beside the others.                                         *)
WithPart(U, x, V) == U \cup ({x} \X V)
NoPart(U, x, V)   == \A v \in V : <<x, v>> \notin U

LEMMA SpreadAdds ==
    ASSUME NEW U, IsFiniteSet(U), NEW x, NEW V, IsFiniteSet(V), NoPart(U, x, V)
    PROVE  /\ IsFiniteSet(WithPart(U, x, V))
           /\ Cardinality(WithPart(U, x, V)) = Cardinality(U) + Cardinality(V)
<1> USE DEF WithPart, NoPart
<1> DEFINE W == {x} \X V
<1>1. IsFiniteSet(W) /\ Cardinality(W) = Cardinality(V)
  <2>1. IsFiniteSet({x}) /\ Cardinality({x}) = 1 /\ Cardinality(V) \in Nat
    BY FS_Singleton, FS_CardinalityType
  <2> DEFINE s == {x}
  <2>2. IsFiniteSet(s) /\ Cardinality(s) = 1
    BY <2>1
  <2> HIDE DEF s
  <2>3. IsFiniteSet(s \X V) /\ Cardinality(s \X V) = Cardinality(s) * Cardinality(V)
    BY <2>2, FS_Product
  <2> QED BY <2>1, <2>2, <2>3 DEF s
<1>2. U \cap W = {}
  OBVIOUS
<1> HIDE DEF W
<1>3. IsFiniteSet(U \cup W) /\ Cardinality(U \cup W) = Cardinality(U) + Cardinality(W) - Cardinality(U \cap W)
  BY <1>1, FS_Union
<1>4. Cardinality(U \cap W) = 0 /\ Cardinality(U) \in Nat /\ Cardinality(W) \in Nat
  BY <1>1, <1>2, FS_EmptySet, FS_CardinalityType
<1> QED BY <1>1, <1>3, <1>4 DEF W

LEMMA SumIsSpread ==
    ASSUME NEW S, IsFiniteSet(S), NEW B, \A x \in S : IsFiniteSet(B[x]), NEW it, SumsSizes(it, S, B)
    PROVE  IsFiniteSet(Spread(S, B)) /\ it[S] = Cardinality(Spread(S, B))
<1> DEFINE n == Cardinality(S)
           Counts(T) == IsFiniteSet(Spread(T, B)) /\ it[T] = Cardinality(Spread(T, B))
           P == {k \in Nat : \A T \in SUBSET S : Cardinality(T) = k => Counts(T)}
<1>1. n \in Nat /\ \A T \in SUBSET S : IsFiniteSet(T) /\ Cardinality(T) \in Nat
  BY FS_Subset, FS_CardinalityType
<1>2. \A T \in SUBSET S : it[T] = IF T = {} THEN 0 ELSE Cardinality(B[Pick(T)]) + it[T \ {Pick(T)}]
  BY Zenon DEF SumsSizes
<1>3. 0 \in P
  <2> SUFFICES ASSUME NEW T \in SUBSET S, Cardinality(T) = 0 PROVE Counts(T)
    OBVIOUS
  <2>1. T = {}
    BY <1>1, FS_EmptySet
  <2>2. Spread(T, B) = {}
    BY <2>1 DEF Spread
  <2> QED BY <1>2, <2>1, <2>2, FS_EmptySet
<1>4. ASSUME NEW k \in 1 .. n, k - 1 \in P PROVE k \in P
  <2> SUFFICES ASSUME NEW T \in SUBSET S, Cardinality(T) = k PROVE Counts(T)
    BY <1>4
  <2> DEFINE x == Pick(T)
             R == T \ {x}
  <2>1. T # {} /\ IsFiniteSet(T)
    BY <1>1, FS_EmptySet
  <2>2. x \in T
    BY <2>1 DEF Pick
  <2>3. R \in SUBSET S /\ Cardinality(R) = k - 1
    BY <2>1, <2>2, FS_RemoveElement
  <2>4. Counts(R)
    BY <1>4, <2>3
  <2>5. Spread(T, B) = Spread(R, B) \cup ({x} \X B[x])
    BY <2>2 DEF Spread
  <2>6. \A v \in B[x] : <<x, v>> \notin Spread(R, B)
    BY DEF Spread
  <2>7. it[T] = Cardinality(B[x]) + it[R]
    BY <1>2, <2>1
  <2>8. IsFiniteSet(B[x]) /\ Cardinality(B[x]) \in Nat /\ Cardinality(Spread(R, B)) \in Nat
    BY <2>2, <2>4, FS_CardinalityType
  <2> HIDE DEF x, R
  <2>9. /\ IsFiniteSet(Spread(R, B) \cup ({x} \X B[x]))
        /\ Cardinality(Spread(R, B) \cup ({x} \X B[x])) = Cardinality(Spread(R, B)) + Cardinality(B[x])
    <3> DEFINE U == Spread(R, B)
               V == B[x]
    <3>1. IsFiniteSet(U) /\ IsFiniteSet(V) /\ NoPart(U, x, V)
      BY <2>4, <2>6, <2>8 DEF x, R, NoPart
    <3> HIDE DEF U, V
    <3>2. IsFiniteSet(WithPart(U, x, V)) /\ Cardinality(WithPart(U, x, V)) = Cardinality(U) + Cardinality(V)
      BY <3>1, SpreadAdds
    <3> QED BY <3>2 DEF U, V, WithPart
  <2> QED BY <2>4, <2>5, <2>7, <2>8, <2>9
<1>5. n \in P
  <2> HIDE DEF P
  <2>1. 0 .. n \subseteq P
    BY <1>1, <1>3, <1>4, UpTo
  <2> QED BY <1>1, <2>1
<1> QED BY <1>5

(* What the missing ranges of a capture tell, and what of it came late.    *)
Told(c) == UNION {c.missingRanges[i][1] .. c.missingRanges[i][2] : i \in DOMAIN c.missingRanges}
Late(c) == Told(c) \cap c.chunks

ToldIn(caps) == [id \in DOMAIN caps |-> Told(caps[id])]
LateIn(caps) == [id \in DOMAIN caps |-> Late(caps[id])]

(* The ranges tell what is missing before the last chunk, and the counters *)
(* are the sums of what the captures tell.                                 *)
TellsGaps(c) == Told(c) \ c.chunks = (IF c.chunks = {} THEN {} ELSE 0 .. Max(c.chunks)) \ c.chunks

GapsHold(caps, cnt) ==
    /\ \A id \in DOMAIN caps : TellsGaps(caps[id])
    /\ cnt.missingChunks = Cardinality(Spread(DOMAIN caps, ToldIn(caps)))
    /\ cnt.outOfOrderChunks = Cardinality(Spread(DOMAIN caps, LateIn(caps)))

CounterTypes == counters \in [missingChunks : Nat, outOfOrderChunks : Nat, malformed : Nat]

GapInv == CounterTypes /\ GapsHold(captures, counters)

(* Where the gaps end.                                                     *)
Next1(chunks) == IF chunks = {} THEN 0 ELSE Max(chunks) + 1

LEMMA NextOf ==
    ASSUME NEW n \in Nat, NEW chunks \in SUBSET (0 .. n)
    PROVE  /\ Next1(chunks) \in Nat /\ \A k \in chunks : k < Next1(chunks)
           /\ chunks # {} => Max(chunks) \in chunks /\ Max(chunks) \in Nat /\ Next1(chunks) = Max(chunks) + 1
<1>1. CASE chunks = {}
  BY <1>1 DEF Next1
<1>2. CASE chunks # {}
  <2>1. Max(chunks) \in chunks /\ \A x \in chunks : x <= Max(chunks)
    BY <1>2, MaxOf
  <2>2. \A x \in chunks : x \in Nat
    OBVIOUS
  <2> DEFINE m == Max(chunks)
  <2>3. m \in chunks /\ m \in Nat /\ \A x \in chunks : x \in Nat /\ x <= m
    BY <2>1, <2>2
  <2>4. Next1(chunks) = m + 1
    BY <1>2 DEF Next1
  <2> HIDE DEF m
  <2>5. \A x \in chunks : x < m + 1
    BY <2>3
  <2> QED BY <2>3, <2>4, <2>5 DEF m
<1> QED BY <1>1, <1>2

LEMMA GapIs ==
    ASSUME NEW n \in Nat, NEW chunks \in SUBSET (0 .. n), NEW c \in Capture, c.chunks = chunks, TellsGaps(c)
    PROVE  /\ Told(c) \subseteq 0 .. Next1(chunks) - 1
           /\ \A k \in 0 .. Next1(chunks) - 1 : k \in chunks \/ k \in Told(c)
           /\ IsFiniteSet(Told(c)) /\ IsFiniteSet(Late(c))
<1>1. Next1(chunks) \in Nat /\ \A k \in chunks : k \in Nat /\ k < Next1(chunks)
  <2>1. Next1(chunks) \in Nat /\ \A k \in chunks : k < Next1(chunks)
    BY NextOf
  <2>2. \A k \in chunks : k \in Nat
    OBVIOUS
  <2> QED BY <2>1, <2>2
<1>2. Told(c) \ chunks = 0 .. Next1(chunks) - 1 \ chunks
  <2>1. CASE chunks = {}
    BY <2>1 DEF TellsGaps, Next1
  <2>2. CASE chunks # {}
    <3>1. Next1(chunks) - 1 = Max(chunks)
      <4>1. Max(chunks) \in Nat /\ Next1(chunks) = Max(chunks) + 1
        BY <2>2, NextOf
      <4> QED BY <4>1
    <3> QED BY <2>2, <3>1 DEF TellsGaps
  <2> QED BY <2>1, <2>2
<1> DEFINE m == Next1(chunks)
           D == Told(c)
<1>6. m \in Nat /\ (\A k \in chunks : k \in Nat /\ k < m) /\ D \ chunks = (0 .. m - 1) \ chunks
  BY <1>1, <1>2
<1> HIDE DEF m, D
<1>7. \A k \in chunks : k \in 0 .. m - 1
  BY <1>6
<1>3. D \subseteq 0 .. m - 1
  BY <1>6, <1>7
<1>8. \A k \in 0 .. m - 1 : k \in chunks \/ k \in D
  BY <1>6
<1>4. IsFiniteSet(0 .. m - 1)
  BY <1>6, FS_Interval
<1>5. IsFiniteSet(D) /\ IsFiniteSet(D \cap c.chunks)
  BY <1>3, <1>4, FS_Subset
<1> QED BY <1>3, <1>5, <1>8 DEF m, D, Late

(* The sums of the property are the sizes of the parts side by side.       *)
LEMMA GapSums ==
    ASSUME IsFiniteSet(DOMAIN captures),
           \A id \in DOMAIN captures : IsFiniteSet(Told(captures[id])) /\ IsFiniteSet(Late(captures[id]))
    PROVE  /\ MapThenSumSet(LAMBDA id : Cardinality(Told(captures[id])), DOMAIN captures)
                = Cardinality(Spread(DOMAIN captures, ToldIn(captures)))
           /\ MapThenSumSet(LAMBDA id : Cardinality(Late(captures[id])), DOMAIN captures)
                = Cardinality(Spread(DOMAIN captures, LateIn(captures)))
<1> DEFINE S == DOMAIN captures
           Folds(it) == it = [T \in SUBSET S |-> IF T = {} THEN 0
                                ELSE Cardinality(Told(captures[Pick(T)])) + it[T \ {Pick(T)}]]
           FoldsLate(it) == it = [T \in SUBSET S |-> IF T = {} THEN 0
                                ELSE Cardinality(Late(captures[Pick(T)])) + it[T \ {Pick(T)}]]
           f == CHOOSE it : Folds(it)
           g == CHOOSE it : FoldsLate(it)
<1>1. MapThenSumSet(LAMBDA id : Cardinality(Told(captures[id])), S) = f[S]
  BY Zenon DEF MapThenSumSet, MapThenFoldSet, Pick
<1>2. MapThenSumSet(LAMBDA id : Cardinality(Late(captures[id])), S) = g[S]
  BY Zenon DEF MapThenSumSet, MapThenFoldSet, Pick
<1>3. \A T \in SUBSET S : T # {} => Pick(T) \in S
  BY DEF Pick
<1> DEFINE B == ToldIn(captures)
           C == LateIn(captures)
<1>4. \A x \in S : B[x] = Told(captures[x]) /\ IsFiniteSet(B[x]) /\ C[x] = Late(captures[x]) /\ IsFiniteSet(C[x])
  BY DEF ToldIn, LateIn
<1>5. IsFiniteSet(S)
  OBVIOUS
<1> HIDE DEF S, B, C
<1>6. ASSUME NEW it PROVE Folds(it) <=> SumsSizes(it, S, B)
  <2>1. \A T \in SUBSET S : T # {} => B[Pick(T)] = Told(captures[Pick(T)])
    BY <1>3, <1>4
  <2> QED BY <2>1, Zenon DEF SumsSizes
<1>7. ASSUME NEW it PROVE FoldsLate(it) <=> SumsSizes(it, S, C)
  <2>1. \A T \in SUBSET S : T # {} => C[Pick(T)] = Late(captures[Pick(T)])
    BY <1>3, <1>4
  <2> QED BY <2>1, Zenon DEF SumsSizes
<1> HIDE DEF Folds, FoldsLate
<1>8. SumsSizes(f, S, B)
  <2>1. \E it : SumsSizes(it, S, B)
    BY <1>4, <1>5, SumExists
  <2> QED BY <1>6, <2>1
<1>9. SumsSizes(g, S, C)
  <2>1. \E it : SumsSizes(it, S, C)
    BY <1>4, <1>5, SumExists
  <2> QED BY <1>7, <2>1
<1> HIDE DEF f, g
<1>10. f[S] = Cardinality(Spread(S, B)) /\ g[S] = Cardinality(Spread(S, C))
  BY <1>4, <1>5, <1>8, <1>9, SumIsSpread
<1> QED BY <1>1, <1>2, <1>10 DEF S, B, C

(* The size of a gap.                                                      *)
LEMMA RangeSize ==
    ASSUME NEW a \in Nat, NEW b \in Int
    PROVE  RangeSizes(<<>>) = 0 /\ RangeSizes(<<<<a, b>>>>) = b + 1 - a
<1> DEFINE size(s) == RangeSizes(s)
           Folds(it, s) == it = [T \in SUBSET (DOMAIN s) |-> IF T = {} THEN 0
                                  ELSE it[T \ {Top(T)}] + (s[Top(T)][2] + 1 - s[Top(T)][1])]
           f(s) == CHOOSE it : Folds(it, s)
<1>1. \A s : RangeSizes(s) = f(s)[DOMAIN s]
  BY Zenon DEF RangeSizes, FoldLeft, MapThenFoldSet, Max, Top
<1>2. RangeSizes(<<>>) = 0
  <2> DEFINE s == <<>>
             it == [T \in SUBSET (DOMAIN s) |-> 0]
  <2>1. DOMAIN s = {}
    OBVIOUS
  <2>2. Folds(it, s)
    BY <2>1
  <2>3. Folds(f(s), s)
    BY <2>2
  <2> HIDE DEF s, f
  <2>4. f(s)[{}] = 0
    BY <2>1, <2>3
  <2> QED BY <1>1, <2>1, <2>4 DEF s
<1>3. RangeSizes(<<<<a, b>>>>) = b + 1 - a
  <2> DEFINE r == <<a, b>>
             s == <<r>>
             it == [T \in SUBSET (DOMAIN s) |-> IF T = {} THEN 0 ELSE b + 1 - a]
  <2>1. r[1] = a /\ r[2] = b
    OBVIOUS
  <2> HIDE DEF r
  <2>2. DOMAIN s = {1} /\ s[1] = r
    OBVIOUS
  <2> HIDE DEF s
  <2>3. Top({1}) = 1
    BY DEF Top
  <2>4. \A T \in SUBSET {1} : T = {} \/ T = {1}
    OBVIOUS
  <2>5. Folds(it, s)
    <3>1. it[{}] = 0
      BY <2>2
    <3>2. 0 + (s[1][2] + 1 - s[1][1]) = b + 1 - a
      BY <2>1, <2>2
    <3>3. ASSUME NEW T \in SUBSET {1}, T # {}
          PROVE  b + 1 - a = it[T \ {Top(T)}] + (s[Top(T)][2] + 1 - s[Top(T)][1])
      <4>1. T = {1} /\ Top(T) = 1 /\ T \ {Top(T)} = {}
        <5>1. T = {1}
          BY <2>4, <3>3
        <5>2. Top(T) = 1
          BY <2>3, <5>1
        <5> QED BY <5>1, <5>2
      <4>2. it[T \ {Top(T)}] + (s[Top(T)][2] + 1 - s[Top(T)][1]) = it[{}] + (s[1][2] + 1 - s[1][1])
        BY <4>1
      <4> QED BY <3>1, <3>2, <4>2
    <3> QED BY <2>2, <3>3
  <2>6. Folds(f(s), s)
    BY <2>5
  <2> HIDE DEF f
  <2>7. f(s)[{}] = 0 /\ f(s)[{1}] = f(s)[{1} \ {Top({1})}] + (s[Top({1})][2] + 1 - s[Top({1})][1])
    BY <2>2, <2>6
  <2>8. {1} \ {1} = {}
    OBVIOUS
  <2>9. f(s)[{1}] = 0 + (b + 1 - a)
    BY <2>1, <2>2, <2>3, <2>7, <2>8
  <2> QED BY <1>1, <2>2, <2>9 DEF s, r
<1> QED BY <1>2, <1>3

(* What a frame makes of the gaps of its capture and of the counters.      *)
SameGaps(c, d, v) == d.missingRanges = c.missingRanges /\ d.chunks = c.chunks /\ v.counters = counters

NewChunk(c, d, k, v) ==
    /\ k \in Nat /\ k \notin c.chunks
    /\ d.missingRanges = c.missingRanges \o Gap(c.chunks, k)
    /\ d.chunks = c.chunks \cup {k}
    /\ v.counters = [counters EXCEPT !.missingChunks = @ + RangeSizes(Gap(c.chunks, k)),
                                     !.outOfOrderChunks = @ + (IF c.chunks # {} /\ k < Max(c.chunks) THEN 1 ELSE 0)]

LEMMA GapDecodes ==
    ASSUME NEW f \in LaFrame, NEW n \in Nat,
           NEW c \in Capture, c = laCapture(captures, f.id), c.chunks \subseteq 0 .. n
    PROVE  LET v == decodeLogicAnalyzerFrame(Model, f)
           IN \E d : /\ v.captures = PutAt(f.id, d)
                     /\ SameGaps(c, d, v) \/ NewChunk(c, d, f.chunk, v)
<1> DEFINE v == decodeLogicAnalyzerFrame(Model, f)
<1>0. \A id, d : Put(Model, id, d).counters = counters /\ Put(Model, id, d).captures = PutAt(id, d)
  BY DEF Put, Model, PutAt
<1>1. CASE f.type = "sample" /\ f.chunk \in c.chunks
  <2> DEFINE c1  == IF c.count = NONE THEN [c EXCEPT !.errors = @ \cup {"missing_header"}] ELSE c
             dup == [c1 EXCEPT !.errors = @ \cup {"overlap"}]
  <2>1. c1 \in Capture /\ c1.chunks = c.chunks /\ c1.missingRanges = c.missingRanges
    BY DEF Capture
  <2> HIDE DEF c1
  <2>2. v = Duplicate(Model, f, c1)
    BY <1>1, <2>1 DEF decodeLogicAnalyzerFrame, decodeSampleData, Model, c1
  <2>3. dup.chunks = c.chunks /\ dup.missingRanges = c.missingRanges
    BY <2>1 DEF Capture
  <2>4. v.captures = PutAt(f.id, dup) /\ v.counters = counters
    BY <2>2 DEF Duplicate, Model, PutAt
  <2> HIDE DEF v, dup
  <2>5. SameGaps(c, dup, v)
    BY <2>3, <2>4 DEF SameGaps
  <2> QED BY <2>4, <2>5 DEF v
<1>2. CASE f.type = "sample" /\ f.chunk \notin c.chunks
  <2> DEFINE c1   == IF c.count = NONE THEN [c EXCEPT !.errors = @ \cup {"missing_header"}] ELSE c
             gap  == Gap(c1.chunks, f.chunk)
             errs == IF Overlaps(c1.samples, f.first, f.values) THEN c1.errors \cup {"overlap"} ELSE c1.errors
             c2   == [c1 EXCEPT !.missingRanges = @ \o gap,
                                !.samples = WithSamples(@, f.first, f.values),
                                !.chunks = @ \cup {f.chunk},
                                !.errors = errs]
             new  == [c2 EXCEPT !.complete = @ \/ Complete(c2)]
             late == c1.chunks # {} /\ f.chunk < Max(c1.chunks)
             put  == Put(Model, f.id, new)
  <2>1. c1 \in Capture /\ c1.chunks = c.chunks /\ c1.missingRanges = c.missingRanges /\ f.chunk \in Nat
    BY <1>2 DEF Capture, LaFrame
  <2> HIDE DEF c1
  <2>2. v = [put EXCEPT !.counters = [counters EXCEPT !.missingChunks = @ + RangeSizes(gap),
                                               !.outOfOrderChunks = @ + (IF late THEN 1 ELSE 0)]]
    BY <1>2, <2>1 DEF decodeLogicAnalyzerFrame, decodeSampleData, Model, c1
  <2>3. new.missingRanges = c.missingRanges \o gap /\ new.chunks = c.chunks \cup {f.chunk}
    BY <2>1 DEF Capture
  <2> HIDE DEF gap, new, late
  <2>4. put.captures = PutAt(f.id, new) /\ put.counters = counters
    BY <1>0
  <2>5. /\ v.captures = PutAt(f.id, new)
        /\ v.counters = [counters EXCEPT !.missingChunks = @ + RangeSizes(gap),
                                         !.outOfOrderChunks = @ + (IF late THEN 1 ELSE 0)]
    <3> DEFINE x == [counters EXCEPT !.missingChunks = @ + RangeSizes(gap),
                                     !.outOfOrderChunks = @ + (IF late THEN 1 ELSE 0)]
    <3>1. v = [Put(Model, f.id, new) EXCEPT !.counters = x]
      BY <2>2
    <3> HIDE DEF v, x
    <3>2. v.captures = PutAt(f.id, new)
      BY <3>1, PutModel
    <3>3. v.counters = x
      BY <3>1 DEF Put, Model
    <3> QED BY <3>2, <3>3 DEF x
  <2> HIDE DEF v
  <2>6. NewChunk(c, new, f.chunk, v)
    BY <1>2, <2>1, <2>3, <2>5 DEF NewChunk, gap, late
  <2> QED BY <2>5, <2>6 DEF v
<1>3. CASE f.type = "header"
  <2> DEFINE h == Holes(f.count)
             d == [c EXCEPT !.count = f.count, !.samples = h, !.complete = FALSE]
  <2> HIDE DEF h
  <2>1. v = Put(Model, f.id, d)
    BY <1>3 DEF decodeLogicAnalyzerFrame, decodeHeader, Model, h
  <2>2. d.missingRanges = c.missingRanges /\ d.chunks = c.chunks
    BY DEF Capture
  <2> HIDE DEF d, v
  <2> QED BY <1>0, <2>1, <2>2 DEF SameGaps, v
<1>4. CASE f.type = "trigger"
  <2> DEFINE d == [c EXCEPT !.trigger = TRUE]
  <2>1. v = Put(Model, f.id, d)
    BY <1>4 DEF decodeLogicAnalyzerFrame, decodeTrigger, Model
  <2>2. d.missingRanges = c.missingRanges /\ d.chunks = c.chunks
    BY DEF Capture
  <2> HIDE DEF d, v
  <2> QED BY <1>0, <2>1, <2>2 DEF SameGaps, v
<1>5. CASE f.type = "status"
  <2> DEFINE d == [c EXCEPT !.status = TRUE]
  <2>1. v = Put(Model, f.id, d)
    BY <1>5 DEF decodeLogicAnalyzerFrame, decodeStatus, Model
  <2>2. d.missingRanges = c.missingRanges /\ d.chunks = c.chunks
    BY DEF Capture
  <2> HIDE DEF d, v
  <2> QED BY <1>0, <2>1, <2>2 DEF SameGaps, v
<1> QED BY <1>1, <1>2, <1>3, <1>4, <1>5 DEF LaFrame

(* The parts C are the parts B but for the part of id, which has G more.   *)
GrowsBy(S, B, id, C, G) ==
    /\ \A x \in S \ {id} : C[x] = B[x]
    /\ C[id] = (IF id \in S THEN B[id] ELSE {}) \cup G
    /\ id \in S => B[id] \cap G = {}

(* The parts side by side after a part has grown.                          *)
LEMMA SpreadGrows ==
    ASSUME NEW S, NEW B, NEW id, NEW C, NEW G, GrowsBy(S, B, id, C, G)
    PROVE  Spread(S \cup {id}, C) = Spread(S, B) \cup ({id} \X G)
<1>0. /\ \A x \in S \ {id} : C[x] = B[x]
      /\ C[id] = (IF id \in S THEN B[id] ELSE {}) \cup G
  BY DEF GrowsBy
<1>1. ASSUME NEW z \in Spread(S \cup {id}, C) PROVE z \in Spread(S, B) \cup ({id} \X G)
  <2>1. PICK x \in S \cup {id} : z \in {x} \X C[x]
    BY DEF Spread
  <2>2. CASE x = id
    BY <1>0, <2>1, <2>2 DEF Spread
  <2>3. CASE x # id
    BY <1>0, <2>1, <2>3 DEF Spread
  <2> QED BY <2>2, <2>3
<1>2. ASSUME NEW z \in Spread(S, B) PROVE z \in Spread(S \cup {id}, C)
  <2>1. PICK x \in S : z \in {x} \X B[x]
    BY DEF Spread
  <2>2. B[x] \subseteq C[x]
    BY <1>0
  <2> QED BY <1>0, <2>1, <2>2 DEF Spread
<1>3. ASSUME NEW z \in {id} \X G PROVE z \in Spread(S \cup {id}, C)
  <2>1. z \in {id} \X C[id]
    BY <1>0
  <2> QED BY <2>1 DEF Spread
<1> QED BY <1>1, <1>2, <1>3

(* The chunks told by a gap more.                                          *)
LEMMA ToldGrows ==
    ASSUME NEW n \in Nat, NEW c \in Capture, c.chunks \subseteq 0 .. n, NEW k \in Nat, NEW d,
           d.missingRanges = c.missingRanges \o Gap(c.chunks, k)
    PROVE  Told(d) = Told(c) \cup (Next1(c.chunks) .. k - 1)
<1> DEFINE s == c.missingRanges
           m == Next1(c.chunks)
<1>1. s \in Seq(Nat \X Nat) /\ m \in Nat
  BY NextOf DEF Capture
<1>2. Gap(c.chunks, k) = IF k > m THEN <<<<m, k - 1>>>> ELSE <<>>
  BY DEF Gap, Next1
<1>3. Told(c) = UNION {s[i][1] .. s[i][2] : i \in DOMAIN s}
  BY DEF Told
<1> DEFINE t == d.missingRanges
<1>4. Told(d) = UNION {t[i][1] .. t[i][2] : i \in DOMAIN t}
  BY DEF Told
<1> HIDE DEF s, m
<1>5. CASE k > m
  <2> DEFINE r == <<m, k - 1>>
             g == <<r>>
  <2>1. r \in Nat \X Nat /\ r[1] = m /\ r[2] = k - 1
    BY <1>1, <1>5
  <2> HIDE DEF r
  <2>2. g \in Seq(Nat \X Nat) /\ Len(g) = 1 /\ g[1] = r
    BY <2>1
  <2>3. t = s \o g
    BY <1>2, <1>5 DEF s, r
  <2> HIDE DEF g, t, s
  <2>4. /\ Len(t) = Len(s) + 1 /\ t \in Seq(Nat \X Nat) /\ Len(s) \in Nat
        /\ \A i \in 1 .. Len(s) + 1 : t[i] = IF i <= Len(s) THEN s[i] ELSE g[i - Len(s)]
    <3> DEFINE E == Nat \X Nat
    <3>1. s \in Seq(E) /\ g \in Seq(E)
      BY <1>1, <2>2
    <3> HIDE DEF E
    <3>2. /\ s \o g \in Seq(E) /\ Len(s \o g) = Len(s) + Len(g)
          /\ \A i \in 1 .. Len(s) + Len(g) : (s \o g)[i] = IF i <= Len(s) THEN s[i] ELSE g[i - Len(s)]
      BY <3>1, ConcatProperties
    <3>3. Len(s) \in Nat
      BY <3>1, LenProperties
    <3> QED BY <2>2, <2>3, <3>2, <3>3 DEF E
  <2>5. DOMAIN s = 1 .. Len(s) /\ DOMAIN t = 1 .. Len(s) + 1
    <3> DEFINE E == Nat \X Nat
    <3>1. s \in Seq(E) /\ t \in Seq(E)
      BY <1>1, <2>4
    <3> HIDE DEF E
    <3>2. DOMAIN s = 1 .. Len(s) /\ DOMAIN t = 1 .. Len(t)
      BY <3>1, LenProperties
    <3> QED BY <2>4, <3>2
  <2>6. \A i \in DOMAIN s : i \in DOMAIN t /\ t[i] = s[i]
    BY <2>4, <2>5
  <2>7. Len(s) + 1 \in DOMAIN t /\ t[Len(s) + 1] = r /\ \A i \in DOMAIN t : i \in DOMAIN s \/ i = Len(s) + 1
    <3> DEFINE l == Len(s)
    <3>1. l \in Nat /\ DOMAIN s = 1 .. l /\ DOMAIN t = 1 .. l + 1 /\ t[l + 1] = g[(l + 1) - l]
      <4>1. l + 1 \in 1 .. l + 1 /\ ~(l + 1 <= l)
        BY <2>4
      <4> QED BY <2>4, <2>5, <4>1
    <3> HIDE DEF l
    <3>2. (l + 1) - l = 1 /\ l + 1 \in 1 .. l + 1 /\ \A i \in 1 .. l + 1 : i \in 1 .. l \/ i = l + 1
      BY <3>1
    <3> QED BY <2>2, <3>1, <3>2 DEF l
  <2> QED BY <1>3, <1>4, <2>1, <2>6, <2>7 DEF m
<1>6. CASE ~(k > m)
  <2>1. t = s \o <<>>
    BY <1>2, <1>6 DEF s
  <2>2. t = s
    BY <1>1, <2>1, ConcatEmptySeq
  <2>3. m .. k - 1 = {}
    BY <1>1, <1>6
  <2> QED BY <1>3, <1>4, <2>2, <2>3 DEF m
<1> QED BY <1>5, <1>6

(* A chunk more moves the end of the gaps, or leaves it.                   *)
LEMMA NextGrows ==
    ASSUME NEW n \in Nat, NEW chunks \in SUBSET (0 .. n), NEW k \in Nat
    PROVE  /\ Next1(chunks \cup {k}) = IF k < Next1(chunks) THEN Next1(chunks) ELSE k + 1
           /\ chunks \cup {k} # {} /\ Next1(chunks) \in Nat
           /\ Next1(chunks \cup {k}) = Max(chunks \cup {k}) + 1
           /\ Max(chunks \cup {k}) \in Nat
<1> DEFINE D == chunks \cup {k}
           top == IF n < k THEN k ELSE n
<1>1. Next1(chunks) \in Nat /\ \A j \in chunks : j < Next1(chunks)
  BY NextOf
<1>2. top \in Nat /\ D \in SUBSET (0 .. top) /\ D # {} /\ k \in D /\ chunks \subseteq D
  OBVIOUS
<1>3. \A x \in chunks : x \in Nat
  OBVIOUS
<1> HIDE DEF D, top
<1>4. Max(D) \in D /\ Max(D) \in Nat /\ Next1(D) = Max(D) + 1 /\ \A j \in D : j < Next1(D)
  BY <1>2, NextOf
<1>5. chunks # {} => Max(chunks) \in chunks /\ Next1(chunks) = Max(chunks) + 1
  BY NextOf
<1>6. chunks = {} => Next1(chunks) = 0
  BY DEF Next1
<1> DEFINE m == Max(D)
           a == Next1(chunks)
           b == Next1(D)
<1>7. m \in Nat /\ b = m + 1 /\ k < b /\ (m = k \/ m \in chunks) /\ a \in Nat
  BY <1>1, <1>2, <1>4 DEF D
<1>8. m \in chunks => m < a
  BY <1>1
<1>9. a # 0 => a <= b
  <2>1. a # 0 => Max(chunks) \in chunks /\ Max(chunks) \in Nat /\ a = Max(chunks) + 1 /\ Max(chunks) < b
    BY <1>2, <1>3, <1>4, <1>5, <1>6
  <2> HIDE DEF a, b
  <2> QED BY <1>7, <2>1
<1> HIDE DEF m, a, b
<1>10. b = IF k < a THEN a ELSE k + 1
  BY <1>7, <1>8, <1>9
<1> QED BY <1>2, <1>4, <1>7, <1>10 DEF D, m, a, b

LEMMA TellsNext ==
    ASSUME NEW n \in Nat, NEW c, c.chunks \subseteq 0 .. n
    PROVE  TellsGaps(c) <=> Told(c) \ c.chunks = (0 .. Next1(c.chunks) - 1) \ c.chunks
<1> DEFINE ch == c.chunks
<1>1. CASE ch = {}
  <2>1. 0 .. Next1(ch) - 1 = {}
    BY <1>1 DEF Next1
  <2> QED BY <1>1, <2>1 DEF TellsGaps
<1>2. CASE ch # {}
  <2>1. Max(ch) \in Nat /\ Next1(ch) = Max(ch) + 1
    BY <1>2, NextOf
  <2>2. Next1(ch) - 1 = Max(ch)
    BY <2>1
  <2> QED BY <1>2, <2>2 DEF TellsGaps
<1> QED BY <1>1, <1>2

(* A chunk more, and the gap before it.                                    *)
LEMMA GapKept ==
    ASSUME NEW n \in Nat, NEW c \in Capture, c.chunks \subseteq 0 .. n, TellsGaps(c),
           NEW k \in Nat, k \notin c.chunks, NEW d,
           d.missingRanges = c.missingRanges \o Gap(c.chunks, k), d.chunks = c.chunks \cup {k}
    PROVE  LET m    == Next1(c.chunks)
               late == c.chunks # {} /\ k < Max(c.chunks)
           IN /\ TellsGaps(d)
              /\ Told(d) = Told(c) \cup (m .. k - 1) /\ Told(c) \cap (m .. k - 1) = {}
              /\ Late(d) = Late(c) \cup (IF late THEN {k} ELSE {}) /\ k \notin Late(c)
              /\ RangeSizes(Gap(c.chunks, k)) = Cardinality(m .. k - 1) /\ IsFiniteSet(m .. k - 1)
<1> DEFINE ch   == c.chunks
           m    == Next1(ch)
           late == ch # {} /\ k < Max(ch)
           top  == IF n < k THEN k ELSE n
           T    == Told(c)
           U    == Told(d)
           b    == Next1(ch \cup {k})
<1>1. m \in Nat /\ (\A j \in ch : j \in Nat /\ j < m)
  <2>1. m \in Nat /\ \A j \in ch : j < m
    BY NextOf
  <2>2. \A j \in ch : j \in Nat
    OBVIOUS
  <2> QED BY <2>1, <2>2
<1>2. T \subseteq 0 .. m - 1 /\ \A j \in 0 .. m - 1 : j \in ch \/ j \in T
  BY GapIs
<1>3. U = T \cup (m .. k - 1)
  BY ToldGrows
<1>4. late <=> k < m
  <2>1. CASE ch = {}
    BY <2>1 DEF Next1
  <2>2. CASE ch # {}
    <3>1. Max(ch) \in ch /\ Max(ch) \in Nat /\ m = Max(ch) + 1
      BY <2>2, NextOf
    <3> DEFINE x == Max(ch)
    <3>2. x \in Nat /\ k # x /\ m = x + 1
      BY <3>1
    <3> HIDE DEF x, m
    <3>3. k < x <=> k < m
      BY <3>2
    <3> QED BY <2>2, <3>3 DEF x
  <2> QED BY <2>1, <2>2
<1>5. b = IF k < m THEN m ELSE k + 1
  BY NextGrows
<1>6. d.chunks \subseteq 0 .. top /\ top \in Nat
  OBVIOUS
<1>7. RangeSizes(Gap(ch, k)) = Cardinality(m .. k - 1) /\ IsFiniteSet(m .. k - 1)
  <2>1. Gap(ch, k) = IF k > m THEN <<<<m, k - 1>>>> ELSE <<>>
    BY DEF Gap, Next1
  <2> HIDE DEF m
  <2>2. k - 1 \in Int /\ m \in Int /\ m \in Nat
    BY <1>1
  <2> DEFINE l == k - 1
  <2>3. RangeSizes(Gap(ch, k)) = IF k > m THEN l + 1 - m ELSE 0
    <3>1. l \in Int
      BY <2>2
    <3> HIDE DEF l
    <3>2. RangeSizes(<<>>) = 0 /\ RangeSizes(<<<<m, l>>>>) = l + 1 - m
      BY <1>1, <3>1, RangeSize
    <3> QED BY <2>1, <3>2 DEF l
  <2>4. IsFiniteSet(m .. l) /\ Cardinality(m .. l) = IF m > l THEN 0 ELSE l - m + 1
    BY <2>2, FS_Interval
  <2> QED BY <2>2, <2>3, <2>4
<1> HIDE DEF ch, m, late, T, U, b
<1>8. T \cap (m .. k - 1) = {}
  BY <1>1, <1>2
<1>9. U \cap (ch \cup {k}) = (T \cap ch) \cup (IF late THEN {k} ELSE {}) /\ k \notin T \cap ch
  <2>1. k \notin ch
    BY DEF ch
  <2>2. k \in T <=> late
    BY <1>1, <1>2, <1>4, <2>1
  <2>3. (m .. k - 1) \cap (ch \cup {k}) = {}
    BY <1>1
  <2> QED BY <1>3, <2>1, <2>2, <2>3
<1>10. TellsGaps(d)
  <2>1. U \ (ch \cup {k}) = (0 .. b - 1) \ (ch \cup {k})
    <3>1. CASE k < m
      <4>1. m .. k - 1 = {} /\ b = m
        BY <1>1, <1>5, <3>1
      <4> QED BY <1>2, <1>3, <4>1
    <3>2. CASE ~(k < m)
      <4>1. b - 1 = k
        BY <1>5, <3>2
      <4>2. \A j \in 0 .. k : j = k \/ j \in 0 .. m - 1 \/ j \in m .. k - 1
        BY <1>1
      <4>3. \A j \in 0 .. m - 1 : j \in 0 .. k
        BY <1>1, <3>2
      <4>4. \A j \in m .. k - 1 : j \in 0 .. k
        BY <1>1
      <4> QED BY <1>2, <1>3, <4>1, <4>2, <4>3, <4>4
    <3> QED BY <3>1, <3>2
  <2>2. Told(d) \ d.chunks = (0 .. Next1(d.chunks) - 1) \ d.chunks
    BY <2>1 DEF U, b, ch
  <2> QED BY <1>6, <2>2, TellsNext
<1> QED BY <1>3, <1>7, <1>8, <1>9, <1>10 DEF ch, m, late, T, U, Late

(* The sums after a capture has told more.                                 *)
LEMMA SumGrows ==
    ASSUME NEW S, IsFiniteSet(S), NEW B, \A x \in S : IsFiniteSet(B[x]), NEW id, NEW C, NEW G,
           IsFiniteSet(G), GrowsBy(S, B, id, C, G)
    PROVE  Cardinality(Spread(S \cup {id}, C)) = Cardinality(Spread(S, B)) + Cardinality(G)
<1>1. IsFiniteSet(Spread(S, B))
  <2>1. PICK it : SumsSizes(it, S, B)
    BY SumExists
  <2> QED BY <2>1, SumIsSpread
<1>2. Spread(S \cup {id}, C) = Spread(S, B) \cup ({id} \X G)
  BY SpreadGrows
<1>3. \A v \in G : <<id, v>> \notin Spread(S, B)
  <2> SUFFICES ASSUME NEW v \in G, <<id, v>> \in Spread(S, B) PROVE FALSE OBVIOUS
  <2>1. PICK x \in S : <<id, v>> \in {x} \X B[x]
    BY DEF Spread
  <2>2. x = id /\ v \in B[id]
    BY <2>1
  <2> QED BY <2>1, <2>2 DEF GrowsBy
<1> DEFINE U == Spread(S, B)
<1>4. IsFiniteSet(U) /\ NoPart(U, id, G)
  BY <1>1, <1>3 DEF NoPart
<1> HIDE DEF U
<1>5. Cardinality(WithPart(U, id, G)) = Cardinality(U) + Cardinality(G)
  BY <1>4, SpreadAdds
<1> QED BY <1>2, <1>5 DEF U, WithPart

(* The frame in front and the capture it is of.                            *)
LEMMA FrontFrame ==
    ASSUME LaInv, readout # <<>>
    PROVE  LET f == Head(readout)
               c == laCapture(captures, f.id)
               w == window[f.id]
           IN /\ f \in LaFrame /\ c \in Capture
              /\ Len(w) \in Nat /\ c.chunks \subseteq 0 .. Len(w)
<1> DEFINE f == Head(readout)
           c == laCapture(captures, f.id)
           w == window[f.id]
<1>1. LaTypes /\ Truth
  BY DEF LaInv
<1>2. f = readout[1] /\ f \in LaFrame /\ 1 \in DOMAIN readout
  BY <1>1, Behind
<1>3. window # <<>> /\ f.id = Len(window)
  BY <1>1, <1>2 DEF Truth
<1>4. w \in Windows
  <2>1. window \in Seq(Windows)
    BY <1>1 DEF LaTypes
  <2>2. Len(window) \in Nat \ {0}
    BY <1>3, <2>1, EmptySeq
  <2> QED BY <1>3, <2>1, <2>2, ElementOfSeq
<1>5. Len(w) \in Nat
  BY <1>4, WindowSamples
<1> HIDE DEF f, w
<1>6. c \in Capture /\ CaptureOf(c, w)
  <2>1. CASE f.id \in DOMAIN captures
    BY <1>1, <2>1 DEF laCapture, LaTypes, Truth, w
  <2>2. CASE f.id \notin DOMAIN captures
    BY <1>4, <2>2, BlankHolds, WindowSamples DEF laCapture
  <2> QED BY <2>1, <2>2
<1> QED BY <1>2, <1>5, <1>6 DEF CaptureOf, f, w

LEMMA FiniteCaptures ==
    ASSUME LaInv
    PROVE  /\ IsFiniteSet(DOMAIN captures)
           /\ \A id \in DOMAIN captures :
                 /\ captures[id] \in Capture /\ Len(window[id]) \in Nat
                 /\ captures[id].chunks \subseteq 0 .. Len(window[id])
<1>1. LaTypes /\ Truth
  BY DEF LaInv
<1>2. Len(window) \in Nat /\ \A id \in 1 .. Len(window) : window[id] \in Windows
  <2>1. window \in Seq(Windows)
    BY <1>1 DEF LaTypes
  <2> QED BY <2>1, LenProperties, ElementOfSeq
<1>3. IsFiniteSet(DOMAIN captures)
  <2>1. IsFiniteSet(1 .. Len(window))
    BY <1>2, FS_Interval
  <2>2. DOMAIN captures \subseteq 1 .. Len(window)
    BY <1>1 DEF LaTypes
  <2> QED BY <2>1, <2>2, FS_Subset
<1>4. ASSUME NEW id \in DOMAIN captures
      PROVE  /\ captures[id] \in Capture /\ Len(window[id]) \in Nat
             /\ captures[id].chunks \subseteq 0 .. Len(window[id])
  <2>1. captures[id] \in Capture /\ CaptureOf(captures[id], window[id]) /\ id \in 1 .. Len(window)
    BY <1>1, <1>4 DEF LaTypes, Truth
  <2>2. Len(window[id]) \in Nat
    BY <1>2, <2>1, WindowSamples
  <2> QED BY <2>1, <2>2 DEF CaptureOf
<1> QED BY <1>3, <1>4

LEMMA GapFinite ==
    ASSUME LaInv, GapInv
    PROVE  \A id \in DOMAIN captures : IsFiniteSet(Told(captures[id])) /\ IsFiniteSet(Late(captures[id]))
<1> SUFFICES ASSUME NEW id \in DOMAIN captures
             PROVE  IsFiniteSet(Told(captures[id])) /\ IsFiniteSet(Late(captures[id]))
  OBVIOUS
<1> DEFINE c == captures[id]
           n == Len(window[id])
<1>1. c \in Capture /\ n \in Nat /\ c.chunks \subseteq 0 .. n
  BY FiniteCaptures
<1>2. TellsGaps(c)
  BY DEF GapInv, GapsHold
<1> HIDE DEF c, n
<1>3. IsFiniteSet(Told(c)) /\ IsFiniteSet(Late(c))
  BY <1>1, <1>2, GapIs
<1> QED BY <1>3 DEF c

(* The sums of the counters, after a frame of capture id has told G more.  *)
LEMMA GapsGrow ==
    ASSUME LaInv, GapInv, NEW id, NEW d, NEW caps, caps = PutAt(id, d), NEW G, NEW H,
           IsFiniteSet(G), IsFiniteSet(H),
           Told(d) = Told(laCapture(captures, id)) \cup G, Told(laCapture(captures, id)) \cap G = {},
           Late(d) = Late(laCapture(captures, id)) \cup H, Late(laCapture(captures, id)) \cap H = {}
    PROVE  /\ Cardinality(Spread(DOMAIN caps, ToldIn(caps))) = counters.missingChunks + Cardinality(G)
           /\ Cardinality(Spread(DOMAIN caps, LateIn(caps))) = counters.outOfOrderChunks + Cardinality(H)
<1> DEFINE S == DOMAIN captures
           B == ToldIn(captures)
           C == ToldIn(caps)
           X == LateIn(captures)
           Y == LateIn(caps)
<1>1. IsFiniteSet(S)
  BY FiniteCaptures
<1>2. \A x \in S : B[x] = Told(captures[x]) /\ X[x] = Late(captures[x])
  BY DEF ToldIn, LateIn
<1>3. \A x \in S : IsFiniteSet(B[x]) /\ IsFiniteSet(X[x])
  BY <1>2, GapFinite
<1>4. DOMAIN caps = S \cup {id} /\ caps[id] = d /\ \A x \in S \ {id} : caps[x] = captures[x]
  BY DEF PutAt
<1>5. \A x \in DOMAIN caps : C[x] = Told(caps[x]) /\ Y[x] = Late(caps[x])
  BY DEF ToldIn, LateIn
<1>6. \A x \in S \ {id} : C[x] = B[x] /\ Y[x] = X[x]
  BY <1>2, <1>4, <1>5
<1>7. id \in S => B[id] = Told(laCapture(captures, id)) /\ X[id] = Late(laCapture(captures, id))
  BY <1>2 DEF laCapture
<1>8. id \notin S => Told(laCapture(captures, id)) = {} /\ Late(laCapture(captures, id)) = {}
  <2> DEFINE none == <<>>
  <2>1. DOMAIN none = {}
    OBVIOUS
  <2>2. BlankCapture.missingRanges = none
    BY DEF BlankCapture
  <2> HIDE DEF none
  <2>3. Told(BlankCapture) = {}
    BY <2>1, <2>2 DEF Told
  <2> QED BY <2>3 DEF Late, laCapture
<1>9. C[id] = Told(d) /\ Y[id] = Late(d)
  BY <1>4, <1>5
<1>10. counters.missingChunks = Cardinality(Spread(S, B)) /\ counters.outOfOrderChunks = Cardinality(Spread(S, X))
  BY DEF GapInv, GapsHold
<1> HIDE DEF S, B, C, X, Y
<1>11. GrowsBy(S, B, id, C, G)
  BY <1>6, <1>7, <1>8, <1>9 DEF GrowsBy
<1>12. GrowsBy(S, X, id, Y, H)
  BY <1>6, <1>7, <1>8, <1>9 DEF GrowsBy
<1>13. Cardinality(Spread(S \cup {id}, C)) = Cardinality(Spread(S, B)) + Cardinality(G)
  BY <1>1, <1>3, <1>11, SumGrows
<1>14. Cardinality(Spread(S \cup {id}, Y)) = Cardinality(Spread(S, X)) + Cardinality(H)
  BY <1>1, <1>3, <1>12, SumGrows
<1> QED BY <1>4, <1>10, <1>13, <1>14 DEF C, Y

LEMMA GapDeliver ==
    ASSUME LaInv, GapInv, DeliverFrame
    PROVE  GapInv'
<1> DEFINE f  == Head(readout)
           id == f.id
           c  == laCapture(captures, id)
           n  == Len(window[id])
           v  == decodeLogicAnalyzerFrame(Model, f)
           m  == Next1(c.chunks)
           k  == f.chunk
<1>1. f \in LaFrame /\ c \in Capture /\ n \in Nat /\ c.chunks \subseteq 0 .. n
  BY FrontFrame DEF DeliverFrame
<1>2. captures' = v.captures /\ counters' = v.counters
  BY DEF DeliverFrame, Show
<1>3. PICK d : /\ v.captures = PutAt(id, d)
               /\ SameGaps(c, d, v) \/ NewChunk(c, d, k, v)
  BY <1>1, GapDecodes
<1> HIDE DEF v, f, n
<1>4. TellsGaps(c)
  <2>1. CASE id \in DOMAIN captures
    BY <2>1 DEF GapInv, GapsHold, laCapture
  <2>2. CASE id \notin DOMAIN captures
    <3> DEFINE none == <<>>
    <3>1. DOMAIN none = {}
      OBVIOUS
    <3>2. BlankCapture.missingRanges = none /\ BlankCapture.chunks = {}
      BY DEF BlankCapture
    <3> HIDE DEF none
    <3>3. Told(BlankCapture) = {}
      BY <3>1, <3>2 DEF Told
    <3>4. c = BlankCapture
      BY <2>2 DEF laCapture
    <3> QED BY <3>2, <3>3, <3>4 DEF TellsGaps
  <2> QED BY <2>1, <2>2
<1>5. captures' = PutAt(id, d)
  BY <1>2, <1>3
<1>6. counters.missingChunks \in Nat /\ counters.outOfOrderChunks \in Nat /\ CounterTypes
  BY DEF GapInv, CounterTypes
<1>7. TellsGaps(d) => \A i \in DOMAIN captures' : TellsGaps(captures'[i])
  BY <1>5 DEF PutAt, GapInv, GapsHold
<1> HIDE DEF id, k
<1>8. CASE SameGaps(c, d, v)
  <2>1. Told(d) = Told(c) /\ Late(d) = Late(c) /\ TellsGaps(d) /\ counters' = counters
    BY <1>2, <1>4, <1>8 DEF SameGaps, Told, Late, TellsGaps
  <2> DEFINE G == {}
  <2>2. IsFiniteSet(G) /\ Cardinality(G) = 0 /\ Told(d) = Told(c) \cup G /\ Late(d) = Late(c) \cup G
        /\ Told(c) \cap G = {} /\ Late(c) \cap G = {}
    BY <2>1, FS_EmptySet
  <2> HIDE DEF G
  <2>3. /\ Cardinality(Spread(DOMAIN captures', ToldIn(captures'))) = counters.missingChunks + Cardinality(G)
        /\ Cardinality(Spread(DOMAIN captures', LateIn(captures'))) = counters.outOfOrderChunks + Cardinality(G)
    BY <1>5, <2>2, GapsGrow
  <2> QED BY <1>6, <1>7, <2>1, <2>2, <2>3 DEF GapInv, GapsHold, CounterTypes
<1>9. CASE NewChunk(c, d, k, v)
  <2> DEFINE late == c.chunks # {} /\ k < Max(c.chunks)
             G == m .. k - 1
             H == IF late THEN {k} ELSE {}
  <2>1. /\ k \in Nat /\ k \notin c.chunks /\ d.chunks = c.chunks \cup {k}
        /\ d.missingRanges = c.missingRanges \o Gap(c.chunks, k)
        /\ counters' = [counters EXCEPT !.missingChunks = @ + RangeSizes(Gap(c.chunks, k)),
                                        !.outOfOrderChunks = @ + (IF late THEN 1 ELSE 0)]
    BY <1>2, <1>9 DEF NewChunk
  <2>2. /\ TellsGaps(d)
        /\ Told(d) = Told(c) \cup G /\ Told(c) \cap G = {}
        /\ Late(d) = Late(c) \cup H /\ k \notin Late(c)
        /\ RangeSizes(Gap(c.chunks, k)) = Cardinality(G) /\ IsFiniteSet(G)
    BY <1>1, <1>4, <2>1, GapKept
  <2>3. IsFiniteSet(H) /\ Cardinality(H) = (IF late THEN 1 ELSE 0) /\ Late(c) \cap H = {}
    <3>1. CASE late
      BY <2>2, <3>1, FS_Singleton
    <3>2. CASE ~late
      BY <3>2, FS_EmptySet
    <3> QED BY <3>1, <3>2
  <2>4. Cardinality(G) \in Nat
    BY <2>2, FS_CardinalityType
  <2> HIDE DEF G, H, late, c
  <2>5. /\ Cardinality(Spread(DOMAIN captures', ToldIn(captures'))) = counters.missingChunks + Cardinality(G)
        /\ Cardinality(Spread(DOMAIN captures', LateIn(captures'))) = counters.outOfOrderChunks + Cardinality(H)
    BY <1>5, <2>2, <2>3, GapsGrow DEF c
  <2>6. /\ counters'.missingChunks = counters.missingChunks + Cardinality(G)
        /\ counters'.outOfOrderChunks = counters.outOfOrderChunks + Cardinality(H)
        /\ CounterTypes'
    <3> DEFINE g == Cardinality(G)
               h == IF late THEN 1 ELSE 0
    <3>1. counters' = [counters EXCEPT !.missingChunks = @ + g, !.outOfOrderChunks = @ + h]
      BY <2>1, <2>2
    <3>2. g \in Nat /\ h \in Nat /\ Cardinality(H) = h
      BY <2>3, <2>4
    <3> HIDE DEF g, h
    <3>3. counters \in [missingChunks : Nat, outOfOrderChunks : Nat, malformed : Nat]
      BY <1>6 DEF CounterTypes
    <3>4. /\ counters'.missingChunks = counters.missingChunks + g
          /\ counters'.outOfOrderChunks = counters.outOfOrderChunks + h
      BY <3>1, <3>3
    <3>5. counters' \in [missingChunks : Nat, outOfOrderChunks : Nat, malformed : Nat]
      <4> DEFINE a == counters.missingChunks + g
                 b == counters.outOfOrderChunks + h
      <4>1. a \in Nat /\ b \in Nat
        BY <3>2, <3>3
      <4>2. counters' = [counters EXCEPT !.missingChunks = a, !.outOfOrderChunks = b]
        BY <3>1
      <4> HIDE DEF a, b
      <4> QED BY <3>3, <4>1, <4>2
    <3> QED BY <3>2, <3>4, <3>5 DEF CounterTypes, g
  <2> QED BY <1>7, <2>2, <2>5, <2>6 DEF GapInv, GapsHold
<1> QED BY <1>3, <1>8, <1>9

LEMMA NothingTold ==
    ASSUME NEW caps, caps = <<>>, NEW cnt, cnt = ZeroCounters
    PROVE  GapsHold(caps, cnt) /\ cnt \in [missingChunks : Nat, outOfOrderChunks : Nat, malformed : Nat]
<1>1. DOMAIN caps = {}
  BY EmptyMap
<1>2. Spread(DOMAIN caps, ToldIn(caps)) = {} /\ Spread(DOMAIN caps, LateIn(caps)) = {}
  BY <1>1 DEF Spread
<1>3. cnt.missingChunks = 0 /\ cnt.outOfOrderChunks = 0
      /\ cnt \in [missingChunks : Nat, outOfOrderChunks : Nat, malformed : Nat]
  BY DEF ZeroCounters
<1> QED BY <1>1, <1>2, <1>3, FS_EmptySet DEF GapsHold

(* The missing ranges tell each chunk that did not come in its turn once,  *)
(* and the counters are the sums over the captures of what they tell and   *)
(* of what came late (decodeLogicAnalyzerSampleData of app.js).            *)
THEOREM GapsAreTold ==
    SpecAssembly => []GapsExact
<1>1. InitAssembly => GapInv
  BY NothingTold DEF InitAssembly, GapInv, CounterTypes
<1>2. LaInv /\ GapInv /\ [NextAssembly]_assemblyVars => GapInv'
  <2> SUFFICES ASSUME LaInv, GapInv, [NextAssembly]_assemblyVars PROVE GapInv' OBVIOUS
  <2>1. CASE DeliverFrame
    BY <2>1, GapDeliver
  <2>2. CASE UNCHANGED <<captures, counters>>
    BY <2>2 DEF GapInv, CounterTypes, GapsHold
  <2>3. CASE Malformed
    BY <2>3 DEF Malformed, GapInv, CounterTypes, GapsHold
  <2>4. CASE clearAllCaptures
    BY <2>4, NothingTold DEF clearAllCaptures, GapInv, CounterTypes
  <2> QED
    BY <2>1, <2>2, <2>3, <2>4 DEF NextAssembly, NewCapture, ReadAgain, LoseFrame, assemblyVars
<1>3. LaInv /\ GapInv => GapsExact
  <2> SUFFICES ASSUME LaInv, GapInv PROVE GapsExact OBVIOUS
  <2>1. \A id \in DOMAIN captures : TellsGaps(captures[id])
    BY DEF GapInv, GapsHold
  <2>2. /\ counters.missingChunks
             = MapThenSumSet(LAMBDA id : Cardinality(Told(captures[id])), DOMAIN captures)
        /\ counters.outOfOrderChunks
             = MapThenSumSet(LAMBDA id : Cardinality(Late(captures[id])), DOMAIN captures)
    BY FiniteCaptures, GapFinite, GapSums DEF GapInv, GapsHold
  <2> QED BY <2>1, <2>2, Zenon DEF GapsExact, TellsGaps, Told, Late
<1> QED BY <1>1, <1>2, <1>3, AssemblyInvariant, PTL DEF SpecAssembly

-----------------------------------------------------------------------------
(* Spans of trace frames                                                   *)

Running == [n : Nat, at : Nat]
Opened  == [startTimestamp : Nat, n : Nat, at : Nat]
TrFrame == [kind : {"begin", "end", "mark"}, key : Keys, timestamp : Nat, n : Nat, at : Nat]
Span    == [orphan : BOOLEAN, startTimestamp : Nat \cup {NONE}, endTimestamp : Nat,
            duration : Nat \cup {NONE}, began : Nat \cup {NONE}, ended : Nat,
            from : Nat \cup {NONE}, to : Nat]

TrTypes ==
    /\ now \in Nat /\ made \in Nat
    /\ running \in [Keys -> Running \cup {NONE}]
    /\ openSpans \in [Keys -> Opened \cup {NONE}]
    /\ wire \in Seq(TrFrame)
    /\ spans \in Seq(Span)

IsRunning(k) == running[k] # NONE
IsOpen(k)    == openSpans[k] # NONE

(* A frame of key k that is not a mark                                     *)
OfKey(f, k) == f.kind # "mark" /\ f.key = k

(* The device makes f after the begin of span n of the same key.           *)
AfterBegin(f, n) == n < f.n \/ (n = f.n /\ f.kind = "end")

(* Of one key, everything comes in the order it was made: what is open,    *)
(* what is on the line, what is running.                                   *)
Sequential ==
    /\ \A i \in DOMAIN wire : wire[i].kind # "mark" => wire[i].n <= made
    /\ \A k \in Keys, i, j \in DOMAIN wire :
          i < j /\ OfKey(wire[i], k) /\ OfKey(wire[j], k) =>
            wire[i].n < wire[j].n
              \/ (wire[i].n = wire[j].n /\ wire[i].kind = "begin" /\ wire[j].kind = "end")
    /\ \A k \in Keys : IsOpen(k) =>
          /\ openSpans[k].n <= made
          /\ \A i \in DOMAIN wire : OfKey(wire[i], k) => AfterBegin(wire[i], openSpans[k].n)
    /\ \A k \in Keys : IsRunning(k) =>
          /\ running[k].n <= made
          /\ IsOpen(k) => openSpans[k].n <= running[k].n
          /\ \A i \in DOMAIN wire : OfKey(wire[i], k) =>
                wire[i].n < running[k].n \/ (wire[i].n = running[k].n /\ wire[i].kind = "begin")

(* The begin and the end of a span are less than a turn of the time stamps *)
(* apart.                                                                  *)
Within(from, to) == from <= to /\ to - from < PERIOD

Timed ==
    /\ \A i \in DOMAIN wire : wire[i].timestamp = wire[i].at % PERIOD
    /\ \A k \in Keys : IsOpen(k) =>
          /\ openSpans[k].startTimestamp = openSpans[k].at % PERIOD
          /\ \A i \in DOMAIN wire :
                OfKey(wire[i], k) /\ wire[i].kind = "end" /\ wire[i].n = openSpans[k].n
                  => Within(openSpans[k].at, wire[i].at)
    /\ \A k \in Keys : IsRunning(k) =>
          /\ Within(running[k].at, now)
          /\ IsOpen(k) /\ openSpans[k].n = running[k].n => openSpans[k].at = running[k].at
          /\ \A i \in DOMAIN wire :
                OfKey(wire[i], k) /\ wire[i].n = running[k].n => wire[i].at = running[k].at
    /\ \A k \in Keys, i, j \in DOMAIN wire :
          OfKey(wire[i], k) /\ OfKey(wire[j], k) /\ wire[i].n = wire[j].n
            /\ wire[i].kind = "begin" /\ wire[j].kind = "end"
              => Within(wire[i].at, wire[j].at)

(* The begin of span n of key k is open, on the line, or gone.             *)
BeginSeen(k, n) ==
    \/ IsOpen(k) /\ openSpans[k].n = n
    \/ \E j \in DOMAIN wire : OfKey(wire[j], k) /\ wire[j].kind = "begin" /\ wire[j].n = n
    \/ <<"begin", n>> \in gone

(* The end of span n of key k is to come, on the line, or gone.            *)
EndSeen(k, n) ==
    \/ IsRunning(k) /\ running[k].n = n
    \/ \E j \in DOMAIN wire : OfKey(wire[j], k) /\ wire[j].kind = "end" /\ wire[j].n = n
    \/ <<"end", n>> \in gone

Accounted ==
    /\ \A k \in Keys : IsRunning(k) => BeginSeen(k, running[k].n)
    /\ \A k \in Keys, i \in DOMAIN wire :
          OfKey(wire[i], k) /\ wire[i].kind = "end" => BeginSeen(k, wire[i].n)
    /\ \A k \in Keys : IsOpen(k) => EndSeen(k, openSpans[k].n)
    /\ \A k \in Keys, i \in DOMAIN wire :
          OfKey(wire[i], k) /\ wire[i].kind = "begin" => EndSeen(k, wire[i].n)

(* A span as it is shown is one of the device, or the frames that would    *)
(* have told are gone.                                                     *)
SpanTrue(s) ==
    /\ s.orphan => <<"begin", s.ended>> \in gone
    /\ ~s.orphan /\ s.began = s.ended => s.duration = s.to - s.from
    /\ ~s.orphan /\ s.began # s.ended => {<<"end", s.began>>, <<"begin", s.ended>>} \subseteq gone

ShownTrue == \A i \in DOMAIN spans : SpanTrue(spans[i])

TrInv == TrTypes /\ Sequential /\ Timed /\ Accounted /\ ShownTrue

LEMMA TrFrames ==
    ASSUME TrTypes
    PROVE  /\ DOMAIN wire = 1 .. Len(wire) /\ Len(wire) \in Nat
           /\ \A i \in DOMAIN wire :
                 /\ wire[i] \in TrFrame
                 /\ wire[i].kind \in {"begin", "end", "mark"} /\ wire[i].key \in Keys
                 /\ wire[i].timestamp \in Nat /\ wire[i].n \in Nat /\ wire[i].at \in Nat
<1>1. wire \in Seq(TrFrame)
  BY DEF TrTypes
<1>2. DOMAIN wire = 1 .. Len(wire) /\ Len(wire) \in Nat
  BY <1>1, LenProperties
<1>3. \A i \in DOMAIN wire : wire[i] \in TrFrame
  BY <1>1, <1>2, ElementOfSeq
<1> QED BY <1>2, <1>3 DEF TrFrame

(* What is open and what is running is a record of its own.                *)
LEMMA TrRecords ==
    ASSUME TrTypes, NEW k \in Keys
    PROVE  /\ IsRunning(k) => running[k] \in Running /\ running[k].n \in Nat /\ running[k].at \in Nat
           /\ IsOpen(k) => /\ openSpans[k] \in Opened /\ openSpans[k].startTimestamp \in Nat
                           /\ openSpans[k].n \in Nat /\ openSpans[k].at \in Nat
           /\ PERIOD \in Nat \ {0} /\ NONE \notin Running /\ NONE \notin Opened
  BY TraceAssumption DEF TrTypes, IsRunning, IsOpen, Running, Opened

LEMMA TrSent ==
    ASSUME TrTypes, NEW kind \in {"begin", "end", "mark"}, NEW k \in Keys, NEW n \in Nat,
           Send(kind, k, n), PERIOD \in Nat \ {0}
    PROVE  LET f == [kind |-> kind, key |-> k, timestamp |-> now % PERIOD, n |-> n, at |-> now]
               l == Len(wire) + 1
           IN /\ wire' \in Seq(TrFrame) /\ DOMAIN wire' = 1 .. l
              /\ \A i \in DOMAIN wire : i < l /\ i \in DOMAIN wire' /\ wire'[i] = wire[i]
              /\ \A i \in DOMAIN wire' : i \in DOMAIN wire \/ i = l
              /\ l \in DOMAIN wire' /\ wire'[l] = f
<1> DEFINE f == [kind |-> kind, key |-> k, timestamp |-> now % PERIOD, n |-> n, at |-> now]
<1>1. now \in Nat /\ now % PERIOD \in Nat
  BY ModDef DEF TrTypes
<1>2. f \in TrFrame
  BY <1>1 DEF TrFrame
<1>3. wire' = Append(wire, f) /\ wire \in Seq(TrFrame)
  BY DEF Send, TrTypes
<1> HIDE DEF f
<1>4. /\ wire' \in Seq(TrFrame) /\ Len(wire') = Len(wire) + 1 /\ Len(wire) \in Nat
      /\ \A i \in 1 .. Len(wire) : wire'[i] = wire[i]
      /\ wire'[Len(wire) + 1] = f
  BY <1>2, <1>3, AppendProperties, LenProperties
<1>5. DOMAIN wire = 1 .. Len(wire) /\ DOMAIN wire' = 1 .. Len(wire')
  BY <1>3, <1>4, LenProperties
<1> QED BY <1>4, <1>5 DEF f

LEMMA TrNumbers ==
           (TrTypes => /\ \A i \in DOMAIN wire : wire[i].n \in Nat
                       /\ \A k \in Keys : /\ IsRunning(k) => running[k].n \in Nat
                                          /\ IsOpen(k) => openSpans[k].n \in Nat)'
<1>1. TrTypes => /\ \A i \in DOMAIN wire : wire[i].n \in Nat
                 /\ \A k \in Keys : /\ IsRunning(k) => running[k].n \in Nat
                                    /\ IsOpen(k) => openSpans[k].n \in Nat
  BY TrFrames, TrRecords
<1> QED BY <1>1, PTL

(* The accounts of a next state, with its numbers named.                   *)
LEMMA TrSeen ==
    ASSUME TrTypes',
           \A k \in Keys, n \in Nat : IsRunning(k)' /\ n = running'[k].n => BeginSeen(k, n)',
           \A k \in Keys, i \in DOMAIN wire', n \in Nat :
              OfKey(wire'[i], k) /\ wire'[i].kind = "end" /\ n = wire'[i].n => BeginSeen(k, n)',
           \A k \in Keys, i \in DOMAIN wire', n \in Nat :
              OfKey(wire'[i], k) /\ wire'[i].kind = "begin" /\ n = wire'[i].n => EndSeen(k, n)',
           \A k \in Keys, n \in Nat : IsOpen(k)' /\ n = openSpans'[k].n => EndSeen(k, n)'
    PROVE  Accounted'
<1>2. /\ \A i \in DOMAIN wire' : wire'[i].n \in Nat
      /\ \A k \in Keys : /\ IsRunning(k)' => running'[k].n \in Nat
                         /\ IsOpen(k)' => openSpans'[k].n \in Nat
  BY TrNumbers
<1> QED BY <1>2 DEF Accounted, BeginSeen, EndSeen, IsRunning, IsOpen, OfKey

LEMMA TrInit == ASSUME InitTrace PROVE TrInv
<1>1. /\ now = 0 /\ made = 0 /\ wire = <<>> /\ spans = <<>>
      /\ running = [k \in Keys |-> NONE] /\ openSpans = [k \in Keys |-> NONE]
  BY DEF InitTrace
<1>2. DOMAIN wire = {} /\ DOMAIN spans = {}
  BY <1>1, EmptyMap
<1>3. \A k \in Keys : ~IsRunning(k) /\ ~IsOpen(k)
  BY <1>1 DEF IsRunning, IsOpen
<1>4. TrTypes
  BY <1>1 DEF TrTypes
<1>5. Sequential /\ Timed /\ Accounted /\ ShownTrue
  BY <1>2, <1>3 DEF Sequential, Timed, Accounted, ShownTrue
<1> QED BY <1>4, <1>5 DEF TrInv

LEMMA TrTick == ASSUME TrInv, Tick PROVE TrInv'
<1>1. TrTypes /\ Sequential /\ Timed /\ Accounted /\ ShownTrue
  BY DEF TrInv
<1>2. /\ now' = now + 1 /\ UNCHANGED <<running, made, wire, gone, openSpans, spans>>
      /\ \A k \in Keys : running[k] # NONE => now + 1 - running[k].at < PERIOD
  BY DEF Tick
<1>3. TrTypes' /\ Sequential' /\ Accounted' /\ ShownTrue'
  BY <1>1, <1>2 DEF TrTypes, Sequential, Accounted, ShownTrue, SpanTrue, BeginSeen, EndSeen, IsOpen, IsRunning
<1>4. \A k \in Keys : IsRunning(k) => Within(running[k].at, now')
  BY <1>1, <1>2, TrRecords DEF Timed, Within, IsRunning, TrTypes
<1>5. Timed'
  BY <1>1, <1>2, <1>4 DEF Timed, IsOpen, IsRunning
<1> QED BY <1>3, <1>5 DEF TrInv

LEMMA TrBegin == ASSUME TrInv, BeginSpan PROVE TrInv'
<1>1. TrTypes /\ Sequential /\ Timed /\ Accounted /\ ShownTrue
  BY DEF TrInv
<1>2. PICK k0 \in Keys : /\ running[k0] = NONE /\ Send("begin", k0, made + 1)
                         /\ running' = [running EXCEPT ![k0] = [n |-> made + 1, at |-> now]]
                         /\ made' = made + 1 /\ UNCHANGED <<now, gone, openSpans, spans>>
  BY DEF BeginSpan
<1> DEFINE l == Len(wire) + 1
           f == [kind |-> "begin", key |-> k0, timestamp |-> now % PERIOD, n |-> made + 1, at |-> now]
           r == [n |-> made + 1, at |-> now]
<1>3. PERIOD \in Nat \ {0} /\ now \in Nat /\ made \in Nat /\ made + 1 \in Nat
  BY <1>1, TrRecords DEF TrTypes
<1>4. /\ wire' \in Seq(TrFrame)
      /\ \A i \in DOMAIN wire : i < l /\ i \in DOMAIN wire' /\ wire'[i] = wire[i]
      /\ \A i \in DOMAIN wire' : i \in DOMAIN wire \/ i = l
      /\ l \in DOMAIN wire' /\ wire'[l] = f
  BY <1>1, <1>2, <1>3, TrSent
<1>5. /\ \A i \in DOMAIN wire : /\ wire[i].kind \in {"begin", "end", "mark"} /\ wire[i].key \in Keys
                                /\ wire[i].n \in Nat /\ wire[i].at \in Nat /\ i \in Nat
      /\ l \in Nat
  BY <1>1, TrFrames
<1>6. r \in Running /\ running \in [Keys -> Running \cup {NONE}] /\ r # NONE
  BY <1>1, <1>2, <1>3, TrRecords DEF TrTypes, Running
<1>7. /\ \A k \in Keys : k # k0 => (IsRunning(k)' <=> IsRunning(k)) /\ running'[k] = running[k]
      /\ ~IsRunning(k0) /\ IsRunning(k0)' /\ running'[k0] = r
      /\ \A k \in Keys : IsOpen(k)' <=> IsOpen(k)
  BY <1>2, <1>6 DEF IsRunning, IsOpen
<1>8. TrTypes'
  BY <1>1, <1>2, <1>3, <1>4, <1>6 DEF TrTypes
<1>9. \A k \in Keys : IsOpen(k) => openSpans[k].n \in Nat /\ openSpans[k].at \in Nat
  BY <1>1, TrRecords
<1>10. \A k \in Keys : IsRunning(k) => running[k].n \in Nat /\ running[k].at \in Nat
  BY <1>1, TrRecords
<1>11. /\ f.kind = "begin" /\ f.key = k0 /\ f.n = made + 1 /\ f.at = now
       /\ f.timestamp = now % PERIOD /\ r.n = made + 1 /\ r.at = now
  OBVIOUS
<1> HIDE DEF f, r, l
<1>12. Sequential'
  <2>1. \A i \in DOMAIN wire' : wire'[i].kind # "mark" => wire'[i].n <= made'
    BY <1>1, <1>2, <1>3, <1>4, <1>5, <1>11 DEF Sequential
  <2>2. \A k \in Keys, i, j \in DOMAIN wire' :
          i < j /\ OfKey(wire'[i], k) /\ OfKey(wire'[j], k) =>
            wire'[i].n < wire'[j].n
              \/ (wire'[i].n = wire'[j].n /\ wire'[i].kind = "begin" /\ wire'[j].kind = "end")
    <3> SUFFICES ASSUME NEW k \in Keys, NEW i \in DOMAIN wire', NEW j \in DOMAIN wire',
                        i < j, OfKey(wire'[i], k), OfKey(wire'[j], k)
                 PROVE  wire'[i].n < wire'[j].n
                          \/ (wire'[i].n = wire'[j].n /\ wire'[i].kind = "begin" /\ wire'[j].kind = "end")
      OBVIOUS
    <3>1. i \in DOMAIN wire /\ wire'[i] = wire[i]
      BY <1>4, <1>5
    <3>2. CASE j \in DOMAIN wire
      BY <1>1, <1>4, <3>1, <3>2 DEF Sequential
    <3>3. CASE j = l
      <4>1. wire[i].n <= made /\ wire[i].n \in Nat /\ wire'[j].n = made + 1
        BY <1>1, <1>4, <1>5, <1>11, <3>1, <3>3 DEF Sequential, OfKey
      <4> QED BY <1>3, <3>1, <4>1
    <3> QED BY <1>4, <3>2, <3>3
  <2>3. \A k \in Keys : IsOpen(k) =>
          /\ openSpans[k].n <= made'
          /\ \A i \in DOMAIN wire' : OfKey(wire'[i], k) => AfterBegin(wire'[i], openSpans[k].n)
    <3> SUFFICES ASSUME NEW k \in Keys, IsOpen(k)
                 PROVE  /\ openSpans[k].n <= made'
                        /\ \A i \in DOMAIN wire' :
                              OfKey(wire'[i], k) => AfterBegin(wire'[i], openSpans[k].n)
      OBVIOUS
    <3>1. openSpans[k].n <= made /\ openSpans[k].n <= made' /\ openSpans[k].n < made + 1
      BY <1>1, <1>2, <1>3, <1>9 DEF Sequential
    <3>2. AfterBegin(wire'[l], openSpans[k].n)
      BY <1>4, <1>11, <3>1 DEF AfterBegin
    <3>3. \A i \in DOMAIN wire : OfKey(wire[i], k) => AfterBegin(wire[i], openSpans[k].n)
      BY <1>1 DEF Sequential
    <3> QED BY <1>4, <3>1, <3>2, <3>3
  <2>4. \A k \in Keys : IsRunning(k)' =>
          /\ running'[k].n <= made'
          /\ IsOpen(k) => openSpans[k].n <= running'[k].n
          /\ \A i \in DOMAIN wire' : OfKey(wire'[i], k) =>
                wire'[i].n < running'[k].n \/ (wire'[i].n = running'[k].n /\ wire'[i].kind = "begin")
    <3> SUFFICES ASSUME NEW k \in Keys, IsRunning(k)'
                 PROVE  /\ running'[k].n <= made'
                        /\ IsOpen(k) => openSpans[k].n <= running'[k].n
                        /\ \A i \in DOMAIN wire' : OfKey(wire'[i], k) =>
                              wire'[i].n < running'[k].n
                                \/ (wire'[i].n = running'[k].n /\ wire'[i].kind = "begin")
      OBVIOUS
    <3>1. CASE k = k0
      <4>1. running'[k].n = made + 1 /\ made + 1 <= made'
        BY <1>2, <1>3, <1>7, <1>11, <3>1
      <4>2. IsOpen(k) => openSpans[k].n <= made + 1
        BY <1>1, <1>3, <1>9 DEF Sequential
      <4>3. \A i \in DOMAIN wire : OfKey(wire[i], k) => wire[i].n < made + 1
        BY <1>1, <1>3, <1>5 DEF Sequential, OfKey
      <4> QED BY <1>4, <1>11, <4>1, <4>2, <4>3
    <3>2. CASE k # k0
      <4>1. running'[k] = running[k] /\ IsRunning(k)
        BY <1>7, <3>2
      <4>2. running[k].n <= made /\ running[k].n <= made'
        BY <1>1, <1>2, <1>3, <1>10, <4>1 DEF Sequential
      <4> QED BY <1>1, <1>4, <1>11, <3>2, <4>1, <4>2 DEF Sequential, OfKey
    <3> QED BY <3>1, <3>2
  <2> QED BY <1>2, <1>7, <2>1, <2>2, <2>3, <2>4 DEF Sequential
<1>13. Timed'
  <2>1. \A i \in DOMAIN wire' : wire'[i].timestamp = wire'[i].at % PERIOD
    BY <1>1, <1>4, <1>11 DEF Timed
  <2>2. \A k \in Keys : IsOpen(k) =>
          /\ openSpans[k].startTimestamp = openSpans[k].at % PERIOD
          /\ \A i \in DOMAIN wire' :
                OfKey(wire'[i], k) /\ wire'[i].kind = "end" /\ wire'[i].n = openSpans[k].n
                  => Within(openSpans[k].at, wire'[i].at)
    BY <1>1, <1>4, <1>11 DEF Timed
  <2>3. \A k \in Keys : IsRunning(k)' =>
          /\ Within(running'[k].at, now)
          /\ IsOpen(k) /\ openSpans[k].n = running'[k].n => openSpans[k].at = running'[k].at
          /\ \A i \in DOMAIN wire' :
                OfKey(wire'[i], k) /\ wire'[i].n = running'[k].n => wire'[i].at = running'[k].at
    <3> SUFFICES ASSUME NEW k \in Keys, IsRunning(k)'
                 PROVE  /\ Within(running'[k].at, now)
                        /\ IsOpen(k) /\ openSpans[k].n = running'[k].n => openSpans[k].at = running'[k].at
                        /\ \A i \in DOMAIN wire' :
                              OfKey(wire'[i], k) /\ wire'[i].n = running'[k].n => wire'[i].at = running'[k].at
      OBVIOUS
    <3>1. CASE k = k0
      <4>1. Within(now, now)
        BY <1>3 DEF Within
      <4>2. IsOpen(k) => openSpans[k].n # made + 1
        BY <1>1, <1>3, <1>9 DEF Sequential
      <4>3. \A i \in DOMAIN wire : OfKey(wire[i], k) => wire[i].n # made + 1
        BY <1>1, <1>3, <1>5 DEF Sequential, OfKey
      <4> QED BY <1>4, <1>7, <1>11, <3>1, <4>1, <4>2, <4>3
    <3>2. CASE k # k0
      BY <1>1, <1>2, <1>4, <1>7, <1>11, <3>2 DEF Timed, OfKey
    <3> QED BY <3>1, <3>2
  <2>4. \A k \in Keys, i, j \in DOMAIN wire' :
          OfKey(wire'[i], k) /\ OfKey(wire'[j], k) /\ wire'[i].n = wire'[j].n
            /\ wire'[i].kind = "begin" /\ wire'[j].kind = "end"
              => Within(wire'[i].at, wire'[j].at)
    <3>1. \A j \in DOMAIN wire : wire[j].kind = "end" => wire[j].n # made + 1
      BY <1>1, <1>3, <1>5 DEF Sequential
    <3> QED BY <1>1, <1>4, <1>11, <3>1 DEF Timed
  <2> QED BY <1>2, <1>7, <2>1, <2>2, <2>3, <2>4 DEF Timed
<1>14. \A k \in Keys, n \in Nat : (BeginSeen(k, n) => BeginSeen(k, n)') /\ (EndSeen(k, n) => EndSeen(k, n)')
  BY <1>2, <1>4, <1>7 DEF BeginSeen, EndSeen
<1>15. \A n : n = made + 1 => BeginSeen(k0, n)' /\ EndSeen(k0, n)'
  BY <1>4, <1>7, <1>11 DEF BeginSeen, EndSeen, OfKey
<1>16. Accounted'
  <2>1. \A k \in Keys, n \in Nat : IsRunning(k)' /\ n = running'[k].n => BeginSeen(k, n)'
    BY <1>1, <1>7, <1>11, <1>14, <1>15 DEF Accounted
  <2>2. \A k \in Keys, i \in DOMAIN wire', n \in Nat :
          OfKey(wire'[i], k) /\ wire'[i].kind = "end" /\ n = wire'[i].n => BeginSeen(k, n)'
    BY <1>1, <1>4, <1>11, <1>14 DEF Accounted
  <2>3. \A k \in Keys, i \in DOMAIN wire', n \in Nat :
          OfKey(wire'[i], k) /\ wire'[i].kind = "begin" /\ n = wire'[i].n => EndSeen(k, n)'
    BY <1>1, <1>4, <1>11, <1>14, <1>15 DEF Accounted, OfKey
  <2>4. \A k \in Keys, n \in Nat : IsOpen(k)' /\ n = openSpans'[k].n => EndSeen(k, n)'
    BY <1>1, <1>2, <1>7, <1>14 DEF Accounted
  <2> QED BY <1>8, <2>1, <2>2, <2>3, <2>4, TrSeen
<1>17. ShownTrue'
  BY <1>1, <1>2 DEF ShownTrue, SpanTrue
<1> QED BY <1>8, <1>12, <1>13, <1>16, <1>17 DEF TrInv

LEMMA TrEnd == ASSUME TrInv, EndSpan PROVE TrInv'
<1>1. TrTypes /\ Sequential /\ Timed /\ Accounted /\ ShownTrue
  BY DEF TrInv
<1>2. PICK k0 \in Keys : /\ IsRunning(k0) /\ Send("end", k0, running[k0].n)
                         /\ running' = [running EXCEPT ![k0] = NONE]
                         /\ UNCHANGED <<now, made, gone, openSpans, spans>>
  BY DEF EndSpan, IsRunning
<1> DEFINE l == Len(wire) + 1
           r == running[k0]
           f == [kind |-> "end", key |-> k0, timestamp |-> now % PERIOD, n |-> r.n, at |-> now]
<1>3. /\ PERIOD \in Nat \ {0} /\ now \in Nat /\ made \in Nat /\ r \in Running
      /\ r.n \in Nat /\ r.at \in Nat
  BY <1>1, <1>2, TrRecords DEF TrTypes
<1>4. /\ wire' \in Seq(TrFrame)
      /\ \A i \in DOMAIN wire : i < l /\ i \in DOMAIN wire' /\ wire'[i] = wire[i]
      /\ \A i \in DOMAIN wire' : i \in DOMAIN wire \/ i = l
      /\ l \in DOMAIN wire' /\ wire'[l] = f
  <2> DEFINE n == r.n
  <2>1. n \in Nat /\ Send("end", k0, n)
    BY <1>2, <1>3
  <2> HIDE DEF n
  <2> QED BY <1>1, <1>3, <2>1, TrSent DEF n
<1>5. /\ \A i \in DOMAIN wire : wire[i].n \in Nat /\ wire[i].at \in Nat /\ i \in Nat
      /\ l \in Nat
  BY <1>1, TrFrames
<1>6. /\ f.kind = "end" /\ f.key = k0 /\ f.n = r.n /\ f.at = now /\ f.timestamp = now % PERIOD
      /\ running \in [Keys -> Running \cup {NONE}]
  BY <1>1 DEF TrTypes
<1>7. /\ \A k \in Keys : IsRunning(k)' => k # k0 /\ IsRunning(k) /\ running'[k] = running[k]
      /\ \A k \in Keys : k # k0 /\ IsRunning(k) => IsRunning(k)' /\ running'[k] = running[k]
      /\ \A k \in Keys : IsOpen(k)' <=> IsOpen(k)
  BY <1>2, <1>6 DEF IsRunning, IsOpen
<1>8. TrTypes'
  BY <1>1, <1>2, <1>3, <1>4, <1>6 DEF TrTypes
<1>9. \A k \in Keys : IsOpen(k) => openSpans[k].n \in Nat /\ openSpans[k].at \in Nat
  BY <1>1, TrRecords
<1> HIDE DEF f, r, l
(* What the device knows of the span it ends.                              *)
<1>10. /\ r.n <= made /\ Within(r.at, now)
       /\ IsOpen(k0) => openSpans[k0].n <= r.n /\ (openSpans[k0].n = r.n => openSpans[k0].at = r.at)
       /\ \A i \in DOMAIN wire : OfKey(wire[i], k0) =>
             /\ wire[i].n < r.n \/ (wire[i].n = r.n /\ wire[i].kind = "begin")
             /\ wire[i].n = r.n => wire[i].at = r.at
       /\ BeginSeen(k0, r.n)
  BY <1>1, <1>2 DEF Sequential, Timed, Accounted, r
<1>11. Sequential'
  <2>1. \A i \in DOMAIN wire' : wire'[i].kind # "mark" => wire'[i].n <= made
    BY <1>1, <1>4, <1>6, <1>10 DEF Sequential
  <2>2. \A k \in Keys, i, j \in DOMAIN wire' :
          i < j /\ OfKey(wire'[i], k) /\ OfKey(wire'[j], k) =>
            wire'[i].n < wire'[j].n
              \/ (wire'[i].n = wire'[j].n /\ wire'[i].kind = "begin" /\ wire'[j].kind = "end")
    <3> SUFFICES ASSUME NEW k \in Keys, NEW i \in DOMAIN wire', NEW j \in DOMAIN wire',
                        i < j, OfKey(wire'[i], k), OfKey(wire'[j], k)
                 PROVE  wire'[i].n < wire'[j].n
                          \/ (wire'[i].n = wire'[j].n /\ wire'[i].kind = "begin" /\ wire'[j].kind = "end")
      OBVIOUS
    <3>1. i \in DOMAIN wire /\ wire'[i] = wire[i]
      BY <1>4, <1>5
    <3>2. CASE j \in DOMAIN wire
      BY <1>1, <1>4, <3>1, <3>2 DEF Sequential
    <3>3. CASE j = l
      <4>1. k = k0 /\ wire'[j].n = r.n /\ wire'[j].kind = "end"
        BY <1>4, <1>6, <3>3 DEF OfKey
      <4> QED BY <1>10, <3>1, <4>1
    <3> QED BY <1>4, <3>2, <3>3
  <2>3. ASSUME NEW k \in Keys, IsOpen(k)
        PROVE  /\ openSpans[k].n <= made
               /\ \A i \in DOMAIN wire' : OfKey(wire'[i], k) => AfterBegin(wire'[i], openSpans[k].n)
    <3>1. OfKey(f, k) => AfterBegin(f, openSpans[k].n)
      BY <1>3, <1>6, <1>9, <1>10, <2>3 DEF OfKey, AfterBegin
    <3>2. /\ openSpans[k].n <= made
          /\ \A i \in DOMAIN wire : OfKey(wire[i], k) => AfterBegin(wire[i], openSpans[k].n)
      BY <1>1, <2>3 DEF Sequential
    <3> QED BY <1>4, <3>1, <3>2
  <2>4. ASSUME NEW k \in Keys, IsRunning(k)'
        PROVE  /\ running'[k].n <= made
               /\ IsOpen(k) => openSpans[k].n <= running'[k].n
               /\ \A i \in DOMAIN wire' : OfKey(wire'[i], k) =>
                     wire'[i].n < running'[k].n
                       \/ (wire'[i].n = running'[k].n /\ wire'[i].kind = "begin")
    <3>1. k # k0 /\ IsRunning(k) /\ running'[k] = running[k]
      BY <1>7, <2>4
    <3>2. ~OfKey(f, k)
      BY <1>6, <3>1 DEF OfKey
    <3> QED BY <1>1, <1>4, <3>1, <3>2 DEF Sequential
  <2> QED BY <1>2, <1>7, <2>1, <2>2, <2>3, <2>4 DEF Sequential
<1>12. Timed'
  <2>1. \A i \in DOMAIN wire' : wire'[i].timestamp = wire'[i].at % PERIOD
    BY <1>1, <1>4, <1>6 DEF Timed
  <2>2. ASSUME NEW k \in Keys, IsOpen(k)
        PROVE  /\ openSpans[k].startTimestamp = openSpans[k].at % PERIOD
               /\ \A i \in DOMAIN wire' :
                     OfKey(wire'[i], k) /\ wire'[i].kind = "end" /\ wire'[i].n = openSpans[k].n
                       => Within(openSpans[k].at, wire'[i].at)
    <3>1. OfKey(f, k) /\ f.n = openSpans[k].n => Within(openSpans[k].at, f.at)
      BY <1>6, <1>10, <2>2 DEF OfKey
    <3> QED BY <1>1, <1>4, <2>2, <3>1 DEF Timed
  <2>3. ASSUME NEW k \in Keys, IsRunning(k)'
        PROVE  /\ Within(running'[k].at, now)
               /\ IsOpen(k) /\ openSpans[k].n = running'[k].n => openSpans[k].at = running'[k].at
               /\ \A i \in DOMAIN wire' :
                     OfKey(wire'[i], k) /\ wire'[i].n = running'[k].n => wire'[i].at = running'[k].at
    <3>1. k # k0 /\ IsRunning(k) /\ running'[k] = running[k]
      BY <1>7, <2>3
    <3>2. ~OfKey(f, k)
      BY <1>6, <3>1 DEF OfKey
    <3> QED BY <1>1, <1>4, <3>1, <3>2 DEF Timed
  <2>4. \A k \in Keys, i, j \in DOMAIN wire' :
          OfKey(wire'[i], k) /\ OfKey(wire'[j], k) /\ wire'[i].n = wire'[j].n
            /\ wire'[i].kind = "begin" /\ wire'[j].kind = "end"
              => Within(wire'[i].at, wire'[j].at)
    BY <1>1, <1>4, <1>6, <1>10 DEF Timed, OfKey
  <2> QED BY <1>2, <1>7, <2>1, <2>2, <2>3, <2>4 DEF Timed
<1>13. \A k \in Keys, n \in Nat : (BeginSeen(k, n) => BeginSeen(k, n)') /\ (EndSeen(k, n) => EndSeen(k, n)')
  BY <1>2, <1>4, <1>6, <1>7 DEF BeginSeen, EndSeen, OfKey, r
<1>14. Accounted'
  <2>1. \A k \in Keys, n \in Nat : IsRunning(k)' /\ n = running'[k].n => BeginSeen(k, n)'
    BY <1>1, <1>7, <1>13 DEF Accounted
  <2>2. \A k \in Keys, i \in DOMAIN wire', n \in Nat :
          OfKey(wire'[i], k) /\ wire'[i].kind = "end" /\ n = wire'[i].n => BeginSeen(k, n)'
    BY <1>1, <1>4, <1>6, <1>10, <1>13 DEF Accounted, OfKey
  <2>3. \A k \in Keys, i \in DOMAIN wire', n \in Nat :
          OfKey(wire'[i], k) /\ wire'[i].kind = "begin" /\ n = wire'[i].n => EndSeen(k, n)'
    BY <1>1, <1>4, <1>6, <1>13 DEF Accounted
  <2>4. \A k \in Keys, n \in Nat : IsOpen(k)' /\ n = openSpans'[k].n => EndSeen(k, n)'
    BY <1>1, <1>2, <1>7, <1>13 DEF Accounted
  <2> QED BY <1>8, <2>1, <2>2, <2>3, <2>4, TrSeen
<1>15. ShownTrue'
  BY <1>1, <1>2 DEF ShownTrue, SpanTrue
<1> QED BY <1>8, <1>11, <1>12, <1>14, <1>15 DEF TrInv

(* Marks open and close nothing.                                           *)
LEMMA TrMark == ASSUME TrInv, Mark PROVE TrInv'
<1>1. TrTypes /\ Sequential /\ Timed /\ Accounted /\ ShownTrue
  BY DEF TrInv
<1>2. PICK k0 \in Keys : Send("mark", k0, 0)
  BY DEF Mark
<1>3. UNCHANGED <<now, running, made, gone, openSpans, spans>>
  BY DEF Mark
<1> DEFINE l == Len(wire) + 1
           f == [kind |-> "mark", key |-> k0, timestamp |-> now % PERIOD, n |-> 0, at |-> now]
<1>4. PERIOD \in Nat \ {0}
  BY <1>1, TrRecords
<1>5. /\ wire' \in Seq(TrFrame)
      /\ \A i \in DOMAIN wire : i < l /\ i \in DOMAIN wire' /\ wire'[i] = wire[i]
      /\ \A i \in DOMAIN wire' : i \in DOMAIN wire \/ i = l
      /\ l \in DOMAIN wire' /\ wire'[l] = f
  BY <1>1, <1>2, <1>4, TrSent
<1>6. f.kind = "mark" /\ f.at = now /\ f.timestamp = now % PERIOD /\ \A k : ~OfKey(f, k)
  BY DEF OfKey
<1>7. \A k \in Keys : (IsRunning(k)' <=> IsRunning(k)) /\ (IsOpen(k)' <=> IsOpen(k))
  BY <1>3 DEF IsRunning, IsOpen
<1> HIDE DEF f, l
<1>8. TrTypes'
  BY <1>1, <1>3, <1>5 DEF TrTypes
<1>9. Sequential'
  BY <1>1, <1>3, <1>5, <1>6, <1>7 DEF Sequential
<1>10. Timed'
  BY <1>1, <1>3, <1>5, <1>6, <1>7 DEF Timed
<1>11. \A k \in Keys, n \in Nat : (BeginSeen(k, n) => BeginSeen(k, n)') /\ (EndSeen(k, n) => EndSeen(k, n)')
  BY <1>3, <1>5, <1>7 DEF BeginSeen, EndSeen
<1>12. Accounted'
  <2>1. \A k \in Keys, n \in Nat : IsRunning(k)' /\ n = running'[k].n => BeginSeen(k, n)'
    BY <1>1, <1>3, <1>7, <1>11 DEF Accounted
  <2>2. \A k \in Keys, i \in DOMAIN wire', n \in Nat :
          OfKey(wire'[i], k) /\ wire'[i].kind = "end" /\ n = wire'[i].n => BeginSeen(k, n)'
    BY <1>1, <1>5, <1>6, <1>11 DEF Accounted
  <2>3. \A k \in Keys, i \in DOMAIN wire', n \in Nat :
          OfKey(wire'[i], k) /\ wire'[i].kind = "begin" /\ n = wire'[i].n => EndSeen(k, n)'
    BY <1>1, <1>5, <1>6, <1>11 DEF Accounted
  <2>4. \A k \in Keys, n \in Nat : IsOpen(k)' /\ n = openSpans'[k].n => EndSeen(k, n)'
    BY <1>1, <1>3, <1>7, <1>11 DEF Accounted
  <2> QED BY <1>8, <2>1, <2>2, <2>3, <2>4, TrSeen
<1>13. ShownTrue'
  BY <1>1, <1>3 DEF ShownTrue, SpanTrue
<1> QED BY <1>8, <1>9, <1>10, <1>12, <1>13 DEF TrInv

(* The first frame leaves the line.                                        *)
LEMMA TrTail ==
    ASSUME TrTypes, wire # <<>>, wire' = Tail(wire)
    PROVE  /\ wire' \in Seq(TrFrame) /\ 1 \in DOMAIN wire /\ Head(wire) = wire[1]
           /\ \A i \in DOMAIN wire' :
                 i \in Nat /\ 1 < i + 1 /\ i + 1 \in DOMAIN wire /\ wire'[i] = wire[i + 1]
           /\ \A j \in DOMAIN wire : j # 1 => \E i \in DOMAIN wire' : wire'[i] = wire[j]
<1> DEFINE r == wire
           t == wire'
<1>1. r \in Seq(TrFrame) /\ r # <<>> /\ t = Tail(r)
  BY DEF TrTypes
<1> HIDE DEF r, t
<1>2. /\ t \in Seq(TrFrame) /\ Len(t) = Len(r) - 1 /\ \A i \in 1 .. Len(t) : t[i] = r[i + 1]
      /\ Len(r) \in Nat \ {0} /\ DOMAIN r = 1 .. Len(r) /\ DOMAIN t = 1 .. Len(t)
  BY <1>1, HeadTailProperties, LenProperties, EmptySeq
<1>3. 1 \in DOMAIN r /\ Head(r) = r[1]
  BY <1>1, <1>2
<1>4. ASSUME NEW i \in DOMAIN t PROVE i \in Nat /\ 1 < i + 1 /\ i + 1 \in DOMAIN r /\ t[i] = r[i + 1]
  BY <1>2, <1>4
<1>5. ASSUME NEW j \in DOMAIN r, j # 1 PROVE \E i \in DOMAIN t : t[i] = r[j]
  <2>1. j - 1 \in DOMAIN t /\ (j - 1) + 1 = j
    BY <1>2, <1>5
  <2>2. t[j - 1] = r[j]
    BY <1>4, <2>1
  <2> QED BY <2>1, <2>2
<1> QED BY <1>2, <1>3, <1>4, <1>5 DEF r, t

(* The order and the times on the line are those of its frames behind the  *)
(* first one.                                                              *)
LineInOrder ==
    /\ \A i \in DOMAIN wire : wire[i].kind # "mark" => wire[i].n <= made
    /\ \A k \in Keys, i, j \in DOMAIN wire :
          i < j /\ OfKey(wire[i], k) /\ OfKey(wire[j], k) =>
            wire[i].n < wire[j].n
              \/ (wire[i].n = wire[j].n /\ wire[i].kind = "begin" /\ wire[j].kind = "end")
    /\ \A k \in Keys : IsRunning(k) =>
          /\ running[k].n <= made
          /\ \A i \in DOMAIN wire : OfKey(wire[i], k) =>
                wire[i].n < running[k].n \/ (wire[i].n = running[k].n /\ wire[i].kind = "begin")

LineTimed ==
    /\ \A i \in DOMAIN wire : wire[i].timestamp = wire[i].at % PERIOD
    /\ \A k \in Keys : IsRunning(k) =>
          /\ Within(running[k].at, now)
          /\ \A i \in DOMAIN wire :
                OfKey(wire[i], k) /\ wire[i].n = running[k].n => wire[i].at = running[k].at
    /\ \A k \in Keys, i, j \in DOMAIN wire :
          OfKey(wire[i], k) /\ OfKey(wire[j], k) /\ wire[i].n = wire[j].n
            /\ wire[i].kind = "begin" /\ wire[j].kind = "end"
              => Within(wire[i].at, wire[j].at)

(* The order and the times of what is open                                 *)
OpenInOrder(k) ==
    IsOpen(k) =>
      /\ openSpans[k].n <= made
      /\ \A i \in DOMAIN wire : OfKey(wire[i], k) => AfterBegin(wire[i], openSpans[k].n)
      /\ IsRunning(k) => openSpans[k].n <= running[k].n

OpenTimed(k) ==
    IsOpen(k) =>
      /\ openSpans[k].startTimestamp = openSpans[k].at % PERIOD
      /\ \A i \in DOMAIN wire :
            OfKey(wire[i], k) /\ wire[i].kind = "end" /\ wire[i].n = openSpans[k].n
              => Within(openSpans[k].at, wire[i].at)
      /\ IsRunning(k) /\ openSpans[k].n = running[k].n => openSpans[k].at = running[k].at

LEMMA TrParts ==
    /\ Sequential <=> LineInOrder /\ \A k \in Keys : OpenInOrder(k)
    /\ Timed <=> LineTimed /\ \A k \in Keys : OpenTimed(k)
<1>1. Sequential <=> LineInOrder /\ \A k \in Keys : OpenInOrder(k)
  BY DEF Sequential, LineInOrder, OpenInOrder
<1>2. Timed <=> LineTimed /\ \A k \in Keys : OpenTimed(k)
  BY DEF Timed, LineTimed, OpenTimed
<1> QED BY <1>1, <1>2

LEMMA TrPartsNext ==
    /\ LineInOrder' /\ (\A k \in Keys : OpenInOrder(k)') => Sequential'
    /\ LineTimed' /\ (\A k \in Keys : OpenTimed(k)') => Timed'
<1>1. (/\ Sequential <=> LineInOrder /\ \A k \in Keys : OpenInOrder(k)
       /\ Timed <=> LineTimed /\ \A k \in Keys : OpenTimed(k))'
  BY TrParts, PTL
<1> QED BY <1>1

LEMMA TrTailKeeps ==
    ASSUME TrTypes, Sequential, Timed, wire # <<>>, wire' = Tail(wire), UNCHANGED <<now, made, running>>
    PROVE  /\ LineInOrder' /\ LineTimed'
           /\ \A k \in Keys : openSpans'[k] = openSpans[k] => OpenInOrder(k)' /\ OpenTimed(k)'
<1>1. LineInOrder /\ LineTimed /\ \A k \in Keys : OpenInOrder(k) /\ OpenTimed(k)
  BY TrParts
<1>2. \A i \in DOMAIN wire' : i \in Nat /\ i + 1 \in DOMAIN wire /\ wire'[i] = wire[i + 1]
  BY TrTail
<1>3. \A k \in Keys : IsRunning(k)' <=> IsRunning(k)
  BY DEF IsRunning
<1>4. LineInOrder'
  <2>1. \A i, j \in DOMAIN wire' : i < j => i + 1 < j + 1
    BY <1>2
  <2>2. \A k \in Keys, i, j \in DOMAIN wire' :
          i < j /\ OfKey(wire'[i], k) /\ OfKey(wire'[j], k) =>
            wire'[i].n < wire'[j].n
              \/ (wire'[i].n = wire'[j].n /\ wire'[i].kind = "begin" /\ wire'[j].kind = "end")
    BY <1>1, <1>2, <2>1 DEF LineInOrder
  <2> QED BY <1>1, <1>2, <1>3, <2>2 DEF LineInOrder
<1>5. LineTimed'
  BY <1>1, <1>2, <1>3 DEF LineTimed
<1>6. ASSUME NEW k \in Keys, openSpans'[k] = openSpans[k] PROVE OpenInOrder(k)' /\ OpenTimed(k)'
  <2>1. IsOpen(k)' <=> IsOpen(k)
    BY <1>6 DEF IsOpen
  <2> QED BY <1>1, <1>2, <1>3, <1>6, <2>1 DEF OpenInOrder, OpenTimed
<1> QED BY <1>4, <1>5, <1>6

LEMMA TrLose == ASSUME TrInv, Lose PROVE TrInv'
<1>1. TrTypes /\ Sequential /\ Timed /\ Accounted /\ ShownTrue
  BY DEF TrInv
<1>2. /\ wire # <<>> /\ wire' = Tail(wire) /\ UNCHANGED <<now, running, made, openSpans, spans>>
      /\ gone' = gone \cup {<<Head(wire).kind, Head(wire).n>>}
  BY DEF Lose
<1>3. /\ wire' \in Seq(TrFrame) /\ Head(wire) = wire[1]
      /\ \A i \in DOMAIN wire' : i + 1 \in DOMAIN wire /\ wire'[i] = wire[i + 1]
      /\ \A j \in DOMAIN wire : j # 1 => \E i \in DOMAIN wire' : wire'[i] = wire[j]
  BY <1>1, <1>2, TrTail
<1>4. \A k \in Keys : (IsRunning(k)' <=> IsRunning(k)) /\ (IsOpen(k)' <=> IsOpen(k))
  BY <1>2 DEF IsRunning, IsOpen
<1>5. TrTypes'
  BY <1>1, <1>2, <1>3 DEF TrTypes
<1>6. Sequential' /\ Timed'
  BY <1>1, <1>2, TrTailKeeps, TrPartsNext
<1>7. \A k \in Keys, n \in Nat : (BeginSeen(k, n) => BeginSeen(k, n)') /\ (EndSeen(k, n) => EndSeen(k, n)')
  <2> SUFFICES ASSUME NEW k \in Keys, NEW n \in Nat
               PROVE  (BeginSeen(k, n) => BeginSeen(k, n)') /\ (EndSeen(k, n) => EndSeen(k, n)')
    OBVIOUS
  <2>1. \A j \in DOMAIN wire : \/ \E i \in DOMAIN wire' : wire'[i] = wire[j]
                               \/ <<wire[j].kind, wire[j].n>> \in gone'
    BY <1>2, <1>3
  <2>2. BeginSeen(k, n) => BeginSeen(k, n)'
    BY <1>2, <1>4, <2>1 DEF BeginSeen
  <2>3. EndSeen(k, n) => EndSeen(k, n)'
    BY <1>2, <1>4, <2>1 DEF EndSeen
  <2> QED BY <2>2, <2>3
<1>8. Accounted'
  <2>1. \A k \in Keys, n \in Nat : IsRunning(k)' /\ n = running'[k].n => BeginSeen(k, n)'
    BY <1>1, <1>2, <1>4, <1>7 DEF Accounted
  <2>2. \A k \in Keys, i \in DOMAIN wire', n \in Nat :
          OfKey(wire'[i], k) /\ wire'[i].kind = "end" /\ n = wire'[i].n => BeginSeen(k, n)'
    BY <1>1, <1>3, <1>7 DEF Accounted
  <2>3. \A k \in Keys, i \in DOMAIN wire', n \in Nat :
          OfKey(wire'[i], k) /\ wire'[i].kind = "begin" /\ n = wire'[i].n => EndSeen(k, n)'
    BY <1>1, <1>3, <1>7 DEF Accounted
  <2>4. \A k \in Keys, n \in Nat : IsOpen(k)' /\ n = openSpans'[k].n => EndSeen(k, n)'
    BY <1>1, <1>2, <1>4, <1>7 DEF Accounted
  <2> QED BY <1>5, <2>1, <2>2, <2>3, <2>4, TrSeen
<1>9. ShownTrue'
  BY <1>1, <1>2 DEF ShownTrue, SpanTrue
<1> QED BY <1>5, <1>6, <1>8, <1>9 DEF TrInv

LEMMA TrClear == ASSUME TrInv, clearAllSpans PROVE TrInv'
<1>1. TrTypes /\ Sequential /\ Timed /\ Accounted /\ ShownTrue
  BY DEF TrInv
<1>2. /\ gone' = gone \cup {<<"begin", openSpans[k].n>> : k \in {k \in Keys : openSpans[k] # NONE}}
      /\ openSpans' = [k \in Keys |-> NONE] /\ spans' = <<>> /\ UNCHANGED <<now, running, made, wire>>
  BY DEF clearAllSpans
<1>3. \A k \in Keys : ~IsOpen(k)' /\ (IsRunning(k)' <=> IsRunning(k))
  BY <1>2 DEF IsOpen, IsRunning
<1>4. TrTypes'
  BY <1>1, <1>2 DEF TrTypes
<1>5. Sequential' /\ Timed'
  BY <1>1, <1>2, <1>3 DEF Sequential, Timed
<1>6. \A k \in Keys, n \in Nat : (BeginSeen(k, n) => BeginSeen(k, n)') /\ (EndSeen(k, n) => EndSeen(k, n)')
  BY <1>2, <1>3 DEF BeginSeen, EndSeen, IsOpen
<1>7. Accounted'
  <2>1. \A k \in Keys, n \in Nat : IsRunning(k)' /\ n = running'[k].n => BeginSeen(k, n)'
    BY <1>1, <1>2, <1>3, <1>6 DEF Accounted
  <2>2. \A k \in Keys, i \in DOMAIN wire', n \in Nat :
          OfKey(wire'[i], k) /\ wire'[i].kind = "end" /\ n = wire'[i].n => BeginSeen(k, n)'
    BY <1>1, <1>2, <1>6 DEF Accounted
  <2>3. \A k \in Keys, i \in DOMAIN wire', n \in Nat :
          OfKey(wire'[i], k) /\ wire'[i].kind = "begin" /\ n = wire'[i].n => EndSeen(k, n)'
    BY <1>1, <1>2, <1>6 DEF Accounted
  <2> QED BY <1>3, <1>4, <2>1, <2>2, <2>3, TrSeen
<1>8. ShownTrue'
  <2>1. DOMAIN spans' = {}
    BY <1>2, EmptyMap
  <2> QED BY <2>1 DEF ShownTrue
<1> QED BY <1>4, <1>5, <1>7, <1>8 DEF TrInv

(* A list cut to its last items holds nothing new.                         *)
LEMMA PrunedFacts ==
    ASSUME NEW S, NEW list \in Seq(S)
    PROVE  /\ Pruned(list) \in Seq(S)
           /\ \A i \in DOMAIN Pruned(list) : \E j \in DOMAIN list : Pruned(list)[i] = list[j]
<1> DEFINE n == Len(list)
           c == IF n > MAX_SPANS THEN MAX_SPANS ELSE n
           m == n - c + 1
           t == Pruned(list)
<1>1. n \in Nat /\ MAX_SPANS \in Nat \ {0} /\ DOMAIN list = 1 .. n
  BY LenProperties, TraceAssumption
<1>2. m \in 1 .. n + 1
  <2> HIDE DEF n
  <2> QED BY <1>1
<1>3. t = SubSeq(list, m, n)
  BY DEF Pruned
<1> HIDE DEF m, n, t
<1>4. \A i \in m .. n : list[i] \in S
  BY <1>1, <1>2, ElementOfSeq DEF n
<1>5. /\ t \in Seq(S) /\ Len(t) = (IF m <= n THEN n - m + 1 ELSE 0)
      /\ \A i \in 1 .. n - m + 1 : t[i] = list[m + i - 1]
  BY <1>1, <1>2, <1>3, <1>4, SubSeqProperties
<1>6. DOMAIN t = 1 .. Len(t)
  BY <1>5, LenProperties
<1>7. ASSUME NEW i \in DOMAIN t PROVE \E j \in DOMAIN list : t[i] = list[j]
  <2>1. i \in 1 .. n - m + 1 /\ m + i - 1 \in 1 .. n
    BY <1>1, <1>2, <1>5, <1>6
  <2> QED BY <1>1, <1>5, <2>1
<1> QED BY <1>5, <1>7 DEF t

LEMMA TrDeliverMark ==
    ASSUME TrInv, Deliver, Head(wire).kind = "mark" PROVE TrInv'
<1>1. TrTypes /\ Sequential /\ Timed /\ Accounted /\ ShownTrue
  BY DEF TrInv
<1>2. /\ wire # <<>> /\ wire' = Tail(wire) /\ UNCHANGED <<now, running, made, gone, openSpans, spans>>
  BY DEF Deliver, decodeMark
<1>3. /\ wire' \in Seq(TrFrame) /\ Head(wire) = wire[1] /\ wire[1].kind = "mark"
      /\ \A i \in DOMAIN wire' : i + 1 \in DOMAIN wire /\ wire'[i] = wire[i + 1]
      /\ \A j \in DOMAIN wire : j # 1 => \E i \in DOMAIN wire' : wire'[i] = wire[j]
  BY <1>1, <1>2, TrTail
<1>4. \A k \in Keys : (IsRunning(k)' <=> IsRunning(k)) /\ (IsOpen(k)' <=> IsOpen(k))
  BY <1>2 DEF IsRunning, IsOpen
<1>5. TrTypes'
  BY <1>1, <1>2, <1>3 DEF TrTypes
<1>6. Sequential' /\ Timed'
  BY <1>1, <1>2, TrTailKeeps, TrPartsNext
<1>7. \A k \in Keys, n \in Nat : (BeginSeen(k, n) => BeginSeen(k, n)') /\ (EndSeen(k, n) => EndSeen(k, n)')
  <2>1. \A k \in Keys, n \in Nat : BeginSeen(k, n) => BeginSeen(k, n)'
    BY <1>2, <1>3, <1>4 DEF BeginSeen, OfKey
  <2>2. \A k \in Keys, n \in Nat : EndSeen(k, n) => EndSeen(k, n)'
    BY <1>2, <1>3, <1>4 DEF EndSeen, OfKey
  <2> QED BY <2>1, <2>2
<1>8. Accounted'
  <2>1. \A k \in Keys, n \in Nat : IsRunning(k)' /\ n = running'[k].n => BeginSeen(k, n)'
    BY <1>1, <1>2, <1>4, <1>7 DEF Accounted
  <2>2. \A k \in Keys, i \in DOMAIN wire', n \in Nat :
          OfKey(wire'[i], k) /\ wire'[i].kind = "end" /\ n = wire'[i].n => BeginSeen(k, n)'
    BY <1>1, <1>3, <1>7 DEF Accounted
  <2>3. \A k \in Keys, i \in DOMAIN wire', n \in Nat :
          OfKey(wire'[i], k) /\ wire'[i].kind = "begin" /\ n = wire'[i].n => EndSeen(k, n)'
    BY <1>1, <1>3, <1>7 DEF Accounted
  <2>4. \A k \in Keys, n \in Nat : IsOpen(k)' /\ n = openSpans'[k].n => EndSeen(k, n)'
    BY <1>1, <1>2, <1>4, <1>7 DEF Accounted
  <2> QED BY <1>5, <2>1, <2>2, <2>3, <2>4, TrSeen
<1>9. ShownTrue'
  BY <1>1, <1>2 DEF ShownTrue, SpanTrue
<1> QED BY <1>5, <1>6, <1>8, <1>9 DEF TrInv

(* The first frame f of the line, of key k0, against all that is there of  *)
(* that key.                                                               *)
LEMMA TrFirst ==
    ASSUME TrInv, wire # <<>>, wire' = Tail(wire),
           NEW k0 \in Keys, OfKey(wire[1], k0)
    PROVE  LET f == wire[1]
           IN /\ f.n \in Nat /\ f.at \in Nat /\ f.timestamp \in Nat /\ f.timestamp = f.at % PERIOD
              /\ f.n <= made
              /\ f.kind \in {"begin", "end"}
              /\ \A i \in DOMAIN wire' : OfKey(wire'[i], k0) =>
                    /\ wire'[i].n \in Nat
                    /\ f.n < wire'[i].n
                         \/ (f.n = wire'[i].n /\ f.kind = "begin" /\ wire'[i].kind = "end")
                    /\ f.n = wire'[i].n => Within(f.at, wire'[i].at)
              /\ IsOpen(k0) => /\ openSpans[k0].n \in Nat /\ AfterBegin(f, openSpans[k0].n)
                               /\ f.n = openSpans[k0].n => Within(openSpans[k0].at, f.at)
              /\ IsRunning(k0) => /\ running[k0].n \in Nat
                                  /\ f.n < running[k0].n \/ (f.n = running[k0].n /\ f.kind = "begin")
                                  /\ f.n = running[k0].n => f.at = running[k0].at
              /\ f.kind = "end" => BeginSeen(k0, f.n)
              /\ f.kind = "begin" => EndSeen(k0, f.n)
<1>1. TrTypes /\ Sequential /\ Timed /\ Accounted
  BY DEF TrInv
<1> DEFINE f == wire[1]
<1>2. /\ 1 \in DOMAIN wire
      /\ \A i \in DOMAIN wire' : 1 < i + 1 /\ i + 1 \in DOMAIN wire /\ wire'[i] = wire[i + 1]
  BY <1>1, TrTail
<1>3. \A i \in DOMAIN wire : wire[i].n \in Nat /\ wire[i].at \in Nat /\ wire[i].timestamp \in Nat
                             /\ wire[i].kind \in {"begin", "end", "mark"}
  BY <1>1, TrFrames
<1>4. /\ f.n \in Nat /\ f.at \in Nat /\ f.timestamp \in Nat /\ f.timestamp = f.at % PERIOD
      /\ f.n <= made /\ f.kind \in {"begin", "end"}
  BY <1>1, <1>2, <1>3 DEF Timed, Sequential, OfKey
<1>5. ASSUME NEW i \in DOMAIN wire', OfKey(wire'[i], k0)
      PROVE  /\ wire'[i].n \in Nat
             /\ f.n < wire'[i].n \/ (f.n = wire'[i].n /\ f.kind = "begin" /\ wire'[i].kind = "end")
             /\ f.n = wire'[i].n => Within(f.at, wire'[i].at)
  <2>1. 1 < i + 1 /\ i + 1 \in DOMAIN wire /\ wire'[i] = wire[i + 1]
    BY <1>2
  <2>2. wire[i + 1].n \in Nat /\ OfKey(wire[i + 1], k0)
    BY <1>3, <1>5, <2>1
  <2>3. f.n < wire[i + 1].n \/ (f.n = wire[i + 1].n /\ f.kind = "begin" /\ wire[i + 1].kind = "end")
    BY <1>1, <1>2, <2>1, <2>2 DEF Sequential
  <2>4. f.n = wire[i + 1].n => Within(f.at, wire[i + 1].at)
    BY <1>1, <1>2, <1>4, <2>1, <2>2, <2>3 DEF Timed
  <2> QED BY <2>1, <2>2, <2>3, <2>4
<1>6. IsOpen(k0) => /\ openSpans[k0].n \in Nat /\ AfterBegin(f, openSpans[k0].n)
                    /\ f.n = openSpans[k0].n => Within(openSpans[k0].at, f.at)
  <2> SUFFICES ASSUME IsOpen(k0)
               PROVE  /\ openSpans[k0].n \in Nat /\ AfterBegin(f, openSpans[k0].n)
                      /\ f.n = openSpans[k0].n => Within(openSpans[k0].at, f.at)
    OBVIOUS
  <2>1. openSpans[k0].n \in Nat
    BY <1>1, TrRecords
  <2>2. AfterBegin(f, openSpans[k0].n)
    BY <1>1, <1>2 DEF Sequential
  <2>3. f.n = openSpans[k0].n => f.kind = "end"
    BY <1>4, <2>1, <2>2 DEF AfterBegin
  <2> QED BY <1>1, <1>2, <2>1, <2>2, <2>3 DEF Timed
<1>7. IsRunning(k0) => /\ running[k0].n \in Nat
                       /\ f.n < running[k0].n \/ (f.n = running[k0].n /\ f.kind = "begin")
                       /\ f.n = running[k0].n => f.at = running[k0].at
  BY <1>1, <1>2, TrRecords DEF Sequential, Timed
<1>8. (f.kind = "end" => BeginSeen(k0, f.n)) /\ (f.kind = "begin" => EndSeen(k0, f.n))
  BY <1>1, <1>2 DEF Accounted
<1> QED BY <1>4, <1>5, <1>6, <1>7, <1>8

LEMMA TrDeliverBegin ==
    ASSUME TrInv, Deliver, Head(wire).kind = "begin" PROVE TrInv'
<1>1. TrTypes /\ Sequential /\ Timed /\ Accounted /\ ShownTrue
  BY DEF TrInv
<1> DEFINE f  == wire[1]
           k0 == f.key
           o  == [startTimestamp |-> f.timestamp, n |-> f.n, at |-> f.at]
<1>2. wire # <<>> /\ wire' = Tail(wire) /\ Head(wire) = f
  BY <1>1, TrTail DEF Deliver
<1>3. /\ UNCHANGED <<now, running, made, gone, spans>>
      /\ openSpans' = [openSpans EXCEPT ![k0] = o]
  BY <1>2 DEF Deliver, beginTraceSpan, endTraceSpan, decodeMark
<1>4. /\ wire' \in Seq(TrFrame) /\ 1 \in DOMAIN wire
      /\ \A i \in DOMAIN wire' : i + 1 \in DOMAIN wire /\ wire'[i] = wire[i + 1]
      /\ \A j \in DOMAIN wire : j # 1 => \E i \in DOMAIN wire' : wire'[i] = wire[j]
  BY <1>1, <1>2, TrTail
<1>5. f.kind = "begin" /\ k0 \in Keys /\ OfKey(f, k0)
  BY <1>1, <1>2, <1>4, TrFrames DEF OfKey
<1>6. /\ f.n \in Nat /\ f.at \in Nat /\ f.timestamp \in Nat /\ f.timestamp = f.at % PERIOD
      /\ f.n <= made
      /\ \A i \in DOMAIN wire' : OfKey(wire'[i], k0) =>
            /\ wire'[i].n \in Nat
            /\ f.n < wire'[i].n \/ (f.n = wire'[i].n /\ wire'[i].kind = "end")
            /\ f.n = wire'[i].n => Within(f.at, wire'[i].at)
      /\ IsOpen(k0) => openSpans[k0].n \in Nat /\ openSpans[k0].n < f.n
      /\ IsRunning(k0) => /\ running[k0].n \in Nat /\ f.n <= running[k0].n
                          /\ f.n = running[k0].n => f.at = running[k0].at
      /\ EndSeen(k0, f.n)
  <2> DEFINE k == k0
  <2>1. k \in Keys /\ OfKey(wire[1], k)
    BY <1>5
  <2> HIDE DEF k
  <2>2. /\ f.n \in Nat /\ f.at \in Nat /\ f.timestamp \in Nat /\ f.timestamp = f.at % PERIOD
        /\ f.n <= made
        /\ \A i \in DOMAIN wire' : OfKey(wire'[i], k) =>
              /\ wire'[i].n \in Nat
              /\ f.n < wire'[i].n \/ (f.n = wire'[i].n /\ f.kind = "begin" /\ wire'[i].kind = "end")
              /\ f.n = wire'[i].n => Within(f.at, wire'[i].at)
        /\ IsOpen(k) => openSpans[k].n \in Nat /\ AfterBegin(f, openSpans[k].n)
        /\ IsRunning(k) => /\ running[k].n \in Nat
                           /\ f.n < running[k].n \/ (f.n = running[k].n /\ f.kind = "begin")
                           /\ f.n = running[k].n => f.at = running[k].at
        /\ f.kind = "begin" => EndSeen(k, f.n)
    BY <1>2, <2>1, TrFirst
  <2> QED BY <1>5, <2>2 DEF AfterBegin, k
<1>7. o \in Opened /\ o # NONE
  BY <1>1, <1>5, <1>6, TrRecords DEF Opened
<1>8. o.n = f.n /\ o.at = f.at /\ o.startTimestamp = f.timestamp
  OBVIOUS
<1> HIDE DEF f, k0, o
<1>9. openSpans \in [Keys -> Opened \cup {NONE}]
  BY <1>1 DEF TrTypes
<1>10. /\ \A k \in Keys : IsRunning(k)' <=> IsRunning(k)
       /\ openSpans'[k0] = o
       /\ \A k \in Keys : k # k0 => openSpans'[k] = openSpans[k] /\ (IsOpen(k)' <=> IsOpen(k))
  <2>1. /\ openSpans'[k0] = o
        /\ \A k \in Keys : k # k0 => openSpans'[k] = openSpans[k]
    BY <1>3, <1>5, <1>9
  <2> QED BY <1>3, <1>7, <2>1 DEF IsRunning, IsOpen
<1>11. TrTypes'
  BY <1>1, <1>3, <1>4, <1>5, <1>7, <1>9 DEF TrTypes
<1>12. /\ LineInOrder' /\ LineTimed'
       /\ \A k \in Keys : openSpans'[k] = openSpans[k] => OpenInOrder(k)' /\ OpenTimed(k)'
  BY <1>1, <1>2, <1>3, TrTailKeeps
<1>13. \A k \in Keys : OpenInOrder(k)' /\ OpenTimed(k)'
  <2>1. ASSUME NEW k \in Keys, k = k0 PROVE OpenInOrder(k)' /\ OpenTimed(k)'
    <3>1. OpenInOrder(k)'
      <4>1. \A i \in DOMAIN wire' : OfKey(wire'[i], k) => AfterBegin(wire'[i], o.n)
        BY <1>6, <1>8, <2>1 DEF AfterBegin
      <4> QED BY <1>3, <1>6, <1>8, <1>10, <2>1, <4>1 DEF OpenInOrder
    <3>2. OpenTimed(k)'
      BY <1>3, <1>6, <1>8, <1>10, <2>1 DEF OpenTimed
    <3> QED BY <3>1, <3>2
  <2> QED BY <1>10, <1>12, <2>1
<1>14. Sequential' /\ Timed'
  BY <1>12, <1>13, TrPartsNext
(* The begin that is replaced is of a span nothing else refers to.         *)
<1>15. \A k \in Keys, n \in Nat : BeginSeen(k, n) => BeginSeen(k, n)' \/ (k = k0 /\ IsOpen(k0) /\ n = openSpans[k0].n)
  <2> SUFFICES ASSUME NEW k \in Keys, NEW n \in Nat, BeginSeen(k, n),
                      ~(k = k0 /\ IsOpen(k0) /\ n = openSpans[k0].n)
               PROVE  BeginSeen(k, n)'
    OBVIOUS
  <2>1. CASE IsOpen(k) /\ openSpans[k].n = n
    BY <1>10, <2>1 DEF BeginSeen
  <2>2. CASE \E j \in DOMAIN wire : OfKey(wire[j], k) /\ wire[j].kind = "begin" /\ wire[j].n = n
    <3>1. PICK j \in DOMAIN wire : OfKey(wire[j], k) /\ wire[j].kind = "begin" /\ wire[j].n = n
      BY <2>2
    <3>2. CASE j = 1
      <4>1. k = k0 /\ n = f.n
        BY <3>1, <3>2 DEF OfKey, f, k0
      <4>2. openSpans'[k] # NONE /\ openSpans'[k].n = n
        BY <1>7, <1>8, <1>10, <4>1
      <4> QED BY <4>2 DEF BeginSeen, IsOpen
    <3>3. CASE j # 1
      BY <1>4, <3>1, <3>3 DEF BeginSeen
    <3> QED BY <3>2, <3>3
  <2>3. CASE <<"begin", n>> \in gone
    BY <1>3, <2>3 DEF BeginSeen
  <2> QED BY <2>1, <2>2, <2>3 DEF BeginSeen
<1>16. \A k \in Keys, n \in Nat : EndSeen(k, n) => EndSeen(k, n)'
  BY <1>3, <1>4, <1>5, <1>10 DEF EndSeen, f
<1>17. Accounted'
  <2>1. \A k \in Keys, n \in Nat : IsRunning(k)' /\ n = running'[k].n => BeginSeen(k, n)'
    BY <1>1, <1>3, <1>6, <1>10, <1>15 DEF Accounted
  <2>2. \A k \in Keys, i \in DOMAIN wire', n \in Nat :
          OfKey(wire'[i], k) /\ wire'[i].kind = "end" /\ n = wire'[i].n => BeginSeen(k, n)'
    BY <1>1, <1>4, <1>6, <1>15 DEF Accounted
  <2>3. \A k \in Keys, i \in DOMAIN wire', n \in Nat :
          OfKey(wire'[i], k) /\ wire'[i].kind = "begin" /\ n = wire'[i].n => EndSeen(k, n)'
    BY <1>1, <1>4, <1>16 DEF Accounted
  <2>4. \A k \in Keys, n \in Nat : IsOpen(k)' /\ n = openSpans'[k].n => EndSeen(k, n)'
    BY <1>1, <1>6, <1>8, <1>10, <1>16 DEF Accounted
  <2> QED BY <1>11, <2>1, <2>2, <2>3, <2>4, TrSeen
<1>18. ShownTrue'
  BY <1>1, <1>3 DEF ShownTrue, SpanTrue
<1> QED BY <1>11, <1>14, <1>17, <1>18 DEF TrInv

(* The span an end makes is true.                                          *)
LEMMA ClosedTrue ==
    ASSUME TrInv, wire # <<>>, NEW k0 \in Keys, OfKey(wire[1], k0),
           wire[1].kind = "end", wire' = Tail(wire)
    PROVE  /\ Closed(openSpans[k0], wire[1]) \in Span
           /\ SpanTrue(Closed(openSpans[k0], wire[1]))
<1> DEFINE f == wire[1]
           b == openSpans[k0]
           s == Closed(b, f)
<1>1. TrTypes /\ Sequential /\ Timed /\ Accounted
  BY DEF TrInv
<1>2. /\ f.n \in Nat /\ f.at \in Nat /\ f.timestamp \in Nat /\ f.timestamp = f.at % PERIOD
      /\ IsOpen(k0) => /\ AfterBegin(f, b.n) /\ (f.n = b.n => Within(b.at, f.at))
      /\ IsRunning(k0) => running[k0].n \in Nat /\ f.n < running[k0].n
      /\ \A i \in DOMAIN wire' : OfKey(wire'[i], k0) => wire'[i].n \in Nat /\ f.n < wire'[i].n
      /\ BeginSeen(k0, f.n)
  BY TrFirst
<1>3. /\ PERIOD \in Nat \ {0} /\ 1 \in DOMAIN wire
      /\ \A j \in DOMAIN wire : j # 1 => \E i \in DOMAIN wire' : wire'[i] = wire[j]
  BY <1>1, TrRecords, TrTail
(* Nothing on the line is older than f.                                    *)
<1>4. \A j \in DOMAIN wire : OfKey(wire[j], k0) => j = 1 \/ (wire[j].n \in Nat /\ f.n < wire[j].n)
  BY <1>2, <1>3
<1> HIDE DEF f
<1>5. CASE ~IsOpen(k0)
  <2>1. s = [orphan |-> TRUE, startTimestamp |-> NONE, endTimestamp |-> f.timestamp, duration |-> NONE,
             began |-> NONE, ended |-> f.n, from |-> NONE, to |-> f.at]
    BY <1>5 DEF Closed, IsOpen
  <2>2. <<"begin", f.n>> \in gone
    BY <1>2, <1>4, <1>5 DEF BeginSeen, f
  <2> QED BY <1>2, <2>1, <2>2 DEF Span, SpanTrue, f
<1>6. CASE IsOpen(k0)
  <2>1. b.startTimestamp \in Nat /\ b.n \in Nat /\ b.at \in Nat
    BY <1>1, <1>6, TrRecords
  <2>2. b.startTimestamp = b.at % PERIOD
    BY <1>1, <1>6 DEF Timed
  <2> DEFINE d == (f.timestamp - b.startTimestamp) % PERIOD
  <2>3. s = [orphan |-> FALSE, startTimestamp |-> b.startTimestamp, endTimestamp |-> f.timestamp,
             duration |-> d, began |-> b.n, ended |-> f.n, from |-> b.at, to |-> f.at]
    BY <1>6 DEF Closed, IsOpen
  <2>4. f.timestamp - b.startTimestamp \in Int
    BY <1>2, <2>1
  <2>5. d \in Nat
    BY <1>3, <2>4, ModDef
  <2>6. b.n = f.n => d = f.at - b.at
    <3> SUFFICES ASSUME b.n = f.n PROVE d = f.at - b.at OBVIOUS
    <3>1. b.at <= f.at /\ f.at - b.at < PERIOD
      BY <1>2, <1>6 DEF Within
    <3> DEFINE x == f.at
               y == b.at
    <3>2. x \in Nat /\ y \in Nat /\ y <= x /\ x - y < PERIOD
      BY <1>2, <2>1, <3>1
    <3> HIDE DEF x, y
    <3>3. ((x % PERIOD) - (y % PERIOD)) % PERIOD = x - y
      BY <1>3, <3>2, ModBack
    <3> QED BY <1>2, <2>2, <3>3 DEF x, y
  <2>7. b.n # f.n => <<"end", b.n>> \in gone /\ <<"begin", f.n>> \in gone
    <3> SUFFICES ASSUME b.n # f.n PROVE <<"end", b.n>> \in gone /\ <<"begin", f.n>> \in gone
      OBVIOUS
    <3>1. b.n < f.n
      BY <1>2, <1>6 DEF AfterBegin
    <3>2. <<"begin", f.n>> \in gone
      BY <1>2, <1>4 DEF BeginSeen, f
    <3>3. EndSeen(k0, b.n)
      BY <1>1, <1>6 DEF Accounted
    <3>4. \A j \in DOMAIN wire : OfKey(wire[j], k0) => wire[j].n # b.n
      <4> SUFFICES ASSUME NEW j \in DOMAIN wire, OfKey(wire[j], k0) PROVE wire[j].n # b.n
        OBVIOUS
      <4>1. wire[j].n = f.n \/ (wire[j].n \in Nat /\ f.n < wire[j].n)
        BY <1>4 DEF f
      <4> QED BY <1>2, <2>1, <3>1, <4>1
    <3>5. ~(IsRunning(k0) /\ running[k0].n = b.n)
      BY <1>2, <2>1, <3>1
    <3>6. <<"end", b.n>> \in gone
      BY <3>3, <3>4, <3>5 DEF EndSeen
    <3> QED BY <3>2, <3>6
  <2> HIDE DEF d, b
  <2>8. s \in Span
    BY <1>2, <2>1, <2>3, <2>5 DEF Span
  <2>9. SpanTrue(s)
    BY <2>3, <2>6, <2>7 DEF SpanTrue
  <2> QED BY <2>8, <2>9 DEF f, b
<1> QED BY <1>5, <1>6

LEMMA TrDeliverEnd ==
    ASSUME TrInv, Deliver, Head(wire).kind = "end" PROVE TrInv'
<1>1. TrTypes /\ Sequential /\ Timed /\ Accounted /\ ShownTrue
  BY DEF TrInv
<1> DEFINE f == wire[1]
<1>2. wire # <<>> /\ wire' = Tail(wire) /\ Head(wire) = f /\ f.kind = "end"
  BY <1>1, TrTail DEF Deliver
<1>3. PICK k0 \in Keys : k0 = f.key /\ OfKey(f, k0)
  BY <1>1, <1>2, TrTail, TrFrames DEF OfKey
<1>4. /\ UNCHANGED <<now, running, made, gone>>
      /\ spans' = Pruned(Append(spans, Closed(openSpans[k0], f)))
      /\ openSpans' = [openSpans EXCEPT ![k0] = NONE]
  BY <1>2, <1>3 DEF Deliver, beginTraceSpan, endTraceSpan, decodeMark, LeftOpen
<1>5. /\ wire' \in Seq(TrFrame) /\ 1 \in DOMAIN wire
      /\ \A i \in DOMAIN wire' : i + 1 \in DOMAIN wire /\ wire'[i] = wire[i + 1]
      /\ \A j \in DOMAIN wire : j # 1 => \E i \in DOMAIN wire' : wire'[i] = wire[j]
  BY <1>1, <1>2, TrTail
<1>6. /\ f.n \in Nat
      /\ \A i \in DOMAIN wire' : OfKey(wire'[i], k0) => wire'[i].n \in Nat /\ f.n < wire'[i].n
      /\ IsOpen(k0) => openSpans[k0].n \in Nat /\ openSpans[k0].n <= f.n
      /\ IsRunning(k0) => running[k0].n \in Nat /\ f.n < running[k0].n
  <2>1. /\ f.n \in Nat
        /\ \A i \in DOMAIN wire' : OfKey(wire'[i], k0) => wire'[i].n \in Nat /\ f.n < wire'[i].n
        /\ IsOpen(k0) => openSpans[k0].n \in Nat /\ AfterBegin(f, openSpans[k0].n)
        /\ IsRunning(k0) => running[k0].n \in Nat /\ f.n < running[k0].n
    BY <1>2, <1>3, TrFirst
  <2> QED BY <2>1 DEF AfterBegin
<1>7. Closed(openSpans[k0], f) \in Span /\ SpanTrue(Closed(openSpans[k0], f))
  BY <1>2, <1>3, ClosedTrue
<1> DEFINE s == Closed(openSpans[k0], f)
<1> HIDE DEF f, s
<1>8. openSpans \in [Keys -> Opened \cup {NONE}]
  BY <1>1 DEF TrTypes
<1>9. /\ \A k \in Keys : IsRunning(k)' <=> IsRunning(k)
      /\ \A k \in Keys : IsOpen(k)' => k # k0
      /\ \A k \in Keys : k # k0 => openSpans'[k] = openSpans[k] /\ (IsOpen(k)' <=> IsOpen(k))
  BY <1>3, <1>4, <1>8 DEF IsRunning, IsOpen
<1>10. /\ Append(spans, s) \in Seq(Span)
       /\ \A i \in DOMAIN Append(spans, s) :
             Append(spans, s)[i] = s \/ (i \in DOMAIN spans /\ Append(spans, s)[i] = spans[i])
  <2>1. spans \in Seq(Span) /\ s \in Span
    BY <1>1, <1>7 DEF TrTypes, s
  <2>2. /\ Append(spans, s) \in Seq(Span) /\ Len(Append(spans, s)) = Len(spans) + 1
        /\ \A i \in 1 .. Len(spans) : Append(spans, s)[i] = spans[i]
        /\ Append(spans, s)[Len(spans) + 1] = s /\ Len(spans) \in Nat /\ DOMAIN spans = 1 .. Len(spans)
    BY <2>1, AppendProperties, LenProperties
  <2>3. DOMAIN Append(spans, s) = 1 .. Len(spans) + 1
    BY <2>2, LenProperties
  <2>4. \A i \in 1 .. Len(spans) + 1 : i \in 1 .. Len(spans) \/ i = Len(spans) + 1
    BY <2>2
  <2> DEFINE longer == Append(spans, s)
  <2>5. /\ DOMAIN longer = 1 .. Len(spans) + 1
        /\ \A i \in 1 .. Len(spans) : longer[i] = spans[i]
        /\ longer[Len(spans) + 1] = s
    BY <2>2, <2>3
  <2> HIDE DEF longer
  <2>6. \A i \in DOMAIN longer : longer[i] = s \/ (i \in DOMAIN spans /\ longer[i] = spans[i])
    BY <2>2, <2>4, <2>5
  <2> QED BY <2>2, <2>6 DEF longer
<1>11. spans' = Pruned(Append(spans, s))
  BY <1>4 DEF s
<1> DEFINE list == Append(spans, s)
<1>12. list \in Seq(Span) /\ spans' = Pruned(list)
  BY <1>10, <1>11
<1> HIDE DEF list
<1>13. spans' \in Seq(Span) /\ \A i \in DOMAIN spans' : \E j \in DOMAIN list : spans'[i] = list[j]
  BY <1>12, PrunedFacts
<1>14. TrTypes'
  BY <1>1, <1>4, <1>5, <1>8, <1>13 DEF TrTypes
<1>15. Sequential' /\ Timed'
  <2>1. /\ LineInOrder' /\ LineTimed'
        /\ \A k \in Keys : openSpans'[k] = openSpans[k] => OpenInOrder(k)' /\ OpenTimed(k)'
    BY <1>1, <1>2, <1>4, TrTailKeeps
  <2>2. \A k \in Keys : ~IsOpen(k)' => OpenInOrder(k)' /\ OpenTimed(k)'
    BY DEF OpenInOrder, OpenTimed
  <2>3. \A k \in Keys : OpenInOrder(k)' /\ OpenTimed(k)'
    BY <1>9, <2>1, <2>2
  <2> QED BY <2>1, <2>3, TrPartsNext
(* Neither the begin that is closed nor the end that closes is missed.     *)
<1>16. \A k \in Keys, n \in Nat : BeginSeen(k, n) => BeginSeen(k, n)' \/ (k = k0 /\ IsOpen(k0) /\ n = openSpans[k0].n)
  <2> SUFFICES ASSUME NEW k \in Keys, NEW n \in Nat, BeginSeen(k, n),
                      ~(k = k0 /\ IsOpen(k0) /\ n = openSpans[k0].n)
               PROVE  BeginSeen(k, n)'
    OBVIOUS
  <2>1. CASE IsOpen(k) /\ openSpans[k].n = n
    BY <1>9, <2>1 DEF BeginSeen
  <2>2. CASE \E j \in DOMAIN wire : OfKey(wire[j], k) /\ wire[j].kind = "begin" /\ wire[j].n = n
    BY <1>2, <1>5, <2>2 DEF BeginSeen, f
  <2>3. CASE <<"begin", n>> \in gone
    BY <1>4, <2>3 DEF BeginSeen
  <2> QED BY <2>1, <2>2, <2>3 DEF BeginSeen
<1>17. \A k \in Keys, n \in Nat : EndSeen(k, n) => EndSeen(k, n)' \/ (k = k0 /\ n = f.n)
  <2> SUFFICES ASSUME NEW k \in Keys, NEW n \in Nat, EndSeen(k, n), ~(k = k0 /\ n = f.n)
               PROVE  EndSeen(k, n)'
    OBVIOUS
  <2>1. CASE IsRunning(k) /\ running[k].n = n
    BY <1>4, <1>9, <2>1 DEF EndSeen
  <2>2. CASE \E j \in DOMAIN wire : OfKey(wire[j], k) /\ wire[j].kind = "end" /\ wire[j].n = n
    <3>1. PICK j \in DOMAIN wire : OfKey(wire[j], k) /\ wire[j].kind = "end" /\ wire[j].n = n
      BY <2>2
    <3>2. j # 1
      BY <1>3, <3>1 DEF OfKey, f
    <3> QED BY <1>5, <3>1, <3>2 DEF EndSeen
  <2>3. CASE <<"end", n>> \in gone
    BY <1>4, <2>3 DEF EndSeen
  <2> QED BY <2>1, <2>2, <2>3 DEF EndSeen
<1>18. Accounted'
  <2>1. \A k \in Keys, n \in Nat : IsRunning(k)' /\ n = running'[k].n => BeginSeen(k, n)'
    BY <1>1, <1>4, <1>6, <1>9, <1>16 DEF Accounted
  <2>2. \A k \in Keys, i \in DOMAIN wire', n \in Nat :
          OfKey(wire'[i], k) /\ wire'[i].kind = "end" /\ n = wire'[i].n => BeginSeen(k, n)'
    BY <1>1, <1>5, <1>6, <1>16 DEF Accounted
  <2>3. \A k \in Keys, i \in DOMAIN wire', n \in Nat :
          OfKey(wire'[i], k) /\ wire'[i].kind = "begin" /\ n = wire'[i].n => EndSeen(k, n)'
    BY <1>1, <1>5, <1>6, <1>17 DEF Accounted
  <2>4. \A k \in Keys, n \in Nat : IsOpen(k)' /\ n = openSpans'[k].n => EndSeen(k, n)'
    BY <1>1, <1>9, <1>17 DEF Accounted
  <2> QED BY <1>14, <2>1, <2>2, <2>3, <2>4, TrSeen
<1>19. ShownTrue'
  <2>1. \A j \in DOMAIN list : SpanTrue(list[j])
    BY <1>1, <1>7, <1>10 DEF ShownTrue, list, s
  <2>2. \A i \in DOMAIN spans' : SpanTrue(spans'[i])
    BY <1>13, <2>1
  <2> QED BY <1>4, <2>2 DEF ShownTrue, SpanTrue
<1> QED BY <1>14, <1>15, <1>18, <1>19 DEF TrInv

(* What is known of the frames and spans of each key is kept, whatever is  *)
(* lost, cleared or cut.                                                   *)
THEOREM TraceInvariant ==
    SpecTrace => []TrInv
<1>1. InitTrace => TrInv
  BY TrInit
<1>2. TrInv /\ [NextTrace]_traceVars => TrInv'
  <2> SUFFICES ASSUME TrInv, [NextTrace]_traceVars PROVE TrInv' OBVIOUS
  <2>1. CASE Tick
    BY <2>1, TrTick
  <2>2. CASE BeginSpan
    BY <2>2, TrBegin
  <2>3. CASE EndSpan
    BY <2>3, TrEnd
  <2>4. CASE Mark
    BY <2>4, TrMark
  <2>5. CASE Lose
    BY <2>5, TrLose
  <2>6. CASE Deliver
    <3>1. Head(wire).kind \in {"begin", "end", "mark"}
      BY <2>6 DEF Deliver
    <3> QED BY <2>6, <3>1, TrDeliverBegin, TrDeliverEnd, TrDeliverMark
  <2>7. CASE clearAllSpans
    BY <2>7, TrClear
  <2>8. CASE UNCHANGED traceVars
    BY <2>8 DEF traceVars, TrInv, TrTypes, Sequential, Timed, Accounted, ShownTrue, SpanTrue,
                BeginSeen, EndSeen, IsOpen, IsRunning
  <2> QED BY <2>1, <2>2, <2>3, <2>4, <2>5, <2>6, <2>7, <2>8 DEF NextTrace
<1> QED BY <1>1, <1>2, PTL DEF SpecTrace

(* A span of the timeline is one of the device with the ticks it took, for *)
(* every modulus of the time stamps; it joins two spans, or is an orphan,  *)
(* only if the frames that would have told are gone (beginTraceSpan and    *)
(* endTraceSpan of app.js).                                                *)
THEOREM SpansAreTrue ==
    SpecTrace => []SpansTrue
<1>1. TrInv => SpansTrue
  <2> SUFFICES ASSUME TrInv PROVE SpansTrue OBVIOUS
  <2>1. \A i \in DOMAIN spans : spans[i] \in Span /\ SpanTrue(spans[i])
    BY ElementOfSeq, LenProperties DEF TrInv, TrTypes, ShownTrue
  <2>2. ASSUME NEW i \in DOMAIN spans
        PROVE  LET s == spans[i]
               IN CASE s.orphan -> <<"begin", s.ended>> \in gone
                    [] ~s.orphan /\ s.began = s.ended -> s.duration = s.to - s.from
                    [] ~s.orphan /\ s.began # s.ended ->
                           {<<"end", s.began>>, <<"begin", s.ended>>} \subseteq gone
    <3> DEFINE s == spans[i]
    <3>1. s.orphan \in BOOLEAN /\ SpanTrue(s)
      BY <2>1 DEF Span
    <3> HIDE DEF s
    <3>2. CASE s.orphan
      BY <3>1, <3>2 DEF SpanTrue, s
    <3>3. CASE ~s.orphan /\ s.began = s.ended
      BY <3>1, <3>3 DEF SpanTrue, s
    <3>4. CASE ~s.orphan /\ s.began # s.ended
      BY <3>1, <3>4 DEF SpanTrue, s
    <3> QED BY <3>2, <3>3, <3>4
  <2>3. ASSUME NEW k \in Keys, openSpans[k] # NONE
        PROVE  \/ running[k] # NONE /\ running[k].n = openSpans[k].n
               \/ \E i \in DOMAIN wire : wire[i].kind = "end" /\ wire[i].n = openSpans[k].n
               \/ <<"end", openSpans[k].n>> \in gone
    BY <2>3 DEF TrInv, Accounted, EndSeen, IsOpen, IsRunning
  <2> QED BY <2>2, <2>3 DEF SpansTrue
<1> QED BY <1>1, TraceInvariant, PTL

(* The timeline: everything held has the time stamp of its time.           *)
MarkSet == [timestamp : Nat, at : Nat]

SpanStamped(s) ==
    IF s.orphan THEN s.endTimestamp = s.to % PERIOD
    ELSE s.from \in Nat /\ s.startTimestamp = s.from % PERIOD

Stamped ==
    /\ marks \in Seq(MarkSet)
    /\ \A i \in DOMAIN marks : marks[i].timestamp = marks[i].at % PERIOD
    /\ \A i \in DOMAIN spans : SpanStamped(spans[i])

LEMMA StampedNext ==
    ASSUME TrInv, Stamped, [NextTrace]_traceVars
    PROVE  Stamped'
<1>1. CASE UNCHANGED <<spans, marks>>
  BY <1>1 DEF Stamped, SpanStamped
<1>2. CASE clearAllSpans
  <2>1. marks' = <<>> /\ spans' = <<>>
    BY <1>2 DEF clearAllSpans
  <2>2. marks' \in Seq(MarkSet) /\ DOMAIN marks' = {} /\ DOMAIN spans' = {}
    BY <2>1, EmptySeq
  <2> QED BY <2>2 DEF Stamped
<1>3. CASE Deliver
  <2> DEFINE f == wire[1]
  <2>1. /\ wire # <<>> /\ wire' = Tail(wire) /\ Head(wire) = f /\ TrTypes
        /\ f.kind \in {"begin", "end", "mark"} /\ f.key \in Keys
        /\ f.timestamp \in Nat /\ f.at \in Nat /\ f.timestamp = f.at % PERIOD
    BY <1>3, TrTail, TrFrames DEF Deliver, TrInv, Timed
  <2>2. CASE f.kind = "begin"
    BY <1>1, <1>3, <2>1, <2>2 DEF Deliver, beginTraceSpan
  <2>3. CASE f.kind = "mark"
    <3> DEFINE m == [timestamp |-> f.timestamp, at |-> f.at]
               list == Append(marks, m)
    <3>1. spans' = spans /\ marks' = Pruned(list)
      BY <1>3, <2>1, <2>3 DEF Deliver, decodeMark
    <3>2. m \in MarkSet /\ m.timestamp = m.at % PERIOD /\ marks \in Seq(MarkSet)
      BY <2>1 DEF MarkSet, Stamped
    <3> HIDE DEF m
    <3>3. list \in Seq(MarkSet) /\ \A i \in DOMAIN list : list[i] = m \/ (i \in DOMAIN marks /\ list[i] = marks[i])
      <4>1. /\ list \in Seq(MarkSet) /\ Len(list) = Len(marks) + 1
            /\ \A i \in 1 .. Len(marks) : list[i] = marks[i]
            /\ list[Len(marks) + 1] = m
        BY <3>2, AppendProperties
      <4>2. Len(marks) \in Nat /\ DOMAIN marks = 1 .. Len(marks) /\ DOMAIN list = 1 .. Len(list)
        BY <3>2, <4>1, LenProperties
      <4> HIDE DEF list
      <4> QED BY <4>1, <4>2
    <3> HIDE DEF list
    <3>4. \A i \in DOMAIN list : list[i].timestamp = list[i].at % PERIOD
      BY <3>2, <3>3 DEF Stamped
    <3>5. marks' \in Seq(MarkSet) /\ \A i \in DOMAIN marks' : \E j \in DOMAIN list : marks'[i] = list[j]
      BY <3>1, <3>3, PrunedFacts
    <3> QED BY <3>1, <3>4, <3>5 DEF Stamped, SpanStamped
  <2>4. CASE f.kind = "end"
    <3> DEFINE s == Closed(openSpans[f.key], f)
               list == Append(spans, s)
    <3>1. marks' = marks /\ spans' = Pruned(list)
      BY <1>3, <2>1, <2>4 DEF Deliver, endTraceSpan
    <3>2. s \in Span /\ spans \in Seq(Span)
      BY <2>1, <2>4, ClosedTrue DEF OfKey, TrTypes
    <3>3. SpanStamped(s)
      <4>1. IsOpen(f.key) => openSpans[f.key].at \in Nat /\ openSpans[f.key].startTimestamp = openSpans[f.key].at % PERIOD
        BY <2>1 DEF TrTypes, TrInv, Timed, IsOpen, Opened
      <4>2. CASE openSpans[f.key] = NONE
        BY <2>1, <4>2 DEF Closed, SpanStamped
      <4>3. CASE openSpans[f.key] # NONE
        BY <2>1, <4>1, <4>3 DEF Closed, SpanStamped, IsOpen
      <4> QED BY <4>2, <4>3
    <3> HIDE DEF s
    <3>4. list \in Seq(Span) /\ \A i \in DOMAIN list : list[i] = s \/ (i \in DOMAIN spans /\ list[i] = spans[i])
      <4>1. /\ list \in Seq(Span) /\ Len(list) = Len(spans) + 1
            /\ \A i \in 1 .. Len(spans) : list[i] = spans[i]
            /\ list[Len(spans) + 1] = s
        BY <3>2, AppendProperties
      <4>2. Len(spans) \in Nat /\ DOMAIN spans = 1 .. Len(spans) /\ DOMAIN list = 1 .. Len(list)
        BY <3>2, <4>1, LenProperties
      <4> HIDE DEF list
      <4> QED BY <4>1, <4>2
    <3> HIDE DEF list
    <3>5. \A i \in DOMAIN list : SpanStamped(list[i])
      BY <3>3, <3>4 DEF Stamped
    <3>6. spans' \in Seq(Span) /\ \A i \in DOMAIN spans' : \E j \in DOMAIN list : spans'[i] = list[j]
      BY <3>1, <3>4, PrunedFacts
    <3>7. \A i \in DOMAIN spans' : SpanStamped(spans'[i])
      BY <3>5, <3>6
    <3> QED BY <3>1, <3>7 DEF Stamped, SpanStamped
  <2> QED BY <2>1, <2>2, <2>3, <2>4
<1> QED BY <1>1, <1>2, <1>3 DEF NextTrace, Tick, BeginSpan, EndSpan, Mark, Lose, traceVars

(* The instance has the operators of FiniteSets under names of its own.    *)
LEMMA TrFiniteSets ==
    ASSUME NEW S
    PROVE  (IsFiniteSet(S) <=> IsFiniteSet(S)) /\ Cardinality(S) = Cardinality(S)
<1>1. IsFiniteSet(S) <=> IsFiniteSet(S)
  BY DEF IsFiniteSet, IsFiniteSet
<1>2. Cardinality(S) = Cardinality(S)
  BY DEF Cardinality, Cardinality
<1> QED BY <1>1, <1>2

(* A function on the first n numbers is a sequence.                        *)
LEMMA MadeSeq ==
    ASSUME NEW S, NEW n \in Nat, NEW f \in [1 .. n -> S]
    PROVE  f \in Seq(S) /\ Len(f) = n /\ DOMAIN f = 1 .. n
  OBVIOUS

(* SetToSeq names every element of a finite set.                           *)
LEMMA SetToSeqFacts ==
    ASSUME NEW S, IsFiniteSet(S)
    PROVE  /\ SetToSeq(S) \in Seq(S)
           /\ \A x \in S : \E i \in 1 .. Len(SetToSeq(S)) : SetToSeq(S)[i] = x
<1> DEFINE n == Cardinality(S)
           F == [1 .. n -> S]
           s == SetToSeq(S)
<1>1. n \in Nat /\ ExistsBijection(1 .. n, S)
  BY FS_CardinalityType
<1>2. \E f \in F : IsInjective(f)
  BY <1>1 DEF ExistsBijection, Bijection, Injection, IsInjective, IsInjective
<1>3. s = CHOOSE f \in F : IsInjective(f)
  BY TrFiniteSets DEF SetToSeq
<1>4. s \in F /\ IsInjective(s)
  <2> HIDE DEF F, s
  <2> QED BY <1>2, <1>3
<1>5. s \in Seq(S) /\ Len(s) = n
  <2> HIDE DEF n, s
  <2> QED BY <1>1, <1>4, MadeSeq DEF F
<1>6. s \in Surjection(1 .. n, S)
  <2>1. s \in Injection(1 .. n, S)
    BY <1>4 DEF Injection, IsInjective, IsInjective
  <2>2. IsFiniteSet(1 .. n) /\ Cardinality(1 .. n) = n
    BY <1>1, FS_Interval
  <2> HIDE DEF s
  <2>3. Cardinality(1 .. n) = Cardinality(S) <=> s \in Surjection(1 .. n, S)
    BY <2>1, FS_Injection
  <2> QED BY <2>2, <2>3
<1>7. \A x \in S : \E i \in 1 .. n : s[i] = x
  BY <1>6 DEF Surjection
<1> QED BY <1>5, <1>7

(* The elements of one finite set and then those of another.               *)
LEMMA InTurn ==
    ASSUME NEW S, IsFiniteSet(S), NEW a \in SUBSET S, NEW b \in SUBSET S
    PROVE  LET s == SetToSeq(a) \o SetToSeq(b)
               m == Len(SetToSeq(a))
           IN /\ s \in Seq(S) /\ m \in Nat /\ m <= Len(s)
              /\ \A i \in 1 .. m : s[i] \in a
              /\ \A i \in m + 1 .. Len(s) : s[i] \in b
              /\ \A x \in a : \E i \in 1 .. m : s[i] = x
<1> DEFINE p == SetToSeq(a)
           q == SetToSeq(b)
<1>1. /\ p \in Seq(a) /\ q \in Seq(b)
      /\ \A x \in a : \E i \in 1 .. Len(p) : p[i] = x
  <2>1. IsFiniteSet(a) /\ IsFiniteSet(b)
    BY FS_Subset
  <2> QED BY <2>1, SetToSeqFacts
<1> HIDE DEF p, q
<1>2. p \in Seq(S) /\ q \in Seq(S)
  BY <1>1, SeqMonotonic
<1>3. /\ Len(p) \in Nat /\ Len(q) \in Nat
      /\ \A i \in 1 .. Len(p) : p[i] \in a
      /\ \A i \in 1 .. Len(q) : q[i] \in b
  BY <1>1, LenProperties, ElementOfSeq
<1> DEFINE s == p \o q
<1>4. /\ s \in Seq(S) /\ Len(s) = Len(p) + Len(q)
      /\ \A i \in 1 .. Len(p) + Len(q) : s[i] = IF i <= Len(p) THEN p[i] ELSE q[i - Len(p)]
  BY <1>2, ConcatProperties
<1> HIDE DEF s
<1>5. \A i \in 1 .. Len(p) : s[i] = p[i]
  BY <1>3, <1>4
<1>6. ASSUME NEW i \in Len(p) + 1 .. Len(s) PROVE s[i] \in b
  <2>1. i \in 1 .. Len(p) + Len(q) /\ ~(i <= Len(p)) /\ i - Len(p) \in 1 .. Len(q)
    BY <1>3, <1>4
  <2> QED BY <1>3, <1>4, <2>1
<1>7. ASSUME NEW x \in a PROVE \E i \in 1 .. Len(p) : s[i] = x
  <2>1. PICK i \in 1 .. Len(p) : p[i] = x
    BY <1>1
  <2> QED BY <1>5, <2>1
<1>8. Len(p) <= Len(s)
  BY <1>3, <1>4
<1>9. /\ s \in Seq(S) /\ Len(p) \in Nat /\ Len(p) <= Len(s)
      /\ \A i \in 1 .. Len(p) : s[i] \in a
      /\ \A i \in Len(p) + 1 .. Len(s) : s[i] \in b
      /\ \A x \in a : \E i \in 1 .. Len(p) : s[i] = x
  BY <1>3, <1>4, <1>5, <1>6, <1>7, <1>8
<1> QED BY <1>9 DEF p, q, s

TimeItem == [time : Nat, at : Nat]

LEMMA ItemsStamped ==
    ASSUME TrInv, Stamped
    PROVE  /\ buildTraceItems \in Seq(TimeItem)
           /\ \A i \in DOMAIN buildTraceItems :
                 buildTraceItems[i].time = buildTraceItems[i].at % PERIOD
<1> DEFINE Good == {x \in TimeItem : x.time = x.at % PERIOD}
           opened == SetToSeq({openSpans[k] : k \in Keys} \ {NONE})
           a == [i \in DOMAIN spans |->
                    IF spans[i].orphan THEN [time |-> spans[i].endTimestamp, at |-> spans[i].to]
                    ELSE [time |-> spans[i].startTimestamp, at |-> spans[i].from]]
           b == [i \in DOMAIN opened |-> [time |-> opened[i].startTimestamp, at |-> opened[i].at]]
           c == [i \in DOMAIN marks |-> [time |-> marks[i].timestamp, at |-> marks[i].at]]
<1>0. PERIOD \in Nat \ {0} /\ \A n \in Nat : n % PERIOD \in Nat
  BY ModDef, TraceAssumption
<1>1. a \in Seq(Good)
  <2>1. DOMAIN spans = 1 .. Len(spans) /\ Len(spans) \in Nat /\ \A i \in DOMAIN spans : spans[i] \in Span
    BY LenProperties, ElementOfSeq DEF TrInv, TrTypes
  <2>2. ASSUME NEW i \in DOMAIN spans PROVE a[i] \in Good
    <3> DEFINE s == spans[i]
    <3>1. s \in Span /\ SpanStamped(s) /\ s.orphan \in BOOLEAN /\ s.to \in Nat
      BY <2>1 DEF Stamped, Span
    <3>2. a[i] = IF s.orphan THEN [time |-> s.endTimestamp, at |-> s.to]
                 ELSE [time |-> s.startTimestamp, at |-> s.from]
      OBVIOUS
    <3> HIDE DEF s, a
    <3> QED BY <1>0, <3>1, <3>2 DEF SpanStamped, TimeItem
  <2>3. a \in [1 .. Len(spans) -> Good]
    BY <2>1, <2>2
  <2> QED BY <2>1, <2>3, SeqDef
<1>2. b \in Seq(Good)
  <2> DEFINE O == {openSpans[k] : k \in Keys} \ {NONE}
  <2>1. IsFiniteSet(O)
    <3>1. openSpans \in [Keys -> Opened \cup {NONE}] /\ IsFiniteSet(Keys)
      BY TrFiniteSets, TraceAssumption DEF TrInv, TrTypes
    <3> DEFINE R == {openSpans[k] : k \in Keys}
    <3>2. openSpans \in Surjection(Keys, R)
      BY <3>1 DEF Surjection
    <3>3. IsFiniteSet(R)
      BY <3>1, <3>2, FS_Surjection
    <3> HIDE DEF R
    <3>4. R \ {NONE} \in SUBSET R
      OBVIOUS
    <3> QED BY <3>3, <3>4, FS_Subset DEF R
  <2>2. \A o \in O : o.startTimestamp \in Nat /\ o.at \in Nat /\ o.startTimestamp = o.at % PERIOD
    BY DEF TrInv, TrTypes, Timed, IsOpen, Opened
  <2> HIDE DEF O
  <2>3. opened \in Seq(O)
    BY <2>1, SetToSeqFacts DEF O
  <2> HIDE DEF opened
  <2>4. DOMAIN opened = 1 .. Len(opened) /\ Len(opened) \in Nat /\ \A i \in DOMAIN opened : opened[i] \in O
    BY <2>3, LenProperties, ElementOfSeq
  <2>5. b \in [1 .. Len(opened) -> Good]
    BY <2>2, <2>4 DEF TimeItem
  <2> QED BY <2>4, <2>5, SeqDef
<1>3. c \in Seq(Good)
  <2>1. DOMAIN marks = 1 .. Len(marks) /\ Len(marks) \in Nat /\ \A i \in DOMAIN marks : marks[i] \in MarkSet
    BY LenProperties, ElementOfSeq DEF Stamped
  <2>2. c \in [1 .. Len(marks) -> Good]
    BY <2>1 DEF TimeItem, MarkSet, Stamped
  <2> QED BY <2>1, <2>2, SeqDef
<1>4. buildTraceItems = a \o b \o c
  BY DEF buildTraceItems
<1> HIDE DEF a, b, c
<1>5. buildTraceItems \in Seq(Good)
  <2> HIDE DEF Good
  <2>1. a \o b \in Seq(Good)
    BY <1>1, <1>2, ConcatProperties
  <2> QED BY <1>3, <1>4, <2>1, ConcatProperties
<1> DEFINE items == buildTraceItems
<1> HIDE DEF items
<1>6. /\ items \in Seq(Good) /\ DOMAIN items = 1 .. Len(items) /\ Len(items) \in Nat
      /\ \A i \in DOMAIN items : items[i] \in Good
  BY <1>5, LenProperties, ElementOfSeq DEF items
<1>7. items \in [1 .. Len(items) -> TimeItem]
  <2>1. items \in [1 .. Len(items) -> Good]
    BY <1>6, LenProperties
  <2> QED BY <2>1
<1>8. items \in Seq(TimeItem)
  BY <1>6, <1>7, SeqDef
<1> QED BY <1>6, <1>8 DEF items

(* Of items that have times, all but the last by time are left out, and    *)
(* none if there are few.                                                  *)
LEMMA DrawnFacts ==
    ASSUME NEW items \in Seq(TimeItem)
    PROVE  /\ \A i \in Drawn(items), j \in DOMAIN items \ Drawn(items) : items[j].time <= items[i].time
           /\ Drawn(items) # DOMAIN items => Cardinality(Drawn(items)) = RENDER_ITEMS
           /\ Drawn(items) \subseteq DOMAIN items
<1> DEFINE D == DOMAIN items
           Above(i) == {j \in D : Later(items, j, i)}
           Rank(i) == Cardinality(Above(i))
           drawn == Drawn(items)
<1>1. /\ D \subseteq Nat /\ IsFiniteSet(D) /\ \A i \in D : items[i].time \in Nat
      /\ RENDER_ITEMS \in Nat \ {0}
  <2>1. D = 1 .. Len(items) /\ Len(items) \in Nat /\ \A i \in D : items[i] \in TimeItem
    BY LenProperties, ElementOfSeq
  <2>2. IsFiniteSet(1 .. Len(items))
    BY <2>1, FS_Interval
  <2> QED BY <2>1, <2>2, TraceAssumption DEF TimeItem
<1>2. /\ \A i, j \in D : i = j \/ Later(items, i, j) \/ Later(items, j, i)
      /\ \A i \in D : ~Later(items, i, i)
      /\ \A i, j, k \in D : Later(items, k, j) /\ Later(items, j, i) => Later(items, k, i)
      /\ \A i, j \in D : Later(items, j, i) => items[i].time <= items[j].time
  BY <1>1 DEF Later
<1>3. drawn = {i \in D : Rank(i) < RENDER_ITEMS}
  BY TrFiniteSets DEF Drawn
<1> HIDE DEF D, drawn
<1>4. \A i \in D : Above(i) \in SUBSET D /\ IsFiniteSet(Above(i)) /\ Rank(i) \in Nat
  BY <1>1, FS_Subset, FS_CardinalityType
(* A later item has fewer later ones.                                      *)
<1>5. ASSUME NEW i \in D, NEW j \in D, Later(items, j, i) PROVE Rank(j) < Rank(i)
  <2> DEFINE A == Above(i)
             B == Above(j)
  <2>1. B \subseteq A /\ j \in A /\ j \notin B
    BY <1>2, <1>5
  <2>2. IsFiniteSet(A) /\ IsFiniteSet(B) /\ Cardinality(A) \in Nat /\ Cardinality(B) \in Nat
    BY <1>4
  <2> HIDE DEF A, B
  <2>3. Cardinality(B) <= Cardinality(A) /\ Cardinality(B) # Cardinality(A)
    BY <2>1, <2>2, FS_Subset
  <2> QED BY <2>2, <2>3 DEF A, B
<1>10. \A i \in D : Rank(i) \in Nat /\ Rank(i) = Cardinality(Above(i))
  BY <1>4
<1> HIDE DEF Rank, Above
<1>6. ASSUME NEW i \in drawn, NEW j \in D \ drawn PROVE i \in D /\ Later(items, i, j)
  <2>1. i \in D /\ Rank(i) < RENDER_ITEMS /\ ~(Rank(j) < RENDER_ITEMS)
    BY <1>3
  <2>2. ~Later(items, j, i)
    BY <1>1, <1>10, <1>5, <2>1
  <2> QED BY <1>2, <2>1, <2>2
<1>7. ASSUME drawn # D PROVE Cardinality(drawn) = RENDER_ITEMS
  <2>1. drawn \subseteq D /\ D \ drawn # {}
    BY <1>3, <1>7
  <2> DEFINE T == {Rank(k) : k \in D \ drawn}
  <2>2. T \in SUBSET Nat /\ T # {}
    BY <1>10, <2>1
  <2>3. PICK m \in D \ drawn : \A k \in D \ drawn : Rank(m) <= Rank(k)
    <3>1. PICK x \in T : \A y \in T : x <= y
      BY <2>2, LeastNumber
    <3> QED BY <3>1
(* What is drawn is what is later than the latest item that is not.        *)
  <2>4. drawn = Above(m)
    <3>1. drawn \subseteq Above(m)
      BY <1>6, <2>3 DEF Above
    <3>2. ASSUME NEW k \in Above(m) PROVE k \in drawn
      <4>1. k \in D /\ Later(items, k, m)
        BY <3>2 DEF Above
      <4>2. Rank(k) < Rank(m)
        BY <1>5, <4>1
      <4>3. Rank(k) \in Nat /\ Rank(m) \in Nat
        BY <1>10, <2>3, <4>1
      <4> QED BY <2>3, <4>1, <4>2, <4>3
    <3> QED BY <3>1, <3>2
  <2>5. Cardinality(drawn) = Rank(m) /\ Rank(m) \in Nat /\ Rank(m) >= RENDER_ITEMS /\ IsFiniteSet(drawn)
    <3>1. m \in D /\ ~(Rank(m) < RENDER_ITEMS)
      BY <1>3, <2>3
    <3> QED BY <1>1, <1>4, <1>10, <2>4, <3>1
  <2>6. drawn # {}
    <3> SUFFICES ASSUME drawn = {} PROVE FALSE
      OBVIOUS
    <3>1. Cardinality(drawn) = 0
      BY FS_EmptySet
    <3> QED BY <1>1, <2>5, <3>1
  <2> DEFINE U == {RENDER_ITEMS - Rank(k) : k \in drawn}
  <2>7. U \in SUBSET Nat /\ U # {}
    <3>1. \A k \in drawn : Rank(k) \in Nat /\ Rank(k) < RENDER_ITEMS
      BY <1>3, <1>10
    <3> QED BY <1>1, <2>6, <3>1
  <2>8. PICK l \in drawn : \A k \in drawn : Rank(k) <= Rank(l)
    <3>1. PICK x \in U : \A y \in U : x <= y
      BY <2>7, LeastNumber
    <3>2. PICK l \in drawn : x = RENDER_ITEMS - Rank(l)
      BY <3>1
    <3>3. \A k \in drawn : Rank(k) \in Nat
      BY <1>3, <1>10
    <3>4. ASSUME NEW k \in drawn PROVE Rank(k) <= Rank(l)
      <4>1. x <= RENDER_ITEMS - Rank(k)
        BY <3>1
      <4> QED BY <1>1, <3>2, <3>3, <4>1
    <3> QED BY <3>4
  <2>9. l \in D /\ Rank(l) \in Nat /\ Rank(l) < RENDER_ITEMS
    BY <1>3, <1>10
  <2>10. drawn \subseteq Above(l) \cup {l}
    <3> SUFFICES ASSUME NEW k \in drawn, k # l PROVE Later(items, k, l) /\ k \in D
      BY DEF Above
    <3>1. k \in D /\ Rank(k) \in Nat /\ Rank(k) <= Rank(l)
      BY <1>10, <2>1, <2>8
    <3>2. ~Later(items, l, k)
      BY <1>5, <2>9, <3>1
    <3> QED BY <1>2, <2>9, <3>1, <3>2
  <2>11. Cardinality(drawn) <= RENDER_ITEMS
    <3> DEFINE A == Above(l)
    <3>1. IsFiniteSet(A) /\ Cardinality(A) = Rank(l)
      BY <1>4, <1>10, <2>9
    <3>2. drawn \subseteq A \cup {l}
      BY <2>10
    <3> HIDE DEF A
    <3>3. IsFiniteSet(A \cup {l}) /\ Cardinality(A \cup {l}) <= Rank(l) + 1 /\ Cardinality(A \cup {l}) \in Nat
      <4>1. /\ IsFiniteSet(A \cup {l})
            /\ Cardinality(A \cup {l}) = IF l \in A THEN Cardinality(A) ELSE Cardinality(A) + 1
        BY <3>1, FS_AddElement
      <4> QED BY <2>9, <3>1, <4>1
    <3>4. Cardinality(drawn) <= Cardinality(A \cup {l}) /\ Cardinality(drawn) \in Nat
      BY <2>5, <3>2, <3>3, FS_Subset
    <3> QED BY <1>1, <2>9, <3>3, <3>4
  <2> QED BY <1>1, <2>5, <2>11
<1>8. drawn \subseteq D
  BY <1>3
<1>9. \A i \in drawn, j \in D \ drawn : items[j].time <= items[i].time
  BY <1>2, <1>6
<1> QED BY <1>7, <1>8, <1>9 DEF drawn, D

(* As long as all that is held is of one turn of the time stamps, the      *)
(* timeline leaves out what is oldest and nothing else, for every number   *)
(* of items it may draw (buildTraceItems and renderTrace of app.js).       *)
THEOREM TimelineDrawsTheLatest ==
    SpecTrace => []LatestDrawn
<1>1. InitTrace => Stamped
  <2> SUFFICES ASSUME InitTrace PROVE Stamped OBVIOUS
  <2>1. marks = <<>> /\ spans = <<>>
    BY DEF InitTrace
  <2>2. marks \in Seq(MarkSet) /\ DOMAIN marks = {} /\ DOMAIN spans = {}
    BY <2>1, EmptySeq
  <2> QED BY <2>2 DEF Stamped
<1>2. TrInv /\ Stamped /\ [NextTrace]_traceVars => Stamped'
  BY StampedNext
<1>3. TrInv /\ Stamped => LatestDrawn
  <2> SUFFICES ASSUME TrInv, Stamped PROVE LatestDrawn OBVIOUS
  <2> DEFINE items == buildTraceItems
             drawn == Drawn(items)
  <2>1. items \in Seq(TimeItem) /\ \A i \in DOMAIN items : items[i].time = items[i].at % PERIOD
    BY ItemsStamped
  <2>2. \A i \in DOMAIN items : items[i].at \in Nat
    <3>1. \A i \in DOMAIN items : items[i] \in TimeItem
      <4> HIDE DEF items
      <4> QED BY <2>1, LenProperties, ElementOfSeq
    <3> QED BY <3>1 DEF TimeItem
  <2>3. /\ \A i \in drawn, j \in DOMAIN items \ drawn : items[j].time <= items[i].time
        /\ drawn # DOMAIN items => Cardinality(drawn) = RENDER_ITEMS
        /\ drawn \subseteq DOMAIN items
    <3> HIDE DEF items
    <3> QED BY <2>1, DrawnFacts, TrFiniteSets
  <2> HIDE DEF items, drawn
  <2>4. ASSUME \A i, j \in DOMAIN items : items[i].at \div PERIOD = items[j].at \div PERIOD,
               NEW i \in drawn, NEW j \in DOMAIN items \ drawn
        PROVE  items[j].at <= items[i].at
    <3> DEFINE x == items[i].at
               y == items[j].at
               q == PERIOD * (x \div PERIOD)
    <3>1. /\ x \in Nat /\ y \in Nat /\ x \div PERIOD = y \div PERIOD
          /\ y % PERIOD <= x % PERIOD /\ PERIOD \in Nat \ {0}
      BY <2>1, <2>2, <2>3, <2>4, TraceAssumption
    <3> HIDE DEF x, y
    <3>2. /\ x = q + (x % PERIOD) /\ y = q + (y % PERIOD)
          /\ x % PERIOD \in Nat /\ y % PERIOD \in Nat /\ q \in Int
      <4>1. x = (PERIOD * (x \div PERIOD)) + (x % PERIOD) /\ x % PERIOD \in Nat /\ x \div PERIOD \in Int
        BY <3>1, ModDef
      <4>2. y = (PERIOD * (y \div PERIOD)) + (y % PERIOD) /\ y % PERIOD \in Nat
        BY <3>1, ModDef
      <4> QED BY <3>1, <4>1, <4>2
    <3> HIDE DEF q
    <3>3. y <= x
      BY <3>1, <3>2
    <3> QED BY <3>3 DEF x, y
  <2> QED BY <2>3, <2>4 DEF LatestDrawn, items, drawn
<1> QED BY <1>1, <1>2, <1>3, TraceInvariant, PTL DEF SpecTrace

-----------------------------------------------------------------------------
(* The AI debug panel                                                      *)

Offered == Pages \cup {EmptyPage}
Scopes  == {"session", "la_capture"}

(* ui is a record of these fields, whatever they hold.                     *)
UiFields ==
    ui = [epoch |-> ui.epoch, status |-> ui.status, scope |-> ui.scope,
          snapshot |-> ui.snapshot, rules |-> ui.rules, diag |-> ui.diag]

(* What is being built is the snapshot of a page the viewer held.          *)
Built == \A b \in builds : b.snapshot \in {build(p, scope) : p \in Offered, scope \in Scopes}

AiInv ==
    /\ UiFields /\ Built
    /\ page \in Offered /\ ui.scope \in Scopes
    /\ FindingsOfSnapshot

(* A step that leaves the snapshot and the findings of the page alone, or  *)
(* makes it a blank one                                                    *)
Spares(u) ==
    /\ u = [epoch |-> u.epoch, status |-> u.status, scope |-> u.scope,
            snapshot |-> u.snapshot, rules |-> u.rules, diag |-> u.diag]
    /\ u.scope \in Scopes
    /\ \/ u.snapshot = ui.snapshot /\ u.rules = ui.rules
       \/ u.rules = NONE

LEMMA SparesKeeps == AiInv /\ Spares(ui') => (UiFields /\ ui.scope \in Scopes /\ FindingsOfSnapshot)'
BY DEF AiInv, Spares, UiFields, FindingsOfSnapshot

LEMMA AiInit == InitPanel => AiInv
<1> SUFFICES ASSUME InitPanel PROVE AiInv
  OBVIOUS
<1>1. UiFields /\ ui.scope \in Scopes /\ ui.rules = NONE
  BY DEF InitPanel, Blank, UiFields, Scopes
<1> QED
  BY <1>1 DEF InitPanel, AiInv, Built, Offered, FindingsOfSnapshot

(* What a request that did not complete leaves of the page.                *)
LEMMA UnansweredSpares ==
    ASSUME NEW u, Spares(u), NEW status
    PROVE  Spares(Unanswered(u, status)) /\ Unanswered(u, status).diag = NONE
<1> DEFINE v == Unanswered(u, status)
<1>1. v = [u EXCEPT !.status = status, !.diag = NONE]
  BY DEF Unanswered
<1>2. u = [epoch |-> u.epoch, status |-> u.status, scope |-> u.scope,
           snapshot |-> u.snapshot, rules |-> u.rules, diag |-> u.diag]
  BY DEF Spares
<1> HIDE DEF v
<1>3. v = [epoch |-> u.epoch, status |-> status, scope |-> u.scope,
           snapshot |-> u.snapshot, rules |-> u.rules, diag |-> NONE]
  BY <1>1, <1>2
<1>4. v = [epoch |-> v.epoch, status |-> v.status, scope |-> v.scope,
           snapshot |-> v.snapshot, rules |-> v.rules, diag |-> v.diag]
  BY <1>3
<1>5. Spares(v) /\ v.diag = NONE
  BY <1>3, <1>4 DEF Spares
<1> QED BY <1>5 DEF v

(* Analysing sets the findings to those of the snapshot; starting a        *)
(* request does not touch either.                                          *)
LEMMA StartKeeps ==
    ASSUME NEW u, Start(u),
           u = [epoch |-> u.epoch, status |-> u.status, scope |-> u.scope,
                snapshot |-> u.snapshot, rules |-> u.rules, diag |-> u.diag]
    PROVE  /\ UiFields'
           /\ ui'.snapshot = u.snapshot /\ ui'.rules = u.rules /\ ui'.scope = u.scope
           /\ ui'.diag \in {u.diag, NONE}
BY DEF Start, Unanswered, UiFields

(* A build is done: the findings are those of the snapshot, or the rules   *)
(* refuse it, or a clear made it pointless.                                *)
LEMMA AiBuildDone ==
    ASSUME AiInv, BuildDone
    PROVE  AiInv' /\ (ui'.diag # NONE => ui'.diag = ui.diag)
<1>1. PICK b \in builds :
        LET u == Assigned(b)
        IN /\ builds' = builds \ {b} /\ UNCHANGED <<page, consent, clicks>>
           /\ \/ /\ Refused(u)
                 /\ ui' = [u EXCEPT !.status = "local_analyzing"]
              \/ ~Refused(u) /\ ui' = Analysed(u)
              \/ ~Refused(u) /\ Start(Analysed(u))
  BY DEF BuildDone
<1> DEFINE u == Assigned(b)
<1>2. /\ u = [epoch |-> u.epoch, status |-> u.status, scope |-> u.scope,
              snapshot |-> u.snapshot, rules |-> u.rules, diag |-> u.diag]
      /\ u.rules = ui.rules /\ u.scope = ui.scope /\ u.diag = ui.diag
      /\ u.snapshot = b.snapshot \/ u.snapshot = ui.snapshot
  BY DEF AiInv, UiFields, Assigned
<1>3. b.snapshot # NONE
  BY AiDebugAssumption DEF AiInv, Built, Offered, Scopes
<1>4. u.rules # NONE => u.snapshot # NONE /\ (u.snapshot = ui.snapshot => HasDuplicates(u.snapshot) \/ u.rules = evaluate(u.snapshot))
  BY <1>2, <1>3 DEF AiInv, FindingsOfSnapshot
<1>5. Built' /\ page' \in Offered
  BY <1>1 DEF AiInv, Built
<1>6. UiFields' /\ ui'.scope \in Scopes /\ FindingsOfSnapshot' /\ (ui'.diag # NONE => ui'.diag = ui.diag)
  <2> HIDE DEF u
  <2>1. CASE Refused(u) /\ ui' = [u EXCEPT !.status = "local_analyzing"]
    <3>1. UiFields' /\ ui'.snapshot = u.snapshot /\ ui'.rules = u.rules /\ ui'.scope = u.scope /\ ui'.diag = u.diag
      BY <1>2, <2>1 DEF UiFields
    <3>2. u.rules # NONE => HasDuplicates(u.snapshot)
      BY <1>4, <2>1 DEF Refused
    <3> QED BY <1>2, <1>4, <3>1, <3>2 DEF AiInv, FindingsOfSnapshot
  <2>2. ASSUME NEW v, v = Analysed(u), ~Refused(u)
        PROVE  /\ v = [epoch |-> v.epoch, status |-> v.status, scope |-> v.scope,
                       snapshot |-> v.snapshot, rules |-> v.rules, diag |-> v.diag]
               /\ v.scope = ui.scope /\ v.diag = NONE
               /\ v.snapshot # NONE /\ v.rules = evaluate(v.snapshot)
    BY <1>2, <2>2 DEF Analysed, Refused
  <2>3. CASE ~Refused(u) /\ ui' = Analysed(u)
    BY <2>2, <2>3 DEF AiInv, UiFields, FindingsOfSnapshot
  <2>4. CASE ~Refused(u) /\ Start(Analysed(u))
    <3> DEFINE v == Analysed(u)
    <3>1. v = Analysed(u) /\ Start(v)
      BY <2>4
    <3> HIDE DEF v
    <3> QED BY <2>2, <2>4, <3>1, StartKeeps DEF AiInv, FindingsOfSnapshot
  <2> QED BY <1>1, <2>1, <2>3, <2>4 DEF u
<1> QED BY <1>5, <1>6 DEF AiInv

(* Clicks that build a snapshot                                            *)
LEMMA AiBuild ==
    ASSUME AiInv, NEW ask, Build(ask)
    PROVE  AiInv' /\ ui'.diag = ui.diag
<1>1. /\ UNCHANGED page
      /\ builds' = builds \cup {[n |-> clicks, ask |-> ask, epoch |-> ui.epoch,
                                 snapshot |-> build(page, ui.scope)]}
      /\ ui' = [ui EXCEPT !.status = "building_snapshot"]
  BY DEF Build
<1>2. Spares(ui') /\ ui'.diag = ui.diag
  BY <1>1 DEF AiInv, UiFields, Spares
<1>3. Built'
  BY <1>1 DEF AiInv, Built
<1> QED BY <1>1, <1>2, <1>3, SparesKeeps DEF AiInv

(* What leaves the findings alone, or the page blank                       *)
AiRest ==
    \/ ClickAskWithoutConsent \/ ClickAsk \/ ClickCancel
    \/ ProviderAnswers \/ ProviderAnswersBadly \/ ProviderFails \/ TimerFires
    \/ ChangeScope \/ ToggleConsent \/ NewData \/ Clear \/ UNCHANGED panelVars

AiLate == ui'.diag # NONE /\ ui'.diag # ui.diag => ui'.diag.gen = ctl.gen

LEMMA AiRestSpares ==
    ASSUME AiInv, AiRest
    PROVE  Spares(ui') /\ AiLate
<1> USE DEF AiInv
<1>1. CASE ClickAskWithoutConsent
  BY <1>1 DEF ClickAskWithoutConsent, Spares, UiFields, AiLate
<1>2. CASE ClickAsk
  <2>1. /\ UiFields' /\ ui'.snapshot = ui.snapshot /\ ui'.rules = ui.rules /\ ui'.scope = ui.scope
        /\ ui'.diag \in {ui.diag, NONE}
    BY <1>2, StartKeeps DEF ClickAsk, UiFields
  <2> QED BY <2>1 DEF UiFields, Spares, AiLate
<1>3. CASE ClickCancel
  <2>1. \/ ui' = [ui EXCEPT !.status = "cancelled"]
        \/ ui' = Unanswered([ui EXCEPT !.status = "cancelled"], "cancelled")
    BY <1>3 DEF ClickCancel, Cancelled
  <2>2. Spares([ui EXCEPT !.status = "cancelled"])
    BY DEF Spares, UiFields
  <2> QED BY <2>1, <2>2, UnansweredSpares DEF AiLate, UiFields
<1>4. Spares(ui)
  BY DEF Spares, UiFields
<1>5. ASSUME NEW r, NEW raw, Answer(r, raw) PROVE Spares(ui') /\ AiLate
  <2>1. CASE \E status \in {"stale", "failed"} : ui' = Unanswered(ui, status)
    BY <1>4, <2>1, UnansweredSpares DEF AiLate
  <2>2. CASE /\ Current(r)
             /\ ui' = [ui EXCEPT !.status = "completed",
                                 !.diag = [gen |-> r.gen, cites |-> raw.cites, snapshot |-> r.snapshot]]
    BY <2>2 DEF Current, Spares, UiFields, AiLate
  <2> QED BY <1>5, <2>1, <2>2 DEF Answer
<1>6. CASE ProviderAnswers \/ ProviderAnswersBadly
  BY <1>5, <1>6 DEF ProviderAnswers, ProviderAnswersBadly
<1>7. CASE ProviderFails
  <2>1. ui' = ui \/ \E status \in {"stale", "failed", "cancelled"} : ui' = Unanswered(ui, status)
    BY <1>7 DEF ProviderFails
  <2> QED BY <1>4, <2>1, UnansweredSpares DEF AiLate
<1>8. CASE TimerFires
  <2>1. ui' = ui \/ ui' = Unanswered(ui, "failed")
    BY <1>8 DEF TimerFires
  <2> QED BY <1>4, <2>1, UnansweredSpares DEF AiLate
<1>9. ASSUME NEW epoch, NEW scope \in Scopes, ui' = Cancelled(Blank(epoch, scope))
      PROVE  Spares(ui') /\ AiLate
  <2>1. Spares(Blank(epoch, scope)) /\ Blank(epoch, scope).diag = NONE
    BY DEF Spares, Blank
  <2> QED BY <1>9, <2>1, UnansweredSpares DEF Cancelled, AiLate
<1>10. CASE ChangeScope \/ Clear
  BY <1>9, <1>10 DEF ChangeScope, Clear, Scopes
<1>11. CASE ToggleConsent \/ NewData \/ UNCHANGED panelVars
  BY <1>4, <1>11 DEF ToggleConsent, NewData, panelVars, AiLate
<1> QED BY <1>1, <1>2, <1>3, <1>6, <1>7, <1>8, <1>10, <1>11 DEF AiRest

LEMMA AiNext ==
    ASSUME AiInv, [NextPanel]_panelVars
    PROVE  AiInv' /\ AiLate
<1>1. CASE BuildDone
  BY <1>1, AiBuildDone DEF AiLate
<1>2. CASE ClickLocal \/ ClickAskFirst
  BY <1>2, AiBuild DEF ClickLocal, ClickAskFirst, AiLate
<1>3. CASE AiRest
  <2>1. Spares(ui') /\ AiLate
    BY <1>3, AiRestSpares
  <2>2. builds' = builds /\ (page' = page \/ page' \in Offered)
    BY <1>3 DEF AiRest, ClickAskWithoutConsent, ClickAsk, ClickCancel, ProviderAnswers,
                ProviderAnswersBadly, ProviderFails, TimerFires, ChangeScope,
                ToggleConsent, NewData, Clear, panelVars, Offered
  <2> QED BY <2>1, <2>2, SparesKeeps DEF AiInv, Built
<1> QED BY <1>1, <1>2, <1>3 DEF NextPanel, AiRest

(* The page keeps its shape, and every snapshot being built is one of a    *)
(* page the viewer held.                                                   *)
THEOREM PanelInvariant ==
    SpecPanel => []AiInv
<1>1. AiInv /\ [NextPanel]_panelVars => AiInv'
  BY AiNext
<1> QED BY <1>1, AiInit, PTL DEF SpecPanel

(* The findings shown are those of the snapshot shown, for every set of    *)
(* pages and every number of clicks, clears and requests (runLocal, askAI  *)
(* and reset of ai_debug_model.js).                                        *)
THEOREM FindingsMatchTheSnapshot ==
    SpecPanel => []FindingsOfSnapshot
<1>1. AiInv => FindingsOfSnapshot
  BY DEF AiInv
<1> QED BY <1>1, PanelInvariant, PTL

(* An answer that comes after its request was replaced is never shown      *)
(* (AnalysisController.run, ai_provider.js).                               *)
THEOREM NoLateAnswer ==
    SpecPanel => LateNeverShown
<1>1. AiInv /\ [NextPanel]_panelVars => [AiLate]_panelVars
  BY AiNext
<1> QED BY <1>1, PanelInvariant, PTL DEF SpecPanel, LateNeverShown, AiLate

(* What is built, found and sent                                           *)

(* What a snapshot is made of                                              *)
ItemKinds == {"debug_log", "trace_span", "monitor_timeout", "profiler_metric", "la_capture", "viewer_transport"}
Sources   == {"debug", "trace", "monitor", "profiler", "logic_analyzer", "viewer"}
Item      == [kind : ItemKinds, source : Sources, at : Stamp, bad : BOOLEAN, n : Nat]

LEMMA RowIsItem ==
    ASSUME NEW k \in ItemKinds, NEW s \in Sources, NEW t \in Stamp, NEW b \in BOOLEAN, NEW n \in Nat
    PROVE  Row(k, s, t, b, n) \in Item
BY DEF Row, Item

LEMMA RowsAre ==
    ASSUME NEW p \in PageData, NEW id
    PROVE  collectRecords(p, id) \in Seq(Item)
<1> USE DEF ItemKinds, Sources
<1> DEFINE L == [at : Stamp, text : Nat]
           S == [at : Stamp, problem : BOOLEAN]
           M == [at : Stamp, value : Nat]
           C == [at : Stamp, complete : BOOLEAN]
           pLogs == p.logs
           pSpans == p.spans
           pMetrics == p.metrics
           pCaptures == p.captures
           pTimeouts == p.timeouts
           pErrors == p.errors
<1>1. /\ pLogs \in Seq(L) /\ pSpans \in Seq(S) /\ pMetrics \in Seq(M) /\ pCaptures \in Seq(C)
      /\ pTimeouts \in Nat /\ pErrors \in Nat
  BY DEF PageData
<1> HIDE DEF pLogs, pSpans, pMetrics, pCaptures, pTimeouts, pErrors
<1> DEFINE capture(c) == Row("la_capture", "logic_analyzer", pCaptures[c].at, ~pCaptures[c].complete, c)
           r1 == [i \in DOMAIN pLogs |-> Row("debug_log", "debug", pLogs[i].at, FALSE, pLogs[i].text)]
           r2 == [i \in DOMAIN pSpans |-> Row("trace_span", "trace", pSpans[i].at, pSpans[i].problem, i)]
           r3 == [i \in 1 .. pTimeouts |-> Row("monitor_timeout", "monitor", NONE, TRUE, i)]
           r4 == [i \in DOMAIN pMetrics |-> Row("profiler_metric", "profiler", pMetrics[i].at, FALSE, pMetrics[i].value)]
           r5 == [c \in DOMAIN pCaptures |-> capture(c)]
           r6 == IF id = NONE THEN r5 ELSE IF id \in DOMAIN pCaptures THEN <<capture(id)>> ELSE <<>>
           r7 == <<Row("viewer_transport", "viewer", NONE, pErrors > 0, pErrors)>>
<1>2. r1 \in Seq(Item)
  <2> HIDE DEF L
  <2>1. Len(pLogs) \in Nat /\ DOMAIN pLogs = 1 .. Len(pLogs) /\ \A i \in DOMAIN pLogs : pLogs[i] \in L
    BY <1>1, LenProperties, ElementOfSeq
  <2>2. \A i \in DOMAIN pLogs : pLogs[i].at \in Stamp /\ pLogs[i].text \in Nat
    BY <2>1 DEF L
  <2>3. r1 \in [1 .. Len(pLogs) -> Item]
    BY <2>1, <2>2, RowIsItem
  <2> HIDE DEF r1
  <2> QED BY <2>1, <2>3, MadeSeq
<1>3. r2 \in Seq(Item)
  <2> HIDE DEF S
  <2>1. Len(pSpans) \in Nat /\ DOMAIN pSpans = 1 .. Len(pSpans) /\ \A i \in DOMAIN pSpans : pSpans[i] \in S
    BY <1>1, LenProperties, ElementOfSeq
  <2>2. \A i \in DOMAIN pSpans : pSpans[i].at \in Stamp /\ pSpans[i].problem \in BOOLEAN /\ i \in Nat
    BY <2>1 DEF S
  <2>3. r2 \in [1 .. Len(pSpans) -> Item]
    BY <2>1, <2>2, RowIsItem
  <2> HIDE DEF r2
  <2> QED BY <2>1, <2>3, MadeSeq
<1>4. r3 \in Seq(Item)
  <2>1. NONE \in Stamp /\ TRUE \in BOOLEAN
    BY DEF Stamp
  <2>2. ASSUME NEW i \in 1 .. pTimeouts PROVE Row("monitor_timeout", "monitor", NONE, TRUE, i) \in Item
    <3>1. i \in Nat
      BY <1>1
    <3> QED BY <2>1, <3>1, RowIsItem
  <2>3. r3 \in [1 .. pTimeouts -> Item]
    BY <2>2
  <2> HIDE DEF r3
  <2> QED BY <1>1, <2>3, MadeSeq
<1>5. r4 \in Seq(Item)
  <2> HIDE DEF M
  <2>1. Len(pMetrics) \in Nat /\ DOMAIN pMetrics = 1 .. Len(pMetrics) /\ \A i \in DOMAIN pMetrics : pMetrics[i] \in M
    BY <1>1, LenProperties, ElementOfSeq
  <2>2. \A i \in DOMAIN pMetrics : pMetrics[i].at \in Stamp /\ pMetrics[i].value \in Nat
    BY <2>1 DEF M
  <2>3. r4 \in [1 .. Len(pMetrics) -> Item]
    BY <2>1, <2>2, RowIsItem
  <2> HIDE DEF r4
  <2> QED BY <2>1, <2>3, MadeSeq
<1>6. r6 \in Seq(Item)
  <2> HIDE DEF C
  <2>1. Len(pCaptures) \in Nat /\ DOMAIN pCaptures = 1 .. Len(pCaptures) /\ \A i \in DOMAIN pCaptures : pCaptures[i] \in C
    BY <1>1, LenProperties, ElementOfSeq
  <2>2. \A i \in DOMAIN pCaptures : pCaptures[i].at \in Stamp /\ (~pCaptures[i].complete) \in BOOLEAN /\ i \in Nat
    BY <2>1 DEF C
  <2>3. \A i \in DOMAIN pCaptures : capture(i) \in Item
    BY <2>2, RowIsItem
  <2> HIDE DEF capture
  <2>4. r5 \in [1 .. Len(pCaptures) -> Item]
    BY <2>1, <2>3
  <2> HIDE DEF r5
  <2>5. r5 \in Seq(Item)
    BY <2>1, <2>4, MadeSeq
  <2>6. <<>> \in Seq(Item)
    BY EmptySeq
  <2>7. id \in DOMAIN pCaptures => <<capture(id)>> \in Seq(Item)
    <3> DEFINE x == capture(id)
    <3>1. id \in DOMAIN pCaptures => x \in Item
      BY <2>3
    <3> HIDE DEF x, Item
    <3> QED BY <3>1 DEF x
  <2> QED BY <2>5, <2>6, <2>7
<1>7. r7 \in Seq(Item)
  <2> DEFINE x == Row("viewer_transport", "viewer", NONE, pErrors > 0, pErrors)
  <2>1. x \in Item
    <3>1. NONE \in Stamp /\ (pErrors > 0) \in BOOLEAN
      BY <1>1 DEF Stamp
    <3> QED BY <1>1, <3>1, RowIsItem
  <2> HIDE DEF x, Item
  <2>2. <<x>> \in Seq(Item)
    BY <2>1
  <2> QED BY <2>2 DEF x
<1>8. collectRecords(p, id) = r1 \o r2 \o r3 \o r4 \o r6 \o r7
  BY Zenon DEF collectRecords, pLogs, pSpans, pMetrics, pCaptures, pTimeouts, pErrors
<1> HIDE DEF r1, r2, r3, r4, r5, r6, r7, Item
<1>9. r1 \o r2 \in Seq(Item)
  BY <1>2, <1>3, ConcatProperties
<1>10. r1 \o r2 \o r3 \in Seq(Item)
  BY <1>4, <1>9, ConcatProperties
<1>11. r1 \o r2 \o r3 \o r4 \in Seq(Item)
  BY <1>5, <1>10, ConcatProperties
<1>12. r1 \o r2 \o r3 \o r4 \o r6 \in Seq(Item)
  BY <1>6, <1>11, ConcatProperties
<1>13. r1 \o r2 \o r3 \o r4 \o r6 \o r7 \in Seq(Item)
  BY <1>7, <1>12, ConcatProperties
<1> QED BY <1>8, <1>13

(* The state of the loop over the rows                                     *)
Unwrapping == [previous : Stamp, wraps : Nat, out : Seq(Item)]

LEMMA UnwrapTurn ==
    ASSUME NEW acc \in Unwrapping, NEW row \in Item, NEW back \in BOOLEAN
    PROVE  LET wraps == acc.wraps + (IF back THEN 1 ELSE 0)
               tick  == IF row.at = NONE THEN NONE ELSE row.at + wraps * MODULUS
           IN [previous |-> IF row.at = NONE THEN acc.previous ELSE row.at,
               wraps |-> wraps,
               out |-> Append(acc.out, [row EXCEPT !.at = tick])] \in Unwrapping
<1> DEFINE wraps == acc.wraps + (IF back THEN 1 ELSE 0)
           turns == wraps * MODULUS
           tick  == IF row.at = NONE THEN NONE ELSE row.at + turns
           e     == [row EXCEPT !.at = tick]
           out   == acc.out
           prev  == acc.previous
<1>1. out \in Seq(Item) /\ wraps \in Nat /\ prev \in Stamp
  BY DEF Unwrapping
<1>2. turns \in Nat
  <2> HIDE DEF wraps
  <2>1. MODULUS \in Nat
    BY DiagnosisAssumption
  <2> QED BY <1>1, <2>1
<1>3. row.at \in Stamp
  BY DEF Item
<1>4. tick \in Stamp
  <2> HIDE DEF turns
  <2> QED BY <1>2, <1>3 DEF Stamp
<1>5. e \in Item
  <2> HIDE DEF tick
  <2> QED BY <1>4 DEF Item
<1> HIDE DEF e, out, prev, wraps
<1>6. Append(out, e) \in Seq(Item)
  <2> HIDE DEF Item
  <2> QED BY <1>1, <1>5, AppendProperties
<1> DEFINE r == Append(out, e)
           q == IF row.at = NONE THEN prev ELSE row.at
<1>7. q \in Stamp /\ r \in Seq(Item)
  BY <1>1, <1>3, <1>6
<1> HIDE DEF r, q
<1>8. [previous |-> q, wraps |-> wraps, out |-> r] \in Unwrapping
  BY <1>1, <1>7 DEF Unwrapping
<1> QED BY <1>8 DEF r, q, e, out, prev, wraps

LEMMA Unwrapped ==
    ASSUME NEW rows \in Seq(Item)
    PROVE  unwrapTimestamps(rows) \in Seq(Item)
<1> DEFINE n == Len(rows)
           v == [previous |-> NONE, wraps |-> 0, out |-> <<>>]
           step(acc, row) ==
            LET back  == acc.previous # NONE /\ row.at # NONE /\ acc.previous - row.at > MODULUS \div 2
                wraps == acc.wraps + (IF back THEN 1 ELSE 0)
                tick  == IF row.at = NONE THEN NONE ELSE row.at + wraps * MODULUS
            IN [previous |-> IF row.at = NONE THEN acc.previous ELSE row.at,
                wraps |-> wraps,
                out |-> Append(acc.out, [row EXCEPT !.at = tick])]
           put(u, k) == step(u, rows[k])
           Folds(it) == it = [T \in SUBSET (DOMAIN rows) |-> IF T = {} THEN v ELSE put(it[T \ {Top(T)}], Top(T))]
           f == CHOOSE it : Folds(it)
           g == [z \in (1 .. n) \X Unwrapping |-> put(z[2], z[1])]
<1>1. n \in Nat /\ DOMAIN rows = 1 .. n /\ \A k \in 1 .. n : rows[k] \in Item
  BY LenProperties, ElementOfSeq
<1>2. unwrapTimestamps(rows) = f[DOMAIN rows].out
  BY Zenon DEF unwrapTimestamps, FoldLeft, MapThenFoldSet, Max, Top
<1>3. v \in Unwrapping
  <2> DEFINE e == <<>>
  <2>1. e \in Seq(Item)
    BY EmptySeq
  <2> HIDE DEF e
  <2>2. [previous |-> NONE, wraps |-> 0, out |-> e] \in Unwrapping
    BY <2>1 DEF Unwrapping, Stamp
  <2> QED BY <2>2 DEF e
<1>4. ASSUME NEW acc \in Unwrapping, NEW row \in Item PROVE step(acc, row) \in Unwrapping
  <2> DEFINE back == acc.previous # NONE /\ row.at # NONE /\ acc.previous - row.at > MODULUS \div 2
  <2>1. back \in BOOLEAN
    OBVIOUS
  <2>2. step(acc, row) =
            LET wraps == acc.wraps + (IF back THEN 1 ELSE 0)
                tick  == IF row.at = NONE THEN NONE ELSE row.at + wraps * MODULUS
            IN [previous |-> IF row.at = NONE THEN acc.previous ELSE row.at,
                wraps |-> wraps,
                out |-> Append(acc.out, [row EXCEPT !.at = tick])]
    OBVIOUS
  <2> HIDE DEF back, step
  <2> QED BY <2>1, <2>2, UnwrapTurn
<1> HIDE DEF step, v, n
<1>5. g \in [(1 .. n) \X Unwrapping -> Unwrapping]
  BY <1>1, <1>4
<1> HIDE DEF put
<1>6. Folds(f)
  <2> HIDE DEF g
  <2>1. PICK it \in [SUBSET (1 .. n) -> Unwrapping] : IsLeftFold(it, n, v, g)
    BY <1>1, <1>3, <1>5, LeftFoldExists
  <2>2. ASSUME NEW T \in SUBSET (1 .. n), T # {}
        PROVE  g[<<Top(T), it[T \ {Top(T)}]>>] = put(it[T \ {Top(T)}], Top(T))
    BY <1>1, <2>1, <2>2, TopOf DEF g
  <2>3. Folds(it)
    BY <1>1, <2>1, <2>2 DEF IsLeftFold
  <2> QED BY <2>3
<1> HIDE DEF f
<1>7. f[{}] = v
  BY <1>1, <1>6
<1>8. ASSUME NEW k \in 1 .. n, f[1 .. k - 1] \in Unwrapping
      PROVE  f[1 .. k] = g[<<k, f[1 .. k - 1]>>]
  <2>1. 1 .. k # {} /\ (1 .. k) \in SUBSET (1 .. n) /\ Top(1 .. k) = k /\ (1 .. k) \ {k} = 1 .. k - 1
    BY <1>1, TopInterval
  <2>2. f[1 .. k] = put(f[1 .. k - 1], k)
    BY <1>1, <1>6, <2>1
  <2> QED BY <1>8, <2>2
<1> HIDE DEF g
<1>9. PICK h : IsChain(h, n, Unwrapping, v, g, f[1 .. n])
  <2>1. FoldTurns(f, n, Unwrapping, v, g)
    BY <1>7, <1>8 DEF FoldTurns
  <2> QED BY <1>1, <1>3, <1>5, <2>1, ChainOfFold
<1>10. f[1 .. n] \in Unwrapping
  <2>1. n \in 0 .. n
    BY <1>1
  <2> QED BY <1>9, <2>1 DEF IsChain
<1> QED BY <1>1, <1>2, <1>10 DEF Unwrapping

LEMMA BuiltIs ==
    ASSUME NEW p \in PageData, NEW scope
    PROVE  build(p, scope).evidence \in Seq(Item)
<1>1. build(p, scope).evidence
         = unwrapTimestamps(collectRecords(p, IF scope = "la_capture" THEN p.latest ELSE NONE))
  BY DEF build
<1> QED BY <1>1, RowsAre, Unwrapped

(* The snapshots the rules are run on                                      *)
Snapshots == {build(p, scope) : p \in Offered, scope \in Scopes}

LEMMA SnapshotIs ==
    ASSUME NEW s \in Snapshots
    PROVE  /\ s.evidence \in Seq(Item) /\ EvidenceOf(s) \subseteq Item /\ IsFiniteSet(EvidenceOf(s))
           /\ s # NONE /\ DOMAIN s.evidence = 1 .. Len(s.evidence) /\ Len(s.evidence) \in Nat
<1>1. s.evidence \in Seq(Item) /\ s # NONE
  BY BuiltIs, AiDebugAssumption DEF Snapshots, Offered, Scopes
<1> DEFINE e == s.evidence
           n == Len(e)
<1> HIDE DEF e
<1>2. n \in Nat /\ DOMAIN e = 1 .. n /\ \A i \in 1 .. n : e[i] \in Item
  BY <1>1, LenProperties, ElementOfSeq DEF e
<1>3. EvidenceOf(s) = {e[i] : i \in DOMAIN e}
  BY DEF EvidenceOf, Range, e
<1>4. IsFiniteSet({e[i] : i \in 1 .. n})
  <2>1. IsFiniteSet(1 .. n)
    BY <1>2, FS_Interval
  <2> DEFINE R == {e[i] : i \in 1 .. n}
             m == [i \in 1 .. n |-> e[i]]
  <2>2. m \in Surjection(1 .. n, R)
    BY DEF Surjection
  <2> HIDE DEF m, R
  <2>3. IsFiniteSet(R)
    BY <2>1, <2>2, FS_Surjection
  <2> QED BY <2>3 DEF R
<1> QED BY <1>1, <1>2, <1>3, <1>4 DEF e

LEMMA CloseInTimeIs ==
    ASSUME NEW evidence \in Seq(Item)
    PROVE  CloseInTime(evidence) \subseteq Range(evidence)
<1> DEFINE abnormal == {i \in DOMAIN evidence : evidence[i].bad /\ evidence[i].at # NONE}
           apart(p) == Max({evidence[p[1]].at - evidence[p[2]].at, evidence[p[2]].at - evidence[p[1]].at})
           pairs    == {p \in abnormal \X abnormal :
                           /\ p[1] < p[2] /\ evidence[p[1]].source # evidence[p[2]].source
                           /\ apart(p) <= WINDOW}
           closest  == {p \in pairs : \A q \in pairs : apart(p) <= apart(q)}
           pair     == CHOOSE p \in closest : TRUE
<1>1. CloseInTime(evidence) = IF pairs = {} THEN {} ELSE {evidence[pair[1]], evidence[pair[2]]}
  BY Zenon DEF CloseInTime
<1>2. ASSUME NEW i \in abnormal PROVE i \in DOMAIN evidence /\ evidence[i].at \in Nat
  <2>1. i \in DOMAIN evidence /\ evidence[i].at # NONE
    OBVIOUS
  <2>2. evidence[i] \in Item
    BY <2>1, LenProperties, ElementOfSeq
  <2> QED BY <2>1, <2>2 DEF Item, Stamp
<1>3. ASSUME NEW p \in pairs PROVE apart(p) \in Nat
  <2> DEFINE a == evidence[p[1]].at
             b == evidence[p[2]].at
  <2>1. a \in Nat /\ b \in Nat
    BY <1>2
  <2>2. apart(p) = CHOOSE x \in {a - b, b - a} : \A y \in {a - b, b - a} : x >= y
    BY DEF Max
  <2> HIDE DEF a, b, apart
  <2>3. \E x \in {a - b, b - a} : \A y \in {a - b, b - a} : x >= y
    BY <2>1
  <2>4. apart(p) \in {a - b, b - a} /\ \A y \in {a - b, b - a} : apart(p) >= y
    BY <2>2, <2>3
  <2> QED BY <2>1, <2>4
<1>4. pairs \subseteq abnormal \X abnormal /\ closest \subseteq pairs
  OBVIOUS
<1>5. CASE pairs # {}
  <2> DEFINE D == {apart(p) : p \in pairs}
  <2> HIDE DEF apart, pairs, abnormal
  <2>1. D \in SUBSET Nat /\ D # {}
    BY <1>3, <1>5
  <2>2. PICK x \in D : \A y \in D : x <= y
    <3> HIDE DEF D
    <3> QED BY <2>1, LeastNumber
  <2>3. PICK p \in pairs : x = apart(p)
    BY <2>2
  <2>4. \A q \in pairs : apart(p) <= apart(q)
    BY <2>2, <2>3
  <2>5. p \in closest
    BY <2>4
  <2>6. pair \in closest
    BY <2>5
  <2> HIDE DEF pair, closest
  <2>7. pair[1] \in DOMAIN evidence /\ pair[2] \in DOMAIN evidence
    BY <1>2, <1>4, <2>6
  <2> QED BY <1>1, <1>5, <2>7 DEF Range
<1> QED BY <1>1, <1>5

LEMMA FindingIs ==
    ASSUME NEW rule, NEW cites
    PROVE  /\ IsFiniteSet(Finding(rule, cites))
           /\ \A f \in Finding(rule, cites) : f.rule = rule /\ f.cites = cites /\ cites # {}
<1> DEFINE x == [rule |-> rule, cites |-> cites]
<1>1. Finding(rule, cites) = IF cites = {} THEN {} ELSE {x}
  BY DEF Finding
<1>2. x.rule = rule /\ x.cites = cites
  OBVIOUS
<1> HIDE DEF x
<1>3. IsFiniteSet({}) /\ IsFiniteSet({x})
  BY FS_EmptySet, FS_Singleton
<1> QED BY <1>1, <1>2, <1>3

(* Every finding of the rules cites something, all of it of the snapshot.  *)
LEMMA EvaluateIs ==
    ASSUME NEW s \in Snapshots, ~HasDuplicates(s)
    PROVE  /\ IsFiniteSet(evaluate(s))
           /\ \A f \in evaluate(s) : f.cites # {} /\ f.cites \subseteq EvidenceOf(s)
<1> DEFINE items == EvidenceOf(s)
           incomplete == {item \in OfKind(items, "la_capture") : item.bad}
           c2 == {item \in OfKind(items, "viewer_transport") : item.n >= 1}
           c3 == OfKind(items, "monitor_timeout")
           c4 == {item \in OfKind(items, "profiler_metric") : item.n > LIMIT}
           c5 == CloseInTime(s.evidence)
           f1 == Finding("data_quality.incomplete", incomplete)
           f2 == Finding("transport.error_rate", c2)
           f3 == Finding("monitor.response_timeout", c3)
           f4 == Finding("latency.spike", c4)
           f5 == Finding("la.data_integrity", incomplete)
           f6 == Finding("cross_source.temporal_overlap", c5)
<1>1. evaluate(s) = f1 \cup f2 \cup f3 \cup f4 \cup f5 \cup f6
  BY DEF evaluate
<1>2. incomplete \subseteq items /\ c2 \subseteq items /\ c3 \subseteq items /\ c4 \subseteq items
  BY DEF OfKind
<1>3. c5 \subseteq items
  BY SnapshotIs, CloseInTimeIs DEF EvidenceOf
<1> HIDE DEF items, incomplete, c2, c3, c4, c5
<1>4. /\ IsFiniteSet(f1) /\ IsFiniteSet(f2) /\ IsFiniteSet(f3)
      /\ IsFiniteSet(f4) /\ IsFiniteSet(f5) /\ IsFiniteSet(f6)
      /\ \A f \in f1 \cup f5 : f.cites = incomplete /\ incomplete # {}
      /\ \A f \in f2 : f.cites = c2 /\ c2 # {}
      /\ \A f \in f3 : f.cites = c3 /\ c3 # {}
      /\ \A f \in f4 : f.cites = c4 /\ c4 # {}
      /\ \A f \in f6 : f.cites = c5 /\ c5 # {}
  BY FindingIs
<1> HIDE DEF f1, f2, f3, f4, f5, f6
<1>5. IsFiniteSet(f1 \cup f2 \cup f3 \cup f4 \cup f5 \cup f6)
  <2>1. IsFiniteSet(f1 \cup f2)
    BY <1>4, FS_Union
  <2>2. IsFiniteSet(f1 \cup f2 \cup f3)
    BY <1>4, <2>1, FS_Union
  <2>3. IsFiniteSet(f1 \cup f2 \cup f3 \cup f4)
    BY <1>4, <2>2, FS_Union
  <2>4. IsFiniteSet(f1 \cup f2 \cup f3 \cup f4 \cup f5)
    BY <1>4, <2>3, FS_Union
  <2> QED BY <1>4, <2>4, FS_Union
<1> QED BY <1>1, <1>2, <1>3, <1>4, <1>5 DEF items

(* What a request may hold, and what it holds while findings are taken     *)
Contexts(F, items) == [findings : SUBSET F, evidence : SUBSET items]
WholeUnits(F, items) == {c \in Contexts(F, items) : c.evidence = UNION {f.cites : f \in c.findings}}

Sendable(F, items) ==
    /\ IsFiniteSet(F) /\ IsFiniteSet(items)
    /\ \A f \in F : f.cites # {} /\ f.cites \subseteq items

LEMMA SizeIs ==
    ASSUME NEW F, NEW items, Sendable(F, items), NEW c \in Contexts(F, items)
    PROVE  Size(c) \in Nat
<1>1. c.findings \in SUBSET F /\ c.evidence \in SUBSET items
  BY DEF Contexts
<1>2. IsFiniteSet(F) /\ IsFiniteSet(items)
  BY DEF Sendable
<1>3. IsFiniteSet(c.findings) /\ IsFiniteSet(c.evidence)
  BY <1>1, <1>2, FS_Subset
<1>4. Cardinality(c.findings) \in Nat /\ Cardinality(c.evidence) \in Nat
  BY <1>3, FS_CardinalityType
<1> QED BY <1>4 DEF Size

(* A turn of the loop over the findings                                    *)
TakeFinding(items, c, f) ==
    LET candidate == WithFinding(c, f, f.cites \cap items)
    IN IF Size(candidate) <= BUDGET \/ IsQuality(f) THEN candidate ELSE c

LEMMA TakeIs ==
    ASSUME NEW F, NEW items, Sendable(F, items), NEW c \in WholeUnits(F, items), NEW f \in F
    PROVE  LET u == TakeFinding(items, c, f)
           IN /\ u \in WholeUnits(F, items)
              /\ IsQuality(f) => u.findings = c.findings \cup {f}
              /\ \/ u = c
                 \/ u.findings = c.findings \cup {f} /\ (IsQuality(f) \/ Size(u) <= BUDGET)
<1> DEFINE w == WithFinding(c, f, f.cites \cap items)
           a == c.findings \cup {f}
           b == c.evidence \cup f.cites
<1>1. /\ c = [findings |-> c.findings, evidence |-> c.evidence]
      /\ c.findings \in SUBSET F /\ c.evidence \in SUBSET items
      /\ c.evidence = UNION {x.cites : x \in c.findings}
  BY DEF WholeUnits, Contexts
<1>2. f.cites \cap items = f.cites /\ f.cites \subseteq items
  BY DEF Sendable
<1>3. w = [findings |-> a, evidence |-> b]
  <2> DEFINE p == c.findings
             q == c.evidence
             t == f.cites
  <2>1. w = [c EXCEPT !.findings = @ \cup {f}, !.evidence = @ \cup t]
    BY <1>2 DEF WithFinding
  <2>2. c = [findings |-> p, evidence |-> q]
    BY <1>1
  <2> HIDE DEF p, q, t, w
  <2>3. w = [findings |-> p \cup {f}, evidence |-> q \cup t]
    BY <2>1, <2>2
  <2> QED BY <2>3 DEF p, q, t
<1>4. a \in SUBSET F /\ b \in SUBSET items
  BY <1>1, <1>2
<1>5. b = UNION {x.cites : x \in a}
  <2>1. {x.cites : x \in a} = {x.cites : x \in c.findings} \cup {f.cites}
    OBVIOUS
  <2> QED BY <1>1, <2>1
<1> HIDE DEF a, b
<1>6. w \in WholeUnits(F, items) /\ w.findings = a
  <2> HIDE DEF w
  <2>1. w \in Contexts(F, items) /\ w.findings = a /\ w.evidence = b
    BY <1>3, <1>4 DEF Contexts
  <2> QED BY <1>5, <2>1 DEF WholeUnits
<1>7. TakeFinding(items, c, f) = IF Size(w) <= BUDGET \/ IsQuality(f) THEN w ELSE c
  BY DEF TakeFinding
<1> HIDE DEF w
<1> QED BY <1>6, <1>7 DEF a

(* The loop over the findings                                              *)
FindingsInTurn(F) == SetToSeq({f \in F : IsQuality(f)}) \o SetToSeq({f \in F : ~IsQuality(f)})

NoContext == [findings |-> {}, evidence |-> {}]

LEMMA NoneIs ==
    ASSUME NEW F, NEW items
    PROVE  NoContext \in WholeUnits(F, items) /\ NoContext.findings = {}
<1> DEFINE e == {}
<1>1. e \in SUBSET F /\ e \in SUBSET items /\ e = UNION {f.cites : f \in e}
  OBVIOUS
<1> HIDE DEF e
<1>2. [findings |-> e, evidence |-> e] \in WholeUnits(F, items)
  BY <1>1 DEF WholeUnits, Contexts
<1> QED BY <1>2 DEF NoContext, e

(* The units a request holds after it                                      *)
UnitsOf(F, items) ==
    LET take(context, f) ==
           LET candidate == WithFinding(context, f, f.cites \cap items)
           IN IF Size(candidate) <= BUDGET \/ IsQuality(f) THEN candidate ELSE context
    IN FoldLeft(take, [findings |-> {}, evidence |-> {}], FindingsInTurn(F))

LEMMA TakenInTurn ==
    ASSUME NEW F, NEW items, Sendable(F, items)
    PROVE  LET units == UnitsOf(F, items)
               quality == {f \in F : IsQuality(f)}
           IN /\ units \in WholeUnits(F, items)
              /\ quality \subseteq units.findings
              /\ Size(units) > BUDGET => units.findings = quality
<1> DEFINE units == UnitsOf(F, items)
           U == WholeUnits(F, items)
           quality == {f \in F : IsQuality(f)}
           s == FindingsInTurn(F)
           m == Len(SetToSeq(quality))
           n == Len(s)
           put(c, k) == TakeFinding(items, c, s[k])
           Folds(it) == it = [T \in SUBSET (DOMAIN s) |-> IF T = {} THEN NoContext ELSE put(it[T \ {Top(T)}], Top(T))]
           f == CHOOSE it : Folds(it)
           g == [z \in (1 .. n) \X U |-> put(z[2], z[1])]
<1>1. units = f[DOMAIN s]
  BY Zenon DEF UnitsOf, FoldLeft, MapThenFoldSet, Max, Top, TakeFinding, NoContext
<1>2. /\ s \in Seq(F) /\ m \in Nat /\ m <= n
      /\ \A i \in 1 .. m : s[i] \in quality
      /\ \A i \in m + 1 .. n : s[i] \in {x \in F : ~IsQuality(x)}
      /\ \A x \in quality : \E i \in 1 .. m : s[i] = x
  <2>1. IsFiniteSet(F)
    BY DEF Sendable
  <2> DEFINE other == {x \in F : ~IsQuality(x)}
  <2>2. quality \in SUBSET F /\ other \in SUBSET F
    OBVIOUS
  <2>3. s = SetToSeq(quality) \o SetToSeq(other)
    BY DEF FindingsInTurn
  <2> HIDE DEF quality, other, s
  <2>4. LET t == SetToSeq(quality) \o SetToSeq(other)
            l == Len(SetToSeq(quality))
        IN /\ t \in Seq(F) /\ l \in Nat /\ l <= Len(t)
           /\ \A i \in 1 .. l : t[i] \in quality
           /\ \A i \in l + 1 .. Len(t) : t[i] \in other
           /\ \A x \in quality : \E i \in 1 .. l : t[i] = x
    BY <2>1, <2>2, InTurn
  <2> QED BY <2>3, <2>4 DEF other
<1> HIDE DEF units, s, m, quality
<1>3. n \in Nat /\ DOMAIN s = 1 .. n /\ \A k \in 1 .. n : s[k] \in F
  BY <1>2, LenProperties, ElementOfSeq
<1> HIDE DEF n
<1>4. NoContext \in U
  BY NoneIs
<1>5. \A k \in 1 .. n, c \in U : put(c, k) \in U
  BY <1>3, TakeIs
<1> HIDE DEF put, U
<1>6. g \in [(1 .. n) \X U -> U]
  BY <1>5
<1>7. Folds(f)
  <2> HIDE DEF g
  <2>1. PICK it \in [SUBSET (1 .. n) -> U] : IsLeftFold(it, n, NoContext, g)
    BY <1>3, <1>4, <1>6, LeftFoldExists
  <2>2. ASSUME NEW T \in SUBSET (1 .. n), T # {}
        PROVE  g[<<Top(T), it[T \ {Top(T)}]>>] = put(it[T \ {Top(T)}], Top(T))
    BY <1>3, <2>1, <2>2, TopOf DEF g
  <2>3. Folds(it)
    BY <1>3, <2>1, <2>2 DEF IsLeftFold
  <2> QED BY <2>3
<1> HIDE DEF f
<1>8. FoldTurns(f, n, U, NoContext, g)
  <2>1. f[{}] = NoContext
    BY <1>3, <1>7
  <2>2. ASSUME NEW k \in 1 .. n, f[1 .. k - 1] \in U
        PROVE  f[1 .. k] = g[<<k, f[1 .. k - 1]>>]
    <3>1. 1 .. k # {} /\ (1 .. k) \in SUBSET (1 .. n) /\ Top(1 .. k) = k /\ (1 .. k) \ {k} = 1 .. k - 1
      BY <1>3, TopInterval
    <3>2. f[1 .. k] = put(f[1 .. k - 1], k)
      BY <1>3, <1>7, <3>1
    <3> QED BY <2>2, <3>2
  <2> QED BY <2>1, <2>2 DEF FoldTurns
<1>9. PICK h : IsChain(h, n, U, NoContext, g, f[1 .. n])
  <2> HIDE DEF g
  <2> QED BY <1>3, <1>4, <1>6, <1>8, ChainOfFold
<1>10. /\ h[0] = NoContext /\ h[n] = units /\ \A k \in 0 .. n : h[k] \in U
       /\ \A k \in 1 .. n : h[k] = put(h[k - 1], k)
  <2>1. h \in [0 .. n -> U] /\ h[0] = NoContext /\ h[n] = units /\ \A k \in 1 .. n : h[k] = g[<<k, h[k - 1]>>]
    BY <1>1, <1>3, <1>9 DEF IsChain
  <2>2. ASSUME NEW k \in 1 .. n PROVE h[k] = put(h[k - 1], k)
    <3>1. k - 1 \in 0 .. n
      BY <1>3
    <3> QED BY <2>1, <3>1
  <2> QED BY <2>1, <2>2
<1> DEFINE P == {k \in 0 .. n :
                   /\ \A i \in 1 .. m : i <= k => s[i] \in h[k].findings
                   /\ k <= m => h[k].findings \subseteq quality
                   /\ Size(h[k]) > BUDGET => h[k].findings \subseteq quality}
<1>11. 0 \in P
  <2>1. h[0].findings = {}
    BY <1>10, NoneIs
  <2> QED BY <1>2, <1>3, <2>1
<1>12. ASSUME NEW k \in 1 .. n, k - 1 \in P PROVE k \in P
  <2> DEFINE c == h[k - 1]
             d == h[k]
             x == s[k]
  <2>1. /\ k \in 0 .. n /\ k - 1 \in 0 .. n /\ x \in F /\ c \in U /\ d = TakeFinding(items, c, x)
        /\ d \in U
    BY <1>3, <1>10 DEF put
  <2>2. /\ IsQuality(x) => d.findings = c.findings \cup {x}
        /\ \/ d = c
           \/ d.findings = c.findings \cup {x} /\ (IsQuality(x) \/ Size(d) <= BUDGET)
    BY <2>1, TakeIs DEF U
  <2>3. Size(d) \in Nat /\ BUDGET \in Nat
    BY <2>1, SizeIs, DiagnosisAssumption DEF U, WholeUnits
  <2>4. /\ \A i \in 1 .. m : i <= k - 1 => s[i] \in c.findings
        /\ k - 1 <= m => c.findings \subseteq quality
        /\ Size(c) > BUDGET => c.findings \subseteq quality
    BY <1>12
  <2> HIDE DEF c, d, P
  <2>5. CASE k <= m
    <3>1. x \in quality /\ IsQuality(x)
      BY <1>2, <2>5 DEF quality, x
    <3>2. d.findings = c.findings \cup {x} /\ c.findings \subseteq quality
      BY <1>2, <2>2, <2>4, <2>5, <3>1
    <3>3. \A i \in 1 .. m : i <= k => s[i] \in d.findings
      BY <2>4, <3>2 DEF x
    <3>4. d.findings \subseteq quality
      BY <3>1, <3>2
    <3> QED BY <2>1, <3>3, <3>4 DEF P, d
  <2>6. CASE ~(k <= m)
    <3>1. k \in m + 1 .. n
      BY <1>2, <1>3, <2>6
    <3>2. ~IsQuality(x)
      BY <1>2, <3>1 DEF x
    <3>3. c.findings \subseteq d.findings
      BY <2>2
    <3>4. \A i \in 1 .. m : i <= k => s[i] \in d.findings
      <4>1. \A i \in 1 .. m : i <= k - 1
        BY <1>2, <3>1
      <4> QED BY <2>4, <3>3, <4>1
    <3>5. Size(d) > BUDGET => d.findings \subseteq quality
      <4>1. Size(d) > BUDGET => d = c
        BY <2>2, <2>3, <3>2
      <4> QED BY <2>4, <4>1
    <3> QED BY <2>1, <2>6, <3>4, <3>5 DEF P, d
  <2> QED BY <2>5, <2>6
<1>13. n \in P
  <2> HIDE DEF P
  <2>1. 0 .. n \subseteq P
    BY <1>3, <1>11, <1>12, UpTo
  <2> QED BY <1>3, <2>1
<1>14. units \in U
  BY <1>3, <1>10
<1>15. quality \subseteq units.findings
  <2> SUFFICES ASSUME NEW x \in quality PROVE x \in units.findings
    OBVIOUS
  <2>1. PICK i \in 1 .. m : s[i] = x
    BY <1>2
  <2>2. i <= n
    BY <1>2, <1>3
  <2> QED BY <1>10, <1>13, <2>1, <2>2
<1>16. Size(units) > BUDGET => units.findings = quality
  BY <1>10, <1>13, <1>15
<1> QED BY <1>14, <1>15, <1>16 DEF U, quality, units

(* What a request may hold while the rest of the evidence is added         *)
Fillings(F, items, units) ==
    {c \in Contexts(F, items) :
        /\ c.findings = units.findings /\ units.evidence \subseteq c.evidence
        /\ Size(c) > BUDGET => c = units}

FillItem(c, item) == IF Size(WithEvidence(c, item)) <= BUDGET THEN WithEvidence(c, item) ELSE c

LEMMA FillIs ==
    ASSUME NEW F, NEW items, Sendable(F, items), NEW units,
           NEW c \in Fillings(F, items, units), NEW item \in items
    PROVE  FillItem(c, item) \in Fillings(F, items, units)
<1> DEFINE w == WithEvidence(c, item)
           p == c.findings
           q == c.evidence
<1>1. c = [findings |-> p, evidence |-> q] /\ p \in SUBSET F /\ q \in SUBSET items
  BY DEF Fillings, Contexts
<1>2. p = units.findings /\ units.evidence \subseteq q
  BY DEF Fillings
<1>3. w = [c EXCEPT !.evidence = @ \cup {item}]
  BY DEF WithEvidence
<1> HIDE DEF p, q, w
<1>4. w = [findings |-> p, evidence |-> q \cup {item}]
  BY <1>1, <1>3
<1>5. w \in Contexts(F, items) /\ w.findings = units.findings /\ units.evidence \subseteq w.evidence
  BY <1>1, <1>2, <1>4 DEF Contexts
<1>6. FillItem(c, item) = IF Size(w) <= BUDGET THEN w ELSE c
  BY DEF FillItem, w
<1>7. Size(w) \in Nat /\ BUDGET \in Nat
  BY <1>5, SizeIs, DiagnosisAssumption
<1>8. CASE Size(w) <= BUDGET
  <2>1. ~(Size(w) > BUDGET)
    BY <1>7, <1>8
  <2> QED BY <1>5, <1>6, <1>8, <2>1 DEF Fillings
<1> QED BY <1>6, <1>8

(* The loop over the rest of the evidence                                  *)
LEMMA FilledUp ==
    ASSUME NEW F, NEW items, Sendable(F, items), NEW units \in Contexts(F, items),
           NEW s \in Seq(items)
    PROVE  LET fill(context, item) ==
                  IF Size(WithEvidence(context, item)) <= BUDGET THEN WithEvidence(context, item) ELSE context
           IN FoldLeft(fill, units, s) \in Fillings(F, items, units)
<1> DEFINE fill(context, item) ==
              IF Size(WithEvidence(context, item)) <= BUDGET THEN WithEvidence(context, item) ELSE context
           all == FoldLeft(fill, units, s)
           U == Fillings(F, items, units)
           n == Len(s)
           put(c, k) == FillItem(c, s[k])
           Folds(it) == it = [T \in SUBSET (DOMAIN s) |-> IF T = {} THEN units ELSE put(it[T \ {Top(T)}], Top(T))]
           f == CHOOSE it : Folds(it)
           g == [z \in (1 .. n) \X U |-> put(z[2], z[1])]
<1>1. all = f[DOMAIN s]
  BY Zenon DEF FoldLeft, MapThenFoldSet, Max, Top, FillItem
<1> HIDE DEF all, fill
<1>2. n \in Nat /\ DOMAIN s = 1 .. n /\ \A k \in 1 .. n : s[k] \in items
  BY LenProperties, ElementOfSeq
<1> HIDE DEF n
<1>3. units \in U
  BY DEF Fillings
<1>4. \A k \in 1 .. n, c \in U : put(c, k) \in U
  BY <1>2, FillIs
<1> HIDE DEF put, U
<1>5. g \in [(1 .. n) \X U -> U]
  BY <1>4
<1>6. Folds(f)
  <2> HIDE DEF g
  <2>1. PICK it \in [SUBSET (1 .. n) -> U] : IsLeftFold(it, n, units, g)
    BY <1>2, <1>3, <1>5, LeftFoldExists
  <2>2. ASSUME NEW T \in SUBSET (1 .. n), T # {}
        PROVE  g[<<Top(T), it[T \ {Top(T)}]>>] = put(it[T \ {Top(T)}], Top(T))
    BY <1>2, <2>1, <2>2, TopOf DEF g
  <2>3. Folds(it)
    BY <1>2, <2>1, <2>2 DEF IsLeftFold
  <2> QED BY <2>3
<1> HIDE DEF f
<1>7. FoldTurns(f, n, U, units, g)
  <2>1. f[{}] = units
    BY <1>2, <1>6
  <2>2. ASSUME NEW k \in 1 .. n, f[1 .. k - 1] \in U
        PROVE  f[1 .. k] = g[<<k, f[1 .. k - 1]>>]
    <3>1. 1 .. k # {} /\ (1 .. k) \in SUBSET (1 .. n) /\ Top(1 .. k) = k /\ (1 .. k) \ {k} = 1 .. k - 1
      BY <1>2, TopInterval
    <3>2. f[1 .. k] = put(f[1 .. k - 1], k)
      BY <1>2, <1>6, <3>1
    <3> QED BY <2>2, <3>2
  <2> QED BY <2>1, <2>2 DEF FoldTurns
<1>8. PICK h : IsChain(h, n, U, units, g, f[1 .. n])
  <2> HIDE DEF g
  <2> QED BY <1>2, <1>3, <1>5, <1>7, ChainOfFold
<1>9. f[1 .. n] \in U
  <2>1. n \in 0 .. n
    BY <1>2
  <2> QED BY <1>8, <2>1 DEF IsChain
<1> QED BY <1>1, <1>2, <1>9 DEF all, U, fill

(* What is sent of findings that cite what the snapshot has.               *)
LEMMA ContextIs ==
    ASSUME NEW s, NEW F, Sendable(F, EvidenceOf(s))
    PROVE  LET c == buildContext(s, F)
               quality == {f \in F : IsQuality(f)}
           IN /\ \A f \in c.findings : f.cites # {} /\ f.cites \subseteq c.evidence
              /\ c.evidence \subseteq EvidenceOf(s)
              /\ quality \subseteq c.findings
              /\ Size(c) > BUDGET =>
                   c.findings = quality /\ c.evidence = UNION {f.cites : f \in quality}
<1> DEFINE items == EvidenceOf(s)
           quality == {f \in F : IsQuality(f)}
           units == UnitsOf(F, items)
           bad   == {item \in items \ units.evidence : item.bad}
           good  == {item \in items \ units.evidence : ~item.bad}
           rest  == SetToSeq(bad) \o SetToSeq(good)
           fill(context, item) ==
              IF Size(WithEvidence(context, item)) <= BUDGET THEN WithEvidence(context, item) ELSE context
           c == buildContext(s, F)
<1>1. c = FoldLeft(fill, units, rest)
  BY Zenon DEF buildContext, FindingsInTurn, UnitsOf
<1>2. /\ units \in WholeUnits(F, items) /\ quality \subseteq units.findings
      /\ Size(units) > BUDGET => units.findings = quality
  <2>1. Sendable(F, items)
    OBVIOUS
  <2> HIDE DEF items
  <2> QED BY <2>1, TakenInTurn
<1>3. rest \in Seq(items)
  <2>1. IsFiniteSet(items) /\ bad \in SUBSET items /\ good \in SUBSET items
    BY DEF Sendable
  <2> HIDE DEF bad, good, items
  <2>2. LET t == SetToSeq(bad) \o SetToSeq(good) IN t \in Seq(items)
    BY <2>1, InTurn
  <2> QED BY <2>2
<1> HIDE DEF units, rest
<1>4. c \in Fillings(F, items, units)
  <2>1. units \in Contexts(F, items) /\ Sendable(F, items)
    BY <1>2 DEF WholeUnits
  <2> HIDE DEF items, c
  <2>2. FoldLeft(fill, units, rest) \in Fillings(F, items, units)
    BY <1>3, <2>1, FilledUp
  <2> QED BY <1>1, <2>2
<1> HIDE DEF c, items, quality, fill
<1>5. /\ c.findings = units.findings /\ units.evidence \subseteq c.evidence
      /\ Size(c) > BUDGET => c = units
      /\ c.findings \subseteq F /\ c.evidence \subseteq items
  BY <1>4 DEF Fillings, Contexts
<1>6. units.evidence = UNION {f.cites : f \in units.findings}
  BY <1>2 DEF WholeUnits
<1>7. ASSUME NEW f \in c.findings PROVE f.cites # {} /\ f.cites \subseteq c.evidence
  <2>1. f.cites # {}
    BY <1>5 DEF Sendable
  <2>2. f.cites \subseteq units.evidence
    BY <1>5, <1>6
  <2> QED BY <1>5, <2>1, <2>2
<1>8. Size(c) > BUDGET => c.findings = quality /\ c.evidence = UNION {f.cites : f \in quality}
  BY <1>2, <1>5, <1>6
<1> QED BY <1>2, <1>5, <1>7, <1>8 DEF c, items, quality

(* A request under way was sent what the local rules make of its snapshot, *)
(* or the rules would have refused it; an answer shown cites what was sent.*)
GoodRun(r) ==
    /\ r = [gen |-> r.gen, heeds |-> r.heeds, attempt |-> r.attempt, timer |-> r.timer,
            snapshot |-> r.snapshot, sent |-> r.sent]
    /\ r.snapshot \in Snapshots
    /\ HasDuplicates(r.snapshot) \/ r.sent = buildContext(r.snapshot, evaluate(r.snapshot))

GoodDiag(d) ==
    HasDuplicates(d.snapshot) \/ d.cites \subseteq buildContext(d.snapshot, evaluate(d.snapshot)).evidence

GoodPanel(u) ==
    /\ u = [epoch |-> u.epoch, status |-> u.status, scope |-> u.scope,
            snapshot |-> u.snapshot, rules |-> u.rules, diag |-> u.diag]
    /\ u.snapshot \in Snapshots \cup {NONE}
    /\ u.diag # NONE => GoodDiag(u.diag)

GroundInv == GoodPanel(ui) /\ \A r \in runs : GoodRun(r)

LEMMA UnansweredGood ==
    ASSUME NEW u, GoodPanel(u), NEW status
    PROVE  GoodPanel(Unanswered(u, status))
<1> DEFINE v == Unanswered(u, status)
<1>1. v = [u EXCEPT !.status = status, !.diag = NONE]
  BY DEF Unanswered
<1>2. u = [epoch |-> u.epoch, status |-> u.status, scope |-> u.scope,
           snapshot |-> u.snapshot, rules |-> u.rules, diag |-> u.diag]
      /\ u.snapshot \in Snapshots \cup {NONE}
  BY DEF GoodPanel
<1> HIDE DEF v
<1>3. v = [epoch |-> u.epoch, status |-> status, scope |-> u.scope,
           snapshot |-> u.snapshot, rules |-> u.rules, diag |-> NONE]
  BY <1>1, <1>2
<1>4. v = [epoch |-> v.epoch, status |-> v.status, scope |-> v.scope,
           snapshot |-> v.snapshot, rules |-> v.rules, diag |-> v.diag]
      /\ v.snapshot = u.snapshot /\ v.diag = NONE
  BY <1>3
<1>5. GoodPanel(v)
  BY <1>2, <1>4 DEF GoodPanel
<1> QED BY <1>5 DEF v

(* Another status leaves the rest as it was.                               *)
LEMMA StatusGood ==
    ASSUME NEW u, GoodPanel(u), NEW status
    PROVE  GoodPanel([u EXCEPT !.status = status])
<1> DEFINE v == [u EXCEPT !.status = status]
<1>1. u = [epoch |-> u.epoch, status |-> u.status, scope |-> u.scope,
           snapshot |-> u.snapshot, rules |-> u.rules, diag |-> u.diag]
      /\ u.snapshot \in Snapshots \cup {NONE} /\ (u.diag # NONE => GoodDiag(u.diag))
  BY DEF GoodPanel
<1>2. v = [epoch |-> u.epoch, status |-> status, scope |-> u.scope,
           snapshot |-> u.snapshot, rules |-> u.rules, diag |-> u.diag]
  BY <1>1
<1> HIDE DEF v
<1>3. v = [epoch |-> v.epoch, status |-> v.status, scope |-> v.scope,
           snapshot |-> v.snapshot, rules |-> v.rules, diag |-> v.diag]
      /\ v.snapshot = u.snapshot /\ v.diag = u.diag
  BY <1>2
<1>4. GoodPanel(v)
  BY <1>1, <1>3 DEF GoodPanel
<1> QED BY <1>4 DEF v

LEMMA BlankGood ==
    ASSUME NEW epoch, NEW scope
    PROVE  GoodPanel(Blank(epoch, scope))
BY DEF GoodPanel, Blank

LEMMA CancelledGood ==
    ASSUME NEW u, GoodPanel(u)
    PROVE  GoodPanel(Cancelled(u))
BY UnansweredGood DEF Cancelled

(* A request starts with what the rules make of the snapshot of the page.  *)
LEMMA StartGrounds ==
    ASSUME GroundInv, NEW u, GoodPanel(u), Start(u), u.snapshot # NONE,
           HasDuplicates(u.snapshot) \/ u.rules = evaluate(u.snapshot)
    PROVE  GroundInv'
<1>1. PICK heeds \in BOOLEAN :
        /\ runs' = {r \in runs : ~Ends(r)} \cup
               {[gen |-> ctl.gen + 1, heeds |-> heeds, attempt |-> 0, timer |-> TRUE,
                 snapshot |-> u.snapshot, sent |-> buildContext(u.snapshot, u.rules)]}
        /\ ui' = IF \E r \in runs : Ends(r)
                 THEN Unanswered(u, "stale") ELSE [u EXCEPT !.status = "running"]
  BY DEF Start
<1>2. GoodPanel(ui')
  BY <1>1, UnansweredGood, StatusGood
<1> DEFINE q == [gen |-> ctl.gen + 1, heeds |-> heeds, attempt |-> 0, timer |-> TRUE,
                 snapshot |-> u.snapshot, sent |-> buildContext(u.snapshot, u.rules)]
<1>3. /\ q = [gen |-> q.gen, heeds |-> q.heeds, attempt |-> q.attempt, timer |-> q.timer,
              snapshot |-> q.snapshot, sent |-> q.sent]
      /\ q.snapshot = u.snapshot /\ q.sent = buildContext(u.snapshot, u.rules)
  OBVIOUS
<1>4. \A r \in runs' : r \in runs \/ r = q
  BY <1>1
<1> HIDE DEF q
<1>5. u.snapshot \in Snapshots
  BY DEF GoodPanel
<1>6. GoodRun(q)
  BY <1>3, <1>5 DEF GoodRun
<1> QED BY <1>2, <1>4, <1>6 DEF GroundInv

LEMMA BuildDoneGrounds ==
    ASSUME AiInv, GroundInv, BuildDone
    PROVE  GroundInv'
<1>1. PICK b \in builds :
        LET u == Assigned(b)
        IN \/ Refused(u) /\ ui' = [u EXCEPT !.status = "local_analyzing"] /\ runs' = runs
           \/ ~Refused(u) /\ ui' = Analysed(u) /\ runs' = runs
           \/ ~Refused(u) /\ Start(Analysed(u))
  BY DEF BuildDone
<1> DEFINE u == Assigned(b)
           v == Analysed(u)
<1>2. b.snapshot \in Snapshots
  BY DEF AiInv, Built, Snapshots
<1>3. GoodPanel(u)
  <2> DEFINE w == [ui EXCEPT !.snapshot = b.snapshot]
  <2>1. ui = [epoch |-> ui.epoch, status |-> ui.status, scope |-> ui.scope,
              snapshot |-> ui.snapshot, rules |-> ui.rules, diag |-> ui.diag]
        /\ (ui.diag # NONE => GoodDiag(ui.diag)) /\ GoodPanel(ui)
    BY DEF GroundInv, GoodPanel
  <2>2. w = [epoch |-> ui.epoch, status |-> ui.status, scope |-> ui.scope,
             snapshot |-> b.snapshot, rules |-> ui.rules, diag |-> ui.diag]
    BY <2>1
  <2> HIDE DEF w
  <2>3. w = [epoch |-> w.epoch, status |-> w.status, scope |-> w.scope,
             snapshot |-> w.snapshot, rules |-> w.rules, diag |-> w.diag]
        /\ w.snapshot = b.snapshot /\ w.diag = ui.diag
    BY <2>2
  <2>4. GoodPanel(w)
    BY <1>2, <2>1, <2>3 DEF GoodPanel
  <2>5. u = w \/ u = ui
    BY DEF Assigned, w
  <2> QED BY <2>1, <2>4, <2>5
<1> HIDE DEF u
<1>4. ~Refused(u) => GoodPanel(v) /\ v.snapshot # NONE /\ v.rules = evaluate(v.snapshot)
  <2> SUFFICES ASSUME ~Refused(u) PROVE GoodPanel(v) /\ v.snapshot # NONE /\ v.rules = evaluate(v.snapshot)
    OBVIOUS
  <2>1. u = [epoch |-> u.epoch, status |-> u.status, scope |-> u.scope,
             snapshot |-> u.snapshot, rules |-> u.rules, diag |-> u.diag]
        /\ u.snapshot \in Snapshots \cup {NONE} /\ u.snapshot # NONE
    BY <1>3 DEF GoodPanel, Refused
  <2>2. v = [u EXCEPT !.rules = evaluate(u.snapshot), !.diag = NONE, !.status = "local_complete"]
    BY DEF Analysed
  <2> HIDE DEF v
  <2>3. v = [epoch |-> u.epoch, status |-> "local_complete", scope |-> u.scope,
             snapshot |-> u.snapshot, rules |-> evaluate(u.snapshot), diag |-> NONE]
    BY <2>1, <2>2
  <2>4. v = [epoch |-> v.epoch, status |-> v.status, scope |-> v.scope,
             snapshot |-> v.snapshot, rules |-> v.rules, diag |-> v.diag]
        /\ v.snapshot = u.snapshot /\ v.diag = NONE /\ v.rules = evaluate(u.snapshot)
    BY <2>3
  <2> QED BY <2>1, <2>4 DEF GoodPanel
<1>5. CASE Refused(u) /\ ui' = [u EXCEPT !.status = "local_analyzing"] /\ runs' = runs
  BY <1>3, <1>5, StatusGood DEF GroundInv
<1>6. CASE ~Refused(u) /\ ui' = v /\ runs' = runs
  BY <1>4, <1>6 DEF GroundInv
<1>7. CASE ~Refused(u) /\ Start(v)
  <2> HIDE DEF v
  <2> QED BY <1>4, <1>7, StartGrounds
<1> QED BY <1>1, <1>5, <1>6, <1>7 DEF u

LEMMA AnswerGrounds ==
    ASSUME GroundInv, NEW r \in runs, NEW raw, Answer(r, raw)
    PROVE  GroundInv'
<1>1. runs' = runs \ {r} /\ GoodPanel(ui) /\ GoodRun(r)
  BY DEF Answer, GroundInv
<1>2. CASE \E status \in {"stale", "failed"} : ui' = Unanswered(ui, status)
  BY <1>1, <1>2, UnansweredGood DEF GroundInv
<1>3. CASE /\ validate(raw, r.sent.evidence)
           /\ ui' = [ui EXCEPT !.status = "completed",
                               !.diag = [gen |-> r.gen, cites |-> raw.cites, snapshot |-> r.snapshot]]
  <2> DEFINE d == [gen |-> r.gen, cites |-> raw.cites, snapshot |-> r.snapshot]
  <2>1. d.cites = raw.cites /\ d.snapshot = r.snapshot
    OBVIOUS
  <2> HIDE DEF d
  <2>2. GoodDiag(d)
    BY <1>1, <1>3, <2>1 DEF GoodDiag, GoodRun, validate
  <2>3. ui = [epoch |-> ui.epoch, status |-> ui.status, scope |-> ui.scope,
              snapshot |-> ui.snapshot, rules |-> ui.rules, diag |-> ui.diag]
        /\ ui.snapshot \in Snapshots \cup {NONE}
    BY <1>1 DEF GoodPanel
  <2>4. ui' = [ui EXCEPT !.status = "completed", !.diag = d]
    BY <1>3 DEF d
  <2>5. ui' = [epoch |-> ui.epoch, status |-> "completed", scope |-> ui.scope,
               snapshot |-> ui.snapshot, rules |-> ui.rules, diag |-> d]
    BY <2>3, <2>4
  <2>6. ui' = [epoch |-> ui'.epoch, status |-> ui'.status, scope |-> ui'.scope,
               snapshot |-> ui'.snapshot, rules |-> ui'.rules, diag |-> ui'.diag]
        /\ ui'.snapshot = ui.snapshot /\ ui'.diag = d
    BY <2>5
  <2>7. GoodPanel(ui')
    BY <2>2, <2>3, <2>6 DEF GoodPanel
  <2> QED BY <1>1, <2>7 DEF GroundInv
<1> QED BY <1>2, <1>3 DEF Answer

LEMMA GroundNext ==
    ASSUME AiInv, GroundInv, [NextPanel]_panelVars
    PROVE  GroundInv'
<1>1. CASE ClickLocal \/ ClickAskFirst
  BY <1>1, StatusGood DEF ClickLocal, ClickAskFirst, Build, GroundInv
<1>2. CASE ClickAskWithoutConsent
  BY <1>2, StatusGood DEF ClickAskWithoutConsent, GroundInv
<1>3. CASE ClickAsk
  <2>1. Start(ui) /\ GoodPanel(ui) /\ ui.snapshot # NONE
        /\ (HasDuplicates(ui.snapshot) \/ ui.rules = evaluate(ui.snapshot))
    BY <1>3 DEF ClickAsk, AiInv, FindingsOfSnapshot, GroundInv
  <2> QED BY <2>1, StartGrounds
<1>4. CASE ClickCancel
  <2>1. runs' \subseteq runs /\ ui' = Cancelled([ui EXCEPT !.status = "cancelled"])
    BY <1>4 DEF ClickCancel, cancel
  <2>2. GoodPanel(ui')
    BY <2>1, StatusGood, CancelledGood DEF GroundInv
  <2> QED BY <2>1, <2>2 DEF GroundInv
<1>5. CASE ChangeScope \/ Clear
  <2>1. runs' \subseteq runs /\ \E epoch, scope : ui' = Cancelled(Blank(epoch, scope))
    BY <1>5 DEF ChangeScope, Clear, cancel
  <2>2. GoodPanel(ui')
    BY <2>1, BlankGood, CancelledGood
  <2> QED BY <2>1, <2>2 DEF GroundInv
<1>6. CASE BuildDone
  BY <1>6, BuildDoneGrounds
<1>7. CASE ProviderAnswers \/ ProviderAnswersBadly
  BY <1>7, AnswerGrounds DEF ProviderAnswers, ProviderAnswersBadly
<1>8. CASE ProviderFails
  <2>1. PICK r \in runs :
          \/ runs' = (runs \ {r}) \cup {[r EXCEPT !.attempt = @ + 1]} /\ UNCHANGED ui
          \/ /\ runs' = runs \ {r}
             /\ \E status \in {"stale", "failed", "cancelled"} : ui' = Unanswered(ui, status)
    BY <1>8 DEF ProviderFails
  <2>2. GoodRun([r EXCEPT !.attempt = @ + 1])
    <3> DEFINE q == [r EXCEPT !.attempt = @ + 1]
    <3>1. /\ r = [gen |-> r.gen, heeds |-> r.heeds, attempt |-> r.attempt, timer |-> r.timer,
                  snapshot |-> r.snapshot, sent |-> r.sent]
          /\ r.snapshot \in Snapshots
          /\ HasDuplicates(r.snapshot) \/ r.sent = buildContext(r.snapshot, evaluate(r.snapshot))
      BY DEF GroundInv, GoodRun
    <3>2. q = [gen |-> r.gen, heeds |-> r.heeds, attempt |-> r.attempt + 1, timer |-> r.timer,
               snapshot |-> r.snapshot, sent |-> r.sent]
      BY <3>1
    <3> HIDE DEF q
    <3>3. /\ q = [gen |-> q.gen, heeds |-> q.heeds, attempt |-> q.attempt, timer |-> q.timer,
                  snapshot |-> q.snapshot, sent |-> q.sent]
          /\ q.snapshot = r.snapshot /\ q.sent = r.sent
      BY <3>2
    <3>4. GoodRun(q)
      BY <3>1, <3>3 DEF GoodRun
    <3> QED BY <3>4 DEF q
  <2>3. \A s \in runs' : GoodRun(s)
    BY <2>1, <2>2 DEF GroundInv
  <2>4. GoodPanel(ui')
    BY <2>1, UnansweredGood DEF GroundInv
  <2> QED BY <2>3, <2>4 DEF GroundInv
<1>9. CASE TimerFires
  <2>1. PICK r \in runs :
          /\ runs' = {IF s = r THEN [s EXCEPT !.timer = FALSE] ELSE s : s \in runs \ TimedOut(r)}
          /\ UNCHANGED ui \/ ui' = Unanswered(ui, "failed")
    BY <1>9 DEF TimerFires
  <2>2. GoodRun([r EXCEPT !.timer = FALSE])
    <3> DEFINE no == FALSE
               q == [r EXCEPT !.timer = no]
    <3> HIDE DEF no
    <3>1. /\ r = [gen |-> r.gen, heeds |-> r.heeds, attempt |-> r.attempt, timer |-> r.timer,
                  snapshot |-> r.snapshot, sent |-> r.sent]
          /\ r.snapshot \in Snapshots
          /\ HasDuplicates(r.snapshot) \/ r.sent = buildContext(r.snapshot, evaluate(r.snapshot))
      BY DEF GroundInv, GoodRun
    <3>2. q = [gen |-> r.gen, heeds |-> r.heeds, attempt |-> r.attempt, timer |-> no,
               snapshot |-> r.snapshot, sent |-> r.sent]
      BY <3>1
    <3> HIDE DEF q
    <3>3. /\ q = [gen |-> q.gen, heeds |-> q.heeds, attempt |-> q.attempt, timer |-> q.timer,
                  snapshot |-> q.snapshot, sent |-> q.sent]
          /\ q.snapshot = r.snapshot /\ q.sent = r.sent
      BY <3>2
    <3>4. GoodRun(q)
      BY <3>1, <3>3 DEF GoodRun
    <3> QED BY <3>4 DEF q, no
  <2>3. \A s \in runs' : GoodRun(s)
    <3>1. \A s \in runs' : s \in runs \/ s = [r EXCEPT !.timer = FALSE]
      BY <2>1
    <3> QED BY <2>2, <3>1 DEF GroundInv
  <2>4. GoodPanel(ui')
    BY <2>1, UnansweredGood DEF GroundInv
  <2> QED BY <2>3, <2>4 DEF GroundInv
<1>10. CASE ToggleConsent \/ NewData \/ UNCHANGED panelVars
  BY <1>10 DEF ToggleConsent, NewData, panelVars, GroundInv
<1> QED BY <1>1, <1>2, <1>3, <1>4, <1>5, <1>6, <1>7, <1>8, <1>9, <1>10 DEF NextPanel

(* For every set of pages and every budget, whatever overlaps: a request   *)
(* holds every item its findings cite and nothing the snapshot has not,    *)
(* never leaves a warning on the data out and keeps to the budget but for  *)
(* those; what is shown of an answer cites what was sent (buildContext and *)
(* AnalysisController.run of ai_provider.js, diagnosis_validator.js).      *)
THEOREM RequestsAreGrounded ==
    SpecPanel => []Grounded
<1>1. InitPanel => GroundInv
  <2> SUFFICES ASSUME InitPanel PROVE GroundInv
    OBVIOUS
  <2>1. ui = Blank(0, "session") /\ runs = {}
    BY DEF InitPanel
  <2> QED BY <2>1, BlankGood DEF GroundInv
<1>2. AiInv /\ GroundInv /\ [NextPanel]_panelVars => GroundInv'
  BY GroundNext
<1>3. GroundInv => Grounded
  <2> SUFFICES ASSUME GroundInv PROVE Grounded
    OBVIOUS
  <2>1. ASSUME NEW r \in runs, ~HasDuplicates(r.snapshot)
        PROVE  LET quality == {f \in evaluate(r.snapshot) : IsQuality(f)}
               IN /\ \A f \in r.sent.findings : f.cites # {} /\ f.cites \subseteq r.sent.evidence
                  /\ r.sent.evidence \subseteq EvidenceOf(r.snapshot)
                  /\ quality \subseteq r.sent.findings
                  /\ Size(r.sent) > BUDGET =>
                       r.sent.findings = quality /\ r.sent.evidence = UNION {f.cites : f \in quality}
    <3> DEFINE s == r.snapshot
               F == evaluate(s)
    <3>1. s \in Snapshots /\ r.sent = buildContext(s, F) /\ ~HasDuplicates(s)
      BY <2>1 DEF GroundInv, GoodRun
    <3>2. Sendable(F, EvidenceOf(s))
      <4> HIDE DEF s
      <4> QED BY <3>1, SnapshotIs, EvaluateIs DEF Sendable
    <3> HIDE DEF s, F
    <3>3. LET c == buildContext(s, F)
              quality == {f \in F : IsQuality(f)}
          IN /\ \A f \in c.findings : f.cites # {} /\ f.cites \subseteq c.evidence
             /\ c.evidence \subseteq EvidenceOf(s)
             /\ quality \subseteq c.findings
             /\ Size(c) > BUDGET =>
                  c.findings = quality /\ c.evidence = UNION {f.cites : f \in quality}
      BY <3>2, ContextIs
    <3> QED BY <3>1, <3>3 DEF s, F
  <2>2. ui.diag # NONE => GoodDiag(ui.diag)
    BY DEF GroundInv, GoodPanel
  <2> QED BY <2>1, <2>2 DEF Grounded, GoodDiag
<1> QED BY <1>1, <1>2, <1>3, PanelInvariant, PTL DEF SpecPanel

-----------------------------------------------------------------------------
(* The monitor client                                                      *)

Own(s) == {s[i] : i \in DOMAIN s}

(* A trigger register holds nothing.                                       *)
IsBank(bank) == bank = [a \in Addr |-> bank[a]] /\ \A a \in Trigger : bank[a] = {}

MoTypes ==
    /\ line \in Seq(Own(line))
    /\ \A i \in DOMAIN line :
          line[i] = [tag |-> line[i].tag, seq |-> line[i].seq, addr |-> line[i].addr,
                     op |-> line[i].op, ok |-> line[i].ok, value |-> line[i].value]
    /\ IsBank(device)
    /\ values = [a \in Addr |-> values[a]]

(* The response to a write of register a that the device took; a rejected  *)
(* one moves nothing, so that it excuses nothing.                          *)
Takes(e, a) == e.addr = a /\ e.op = "write" /\ e.ok

(* A response tells what the register holds, but for what it did by itself *)
(* since, or a write was taken since.                                      *)
LineTells ==
    \A i \in DOMAIN line : line[i].addr \in Addr /\ line[i].ok =>
        \/ Drifts(line[i].addr, line[i].value, device[line[i].addr])
        \/ \E j \in DOMAIN line : j > i /\ Takes(line[j], line[i].addr)

PanelTells ==
    \A a \in Addr :
        \/ values[a] = NONE
        \/ Drifts(a, values[a], device[a])
        \/ a \in blind
        \/ \E i \in DOMAIN line : Takes(line[i], a)

MoInv == MoTypes /\ LineTells /\ PanelTells

LEMMA OwnSeq ==
    ASSUME NEW S, NEW s \in Seq(S)
    PROVE  s \in Seq(Own(s)) /\ DOMAIN s = 1 .. Len(s) /\ Len(s) \in Nat
<1>1. DOMAIN s = 1 .. Len(s) /\ Len(s) \in Nat /\ s \in [1 .. Len(s) -> S]
  BY LenProperties
<1>2. s \in [1 .. Len(s) -> Own(s)]
  BY <1>1 DEF Own
<1> QED BY <1>1, <1>2, SeqDef

(* What is left when the first response leaves the line.                   *)
LEMMA LineTail ==
    ASSUME MoTypes, line # <<>>, line' = Tail(line)
    PROVE  /\ line' \in Seq(Own(line')) /\ 1 \in DOMAIN line /\ Head(line) = line[1]
           /\ \A i \in DOMAIN line' : i \in Nat /\ i + 1 \in DOMAIN line /\ line'[i] = line[i + 1]
           /\ \A j \in DOMAIN line : j \in Nat /\ (j > 1 => j - 1 \in DOMAIN line' /\ line'[j - 1] = line[j])
<1> DEFINE S == Own(line)
<1>1. line \in Seq(S)
  BY DEF MoTypes
<1> HIDE DEF S
<1>2. /\ Tail(line) \in Seq(S) /\ Len(Tail(line)) = Len(line) - 1 /\ Len(line) \in Nat \ {0}
      /\ \A i \in 1 .. Len(Tail(line)) : Tail(line)[i] = line[i + 1]
      /\ DOMAIN line = 1 .. Len(line) /\ Head(line) = line[1]
  BY <1>1, HeadTailProperties, LenProperties, EmptySeq
<1>3. line' \in Seq(Own(line')) /\ DOMAIN line' = 1 .. Len(line')
  BY <1>2, OwnSeq
<1> QED BY <1>2, <1>3

(* A register that does nothing drifts, and two drifts are one.            *)
LEMMA DriftsOn ==
    /\ \A a, x : Drifts(a, x, x)
    /\ \A a, x, y, z : Drifts(a, x, y) /\ Drifts(a, y, z) => Drifts(a, x, z)
<1>1. \A a, x : Drifts(a, x, x)
  BY DEF Drifts
<1>2. ASSUME NEW a, NEW x, NEW y, NEW z, Drifts(a, x, y), Drifts(a, y, z) PROVE Drifts(a, x, z)
  BY <1>2 DEF Drifts
<1> QED BY <1>1, <1>2

(* A request changes its register only, and only a write that is taken;    *)
(* the answer is what the register holds then.                             *)
LEMMA BankKeeps ==
    ASSUME NEW bank, IsBank(bank), NEW r
    PROVE  /\ IsBank(BankAfter(bank, r))
           /\ \A a \in Addr : a # r.addr \/ ~TakesWrite(bank, r) => BankAfter(bank, r)[a] = bank[a]
           /\ r.addr \in Addr => Drifts(r.addr, AnswerTo(bank, r), BankAfter(bank, r)[r.addr])
<1>0. /\ \A a \in Trigger : a \in Addr /\ Live[a] = {} /\ a \notin W1C /\ bank[a] = {}
      /\ bank = [a \in Addr |-> bank[a]]
  BY BankAssumption DEF IsBank
<1>1. CASE TakesWrite(bank, r)
  <2> DEFINE x == r.addr
             new == NewValue(bank, r)
             held == (new \ Live[x]) \cup (bank[x] \cap Live[x])
  <2>1. BankAfter(bank, r) = [bank EXCEPT ![x] = held] /\ AnswerTo(bank, r) = new
    BY <1>1 DEF BankAfter, AnswerTo
  <2>2. x \in Trigger => held = {}
    <3>1. x \in Trigger => new = {} /\ Live[x] = {}
      BY <1>0 DEF NewValue
    <3> QED BY <3>1
  <2>3. Drifts(x, new, held)
    BY DEF Drifts
  <2> HIDE DEF new, held, x
  <2>4. /\ BankAfter(bank, r) = [a \in Addr |-> BankAfter(bank, r)[a]]
        /\ \A a \in Addr : a # x => BankAfter(bank, r)[a] = bank[a]
        /\ x \in Addr => BankAfter(bank, r)[x] = held
    BY <1>0, <2>1
  <2>5. \A a \in Trigger : BankAfter(bank, r)[a] = {}
    BY <1>0, <2>2, <2>4
  <2> QED BY <1>1, <2>1, <2>3, <2>4, <2>5 DEF x, IsBank
<1>2. CASE ~TakesWrite(bank, r)
  <2>1. BankAfter(bank, r) = bank /\ AnswerTo(bank, r) = OldValue(bank, r.addr)
    BY <1>2 DEF BankAfter, AnswerTo
  <2>2. OldValue(bank, r.addr) = bank[r.addr]
    BY <1>0 DEF OldValue
  <2> QED BY <2>1, <2>2, DriftsOn DEF IsBank
<1> QED BY <1>1, <1>2

LEMMA MoInit == InitMonitor => MoInv
<1> SUFFICES ASSUME InitMonitor PROVE MoInv
  OBVIOUS
<1>1. line \in Seq(Own(line)) /\ DOMAIN line = {}
  <2>1. <<>> \in Seq({})
    BY EmptySeq
  <2> QED BY <2>1, OwnSeq DEF InitMonitor
<1>2. IsBank(device)
  BY BankAssumption DEF InitMonitor, IsBank
<1> QED BY <1>1, <1>2 DEF InitMonitor, MoInv, MoTypes, LineTells, PanelTells

(* The device serves a request and its response joins the line.            *)
LEMMA MoServe ==
    ASSUME MoInv, NEW r, Serve(r), UNCHANGED <<values, blind>>
    PROVE  MoInv'
<1> DEFINE e == [tag |-> r.tag, seq |-> r.seq, addr |-> r.addr, op |-> r.op,
                 ok |-> Accepts(device, r), value |-> AnswerTo(device, r)]
           S == Own(line) \cup {e}
<1>1. line' = Append(line, e) /\ device' = BankAfter(device, r)
  BY DEF Serve
<1>2. line \in Seq(S) /\ e \in S
  <2> DEFINE O == Own(line)
  <2>1. line \in Seq(O) /\ O \subseteq S
    BY DEF MoInv, MoTypes
  <2> HIDE DEF O, S
  <2>2. line \in Seq(S)
    BY <2>1, SeqDef
  <2> QED BY <2>2 DEF S
<1>3. /\ e = [tag |-> e.tag, seq |-> e.seq, addr |-> e.addr, op |-> e.op, ok |-> e.ok, value |-> e.value]
      /\ e.addr = r.addr /\ e.op = r.op /\ e.ok = Accepts(device, r) /\ e.value = AnswerTo(device, r)
  OBVIOUS
<1> HIDE DEF S, e
<1>4. /\ line' \in Seq(Own(line')) /\ Len(line) \in Nat
      /\ DOMAIN line' = 1 .. Len(line) + 1 /\ DOMAIN line = 1 .. Len(line)
      /\ \A i \in 1 .. Len(line) : line'[i] = line[i]
      /\ line'[Len(line) + 1] = e
  <2>1. /\ line' \in Seq(S) /\ Len(line') = Len(line) + 1
        /\ \A i \in 1 .. Len(line) : line'[i] = line[i]
        /\ line'[Len(line) + 1] = e
    BY <1>1, <1>2, AppendProperties
  <2>2. Len(line) \in Nat /\ DOMAIN line = 1 .. Len(line) /\ DOMAIN line' = 1 .. Len(line')
    BY <1>2, <2>1, LenProperties
  <2>3. line' \in Seq(Own(line'))
    BY <2>1, OwnSeq
  <2> QED BY <2>1, <2>2, <2>3
<1> DEFINE m == Len(line) + 1
<1>5. /\ m \in DOMAIN line' /\ line'[m] = e
      /\ \A i \in DOMAIN line : i \in DOMAIN line' /\ line'[i] = line[i] /\ m > i
      /\ \A i \in DOMAIN line' : i = m \/ i \in DOMAIN line
  BY <1>4
<1> HIDE DEF m
<1>6. IsBank(device') /\ (r.addr \in Addr => Drifts(r.addr, e.value, device'[r.addr]))
      /\ \A a \in Addr : a # r.addr \/ ~TakesWrite(device, r) => device'[a] = device[a]
  BY <1>1, <1>3, BankKeeps DEF MoInv, MoTypes
(* A register the request does not change, or a new write on the line.     *)
<1>7. \A a \in Addr : device'[a] = device[a] \/ Takes(e, a)
  BY <1>3, <1>6 DEF Takes, TakesWrite
<1>8. MoTypes'
  <2>1. \A i \in DOMAIN line' :
          line'[i] = [tag |-> line'[i].tag, seq |-> line'[i].seq, addr |-> line'[i].addr,
                      op |-> line'[i].op, ok |-> line'[i].ok, value |-> line'[i].value]
    BY <1>3, <1>5 DEF MoInv, MoTypes
  <2> QED BY <1>4, <1>6, <2>1 DEF MoInv, MoTypes, IsBank
<1>9. LineTells'
  <2> SUFFICES ASSUME NEW i \in DOMAIN line', line'[i].addr \in Addr, line'[i].ok
               PROVE  \/ Drifts(line'[i].addr, line'[i].value, device'[line'[i].addr])
                      \/ \E j \in DOMAIN line' : j > i /\ Takes(line'[j], line'[i].addr)
    BY DEF LineTells, Takes
  <2>1. CASE i = m
    BY <1>3, <1>5, <1>6, <2>1
  <2>2. CASE i \in DOMAIN line
    <3>1. \/ Drifts(line[i].addr, line[i].value, device[line[i].addr])
          \/ \E j \in DOMAIN line : j > i /\ Takes(line[j], line[i].addr)
      BY <1>5, <2>2 DEF MoInv, LineTells
    <3> QED BY <1>5, <1>7, <2>2, <3>1
  <2> QED BY <1>5, <2>1, <2>2
<1>10. PanelTells'
  <2> SUFFICES ASSUME NEW a \in Addr
               PROVE  \/ values'[a] = NONE \/ Drifts(a, values'[a], device'[a])
                      \/ a \in blind'
                      \/ \E i \in DOMAIN line' : Takes(line'[i], a)
    BY DEF PanelTells, Takes
  <2>1. \/ values[a] = NONE \/ Drifts(a, values[a], device[a]) \/ a \in blind
        \/ \E i \in DOMAIN line : Takes(line[i], a)
    BY DEF MoInv, PanelTells
  <2> QED BY <1>5, <1>7, <2>1
<1> QED BY <1>8, <1>9, <1>10 DEF MoInv

(* What remains of LineTells when the first response leaves.               *)
LEMMA MoTail ==
    ASSUME MoInv, line # <<>>, line' = Tail(line), device' = device, values' = [a \in Addr |-> values'[a]]
    PROVE  MoTypes' /\ LineTells'
<1>1. MoTypes'
  <2>1. \A i \in DOMAIN line' :
          line'[i] = [tag |-> line'[i].tag, seq |-> line'[i].seq, addr |-> line'[i].addr,
                      op |-> line'[i].op, ok |-> line'[i].ok, value |-> line'[i].value]
    BY LineTail DEF MoInv, MoTypes
  <2> QED BY <2>1, LineTail DEF MoInv, MoTypes
<1>2. LineTells'
  <2> SUFFICES ASSUME NEW i \in DOMAIN line', line'[i].addr \in Addr, line'[i].ok
               PROVE  \/ Drifts(line'[i].addr, line'[i].value, device'[line'[i].addr])
                      \/ \E j \in DOMAIN line' : j > i /\ Takes(line'[j], line'[i].addr)
    BY DEF LineTells, Takes
  <2>1. i \in Nat /\ i + 1 \in DOMAIN line /\ line'[i] = line[i + 1]
    BY LineTail DEF MoInv
  <2>2. \/ Drifts(line[i + 1].addr, line[i + 1].value, device[line[i + 1].addr])
        \/ \E j \in DOMAIN line : j > i + 1 /\ Takes(line[j], line[i + 1].addr)
    BY <2>1 DEF MoInv, LineTells
  <2>3. ASSUME NEW j \in DOMAIN line, j > i + 1, Takes(line[j], line[i + 1].addr)
        PROVE  \E k \in DOMAIN line' : k > i /\ Takes(line'[k], line'[i].addr)
    <3>1. j \in Nat /\ j - 1 \in DOMAIN line' /\ line'[j - 1] = line[j]
      BY <2>1, <2>3, LineTail DEF MoInv
    <3> QED BY <2>1, <2>3, <3>1
  <2> QED BY <2>1, <2>2, <2>3
<1> QED BY <1>1, <1>2

LEMMA MoResponse ==
    ASSUME MoInv, Response
    PROVE  MoInv'
<1> DEFINE r == line[1]
<1>1. line # <<>> /\ line' = Tail(line) /\ device' = device
  BY DEF Response
<1>2. /\ 1 \in DOMAIN line /\ Head(line) = r
      /\ \A j \in DOMAIN line : j \in Nat /\ (j > 1 => j - 1 \in DOMAIN line' /\ line'[j - 1] = line[j])
      /\ \A j \in DOMAIN line : j = 1 \/ j > 1
  <2>1. DOMAIN line = 1 .. Len(line) /\ Len(line) \in Nat
    BY LenProperties DEF MoInv, MoTypes
  <2> QED BY <1>1, <2>1, LineTail DEF MoInv
<1>3. /\ values' = IF r.ok THEN [values EXCEPT ![r.addr] = r.value] ELSE values
      /\ blind' = IF r.ok THEN blind \ {r.addr} ELSE blind
  BY <1>2 DEF Response, Shows
<1> HIDE DEF r
<1>4. values' = [a \in Addr |-> values'[a]]
  BY <1>3 DEF MoInv, MoTypes
<1>5. PanelTells'
  <2> SUFFICES ASSUME NEW a \in Addr
               PROVE  \/ values'[a] = NONE \/ Drifts(a, values'[a], device'[a])
                      \/ a \in blind'
                      \/ \E i \in DOMAIN line' : Takes(line'[i], a)
    BY DEF PanelTells, Takes
  <2>1. \/ values[a] = NONE \/ Drifts(a, values[a], device[a]) \/ a \in blind
        \/ \E i \in DOMAIN line : Takes(line[i], a)
    BY DEF MoInv, PanelTells
  <2>2. CASE r.ok /\ r.addr = a
    <3>1. values'[a] = r.value
      BY <1>3, <2>2 DEF MoInv, MoTypes
    <3>2. \/ Drifts(a, r.value, device[a])
          \/ \E j \in DOMAIN line : j > 1 /\ Takes(line[j], a)
      BY <1>2, <2>2 DEF MoInv, LineTells, r
    <3> QED BY <1>1, <1>2, <3>1, <3>2
  <2>3. CASE ~(r.ok /\ r.addr = a)
    <3>1. values'[a] = values[a] /\ (a \in blind => a \in blind')
      BY <1>3, <2>3 DEF MoInv, MoTypes
    <3>2. ~Takes(line[1], a)
      BY <2>3 DEF Takes, r
    <3> QED BY <1>1, <1>2, <2>1, <3>1, <3>2
  <2> QED BY <2>2, <2>3
<1> QED BY <1>1, <1>4, <1>5, MoTail DEF MoInv

(* Registers change by themselves.                                         *)
LEMMA MoDrifts ==
    ASSUME MoInv, DeviceChanges
    PROVE  MoInv'
<1>1. line' = line /\ values' = values /\ blind' = blind
  BY DEF DeviceChanges, viewer
<1>2. IsBank(device') /\ \A a \in Addr : Drifts(a, device[a], device'[a])
  <2>1. PICK x \in Addr, v \in Value : Drifts(x, device[x], v) /\ device' = [device EXCEPT ![x] = v]
    BY DEF DeviceChanges
  <2>2. device = [a \in Addr |-> device[a]] /\ \A a \in Trigger : a \in Addr /\ a \notin W1C /\ Live[a] = {} /\ device[a] = {}
    BY BankAssumption DEF MoInv, MoTypes, IsBank
  <2>3. x \in Trigger => v = {}
    BY <2>1, <2>2 DEF Drifts
  <2>4. device' = [a \in Addr |-> device'[a]] /\ device'[x] = v /\ \A a \in Addr : a # x => device'[a] = device[a]
    BY <2>1, <2>2
  <2> QED BY <2>1, <2>2, <2>3, <2>4, DriftsOn DEF IsBank
<1>3. Own(line)' = Own(line) /\ MoTypes'
  BY <1>1, <1>2 DEF MoInv, MoTypes, Own
<1>4. LineTells'
  BY <1>1, <1>2, DriftsOn DEF MoInv, LineTells, Takes
<1>5. PanelTells'
  BY <1>1, <1>2, DriftsOn DEF MoInv, PanelTells, Takes
<1> QED BY <1>3, <1>4, <1>5 DEF MoInv

LEMMA MoLost ==
    ASSUME MoInv, ResponseLost
    PROVE  MoInv'
<1>1. /\ line # <<>> /\ line' = Tail(line) /\ device' = device /\ values' = values
      /\ blind' = IF Head(line).op = "write" THEN blind \cup {Head(line).addr} ELSE blind
  BY DEF ResponseLost, viewer
<1>2. /\ 1 \in DOMAIN line /\ Head(line) = line[1]
      /\ \A j \in DOMAIN line : j \in Nat /\ (j > 1 => j - 1 \in DOMAIN line' /\ line'[j - 1] = line[j])
      /\ \A j \in DOMAIN line : j = 1 \/ j > 1
  <2>1. DOMAIN line = 1 .. Len(line) /\ Len(line) \in Nat
    BY LenProperties DEF MoInv, MoTypes
  <2> QED BY <1>1, <2>1, LineTail DEF MoInv
<1>3. PanelTells'
  <2> SUFFICES ASSUME NEW a \in Addr
               PROVE  \/ values'[a] = NONE \/ Drifts(a, values'[a], device'[a])
                      \/ a \in blind'
                      \/ \E i \in DOMAIN line' : Takes(line'[i], a)
    BY DEF PanelTells, Takes
  <2>1. \/ values[a] = NONE \/ Drifts(a, values[a], device[a]) \/ a \in blind
        \/ \E i \in DOMAIN line : Takes(line[i], a)
    BY DEF MoInv, PanelTells
  <2>2. Takes(line[1], a) => a \in blind'
    BY <1>1, <1>2 DEF Takes
  <2> QED BY <1>1, <1>2, <2>1, <2>2
<1> QED BY <1>1, <1>3, MoTail DEF MoInv, MoTypes

(* A clear shows nothing and leaves the line its responses.                *)
LEMMA MoClear ==
    ASSUME MoInv, clearAllRequests
    PROVE  MoInv'
<1>1. /\ values' = [a \in Addr |-> NONE] /\ device' = device
      /\ line' = [i \in DOMAIN line |-> [line[i] EXCEPT !.tag = NONE]]
  BY DEF clearAllRequests, Aged
<1>2. DOMAIN line = 1 .. Len(line) /\ Len(line) \in Nat
  BY LenProperties DEF MoInv, MoTypes
<1>3. /\ DOMAIN line' = DOMAIN line
      /\ \A i \in DOMAIN line :
            /\ line'[i] = [tag |-> NONE, seq |-> line[i].seq, addr |-> line[i].addr,
                           op |-> line[i].op, ok |-> line[i].ok, value |-> line[i].value]
            /\ line'[i] = [tag |-> line'[i].tag, seq |-> line'[i].seq, addr |-> line'[i].addr,
                           op |-> line'[i].op, ok |-> line'[i].ok, value |-> line'[i].value]
  BY <1>1 DEF MoInv, MoTypes
<1>4. line' \in Seq(Own(line'))
  <2>1. line' \in [1 .. Len(line) -> Own(line')]
    BY <1>1, <1>2 DEF Own
  <2> QED BY <1>2, <2>1, SeqDef
<1>5. MoTypes'
  BY <1>1, <1>3, <1>4 DEF MoInv, MoTypes
<1>6. LineTells'
  <2>1. \A i \in DOMAIN line : /\ line'[i].addr = line[i].addr /\ line'[i].op = line[i].op
                               /\ line'[i].ok = line[i].ok /\ line'[i].value = line[i].value
    BY <1>3
  <2>2. \A i \in DOMAIN line, a \in Addr : Takes(line'[i], a) <=> Takes(line[i], a)
    BY <2>1 DEF Takes
  <2> SUFFICES ASSUME NEW i \in DOMAIN line', line'[i].addr \in Addr, line'[i].ok
               PROVE  \/ Drifts(line'[i].addr, line'[i].value, device'[line'[i].addr])
                      \/ \E j \in DOMAIN line' : j > i /\ Takes(line'[j], line'[i].addr)
    BY DEF LineTells, Takes
  <2>3. \/ Drifts(line[i].addr, line[i].value, device[line[i].addr])
        \/ \E j \in DOMAIN line : j > i /\ Takes(line[j], line[i].addr)
    BY <1>3, <2>1 DEF MoInv, LineTells
  <2> QED BY <1>1, <1>3, <2>1, <2>2, <2>3
<1>7. PanelTells'
  BY <1>1 DEF PanelTells
<1> QED BY <1>5, <1>6, <1>7 DEF MoInv

(* The panel never knows better than the device, whatever the order of     *)
(* requests, timeouts, losses and clears.                                  *)
THEOREM MonitorInvariant == SpecMonitor => []MoInv
<1>1. MoInv /\ [NextMonitor]_monitorVars => MoInv'
  <2> SUFFICES ASSUME MoInv, [NextMonitor]_monitorVars PROVE MoInv'
    OBVIOUS
  <2>1. CASE UNCHANGED <<line, device, values, blind>>
    <3>1. Own(line)' = Own(line) /\ MoTypes'
      BY <2>1 DEF MoInv, MoTypes, Own, IsBank
    <3>2. LineTells' /\ PanelTells'
      BY <2>1 DEF MoInv, LineTells, PanelTells, Takes
    <3> QED BY <3>1, <3>2 DEF MoInv
  <2>2. ASSUME NEW i, NEW served, SendMonitorBytesNow(i, served) PROVE MoInv'
    <3>1. UNCHANGED <<values, blind>> /\ (Serve(queue[i]) \/ UNCHANGED <<line, device>>)
      BY <2>2 DEF SendMonitorBytesNow
    <3> QED BY <2>1, <3>1, MoServe
  <2>3. CASE Written \/ WriteFails
    BY <2>2, <2>3 DEF Written, WriteFails
  <2>4. CASE \/ \E a \in UserReads : monitorRead(a)
             \/ \E w \in UserWrites : monitorWrite(w[1], w[2], w[3])
             \/ \E p \in 1 .. APPLIERS, x \in Configs : applyLogicAnalyzerConfig(p, x)
             \/ Poll \/ expireMonitorPending \/ UNCHANGED monitorVars
    BY <2>1, <2>4 DEF monitorRead, monitorWrite, applyLogicAnalyzerConfig, Poll,
                      expireMonitorPending, monitorVars, viewer
  <2> QED BY <2>3, <2>4, MoResponse, MoLost, MoDrifts, MoClear DEF NextMonitor
<1> QED BY <1>1, MoInit, PTL DEF SpecMonitor

(* A register is shown as the device holds it, but for what it did by      *)
(* itself since, unless the response to a write of it is on its way or was *)
(* lost (decodeMonitorReadResponse and    *)
(* decodeMonitorWriteResponse of app.js).                                  *)
THEOREM PanelShowsTheDevice == SpecMonitor => []ShownIsDevice
<1>1. MoInv => ShownIsDevice
  BY DEF MoInv, PanelTells, Takes, ShownIsDevice
<1> QED BY <1>1, MonitorInvariant, PTL

(* What a request is while it is tracked, and while it is queued.          *)
Tags    == 0 .. SEQ_MAX - 1
Tracked == {e \in [tag : Tags, seq : 1 .. SEQ_MAX] : e.seq = e.tag + 1}
Request == {e \in [tag : Tags \cup {NONE}, seq : 1 .. SEQ_MAX,
                   op : {"read", "write"}, addr : Addr, value : Value, mask : Value,
                   by : 0 .. APPLIERS] : e.tag = NONE \/ e.seq = e.tag + 1}
Numbered == {v \in [seq : 1 .. SEQ_MAX, issued : Tags, pending : Seq(Tracked), queue : Seq(Request)] :
                v.seq = v.issued + 1}

Settings == Configs \cup {DefaultConfig}

(* Since the last clear the sequence number of a request is one more than  *)
(* its tag, wherever the request is.                                       *)
ClientInv ==
    /\ Client \in Numbered
    /\ \A i \in DOMAIN line : line[i].tag = NONE \/ (line[i].tag \in Tags /\ line[i].seq = line[i].tag + 1)
    /\ config \in Settings /\ own \in [1 .. APPLIERS -> Settings \cup {NONE}]
    /\ steps \in [1 .. APPLIERS -> 0 .. Len(ConfigOrder)]
    /\ device \in [Addr -> Value]
    /\ AnswersMatch

LEMMA ClientFields ==
    ASSUME NEW v \in Numbered
    PROVE  /\ v.seq \in 1 .. SEQ_MAX /\ v.issued \in Tags /\ v.pending \in Seq(Tracked)
           /\ v.queue \in Seq(Request) /\ v.seq = v.issued + 1
           /\ v = [seq |-> v.seq, issued |-> v.issued, pending |-> v.pending, queue |-> v.queue]
  BY DEF Numbered

LEMMA TrackKeeps ==
    ASSUME NEW s \in Seq(Tracked), NEW r \in Tracked
    PROVE  trackMonitorPending(s, r) \in Seq(Tracked)
<1> DEFINE same == {i \in DOMAIN s : s[i].seq = r.seq}
<1>1. CASE same = {}
  BY <1>1, AppendProperties DEF trackMonitorPending
<1>2. CASE same # {}
  <2>1. trackMonitorPending(s, r) = [i \in DOMAIN s |-> IF i \in same THEN r ELSE s[i]]
    BY <1>2 DEF trackMonitorPending
  <2>2. DOMAIN s = 1 .. Len(s) /\ Len(s) \in Nat /\ \A i \in DOMAIN s : s[i] \in Tracked
    BY LenProperties, ElementOfSeq
  <2> HIDE DEF same
  <2>3. [i \in DOMAIN s |-> IF i \in same THEN r ELSE s[i]] \in [1 .. Len(s) -> Tracked]
    BY <2>2
  <2> QED BY <2>1, <2>2, <2>3, SeqDef
<1> QED BY <1>1, <1>2

(* One request more keeps the numbering: the number wraps with the tag.    *)
LEMMA IssueKeeps ==
    ASSUME NEW v \in Numbered, NEW op \in {"read", "write"}, NEW a \in Addr,
           NEW x \in Value, NEW m \in Value, NEW by \in 0 .. APPLIERS
    PROVE  Issue(v, op, a, x, m, by) \in Numbered
<1> DEFINE t == [tag |-> v.issued, seq |-> v.seq]
           e == [tag |-> v.issued, seq |-> v.seq, op |-> op, addr |-> a, value |-> x, mask |-> m, by |-> by]
           s == nextMonitorSeq(v.seq)
           n == (v.issued + 1) % SEQ_MAX
<1>0. SEQ_MAX \in Nat \ {0}
  BY MonitorAssumption
<1>1. t \in Tracked /\ e \in Request
  BY ClientFields DEF Tracked, Request, Tags
<1>2. s \in 1 .. SEQ_MAX /\ n \in Tags /\ s = n + 1
  <2>1. v.issued \in 0 .. SEQ_MAX - 1 /\ v.seq = v.issued + 1
    BY ClientFields DEF Tags
  <2>2. CASE v.issued = SEQ_MAX - 1
    <3>1. SEQ_MAX % SEQ_MAX = 0
      BY <1>0
    <3> QED BY <1>0, <2>1, <2>2, <3>1 DEF nextMonitorSeq, Tags
  <2>3. CASE v.issued # SEQ_MAX - 1
    <3>1. (v.issued + 1) % SEQ_MAX = v.issued + 1
      BY <1>0, <2>1, <2>3, ModSmall
    <3> QED BY <1>0, <2>1, <2>3, <3>1 DEF nextMonitorSeq, Tags
  <2> QED BY <2>2, <2>3
<1> HIDE DEF t, e, s, n
<1>3. trackMonitorPending(v.pending, t) \in Seq(Tracked) /\ Append(v.queue, e) \in Seq(Request)
  BY <1>1, ClientFields, TrackKeeps, AppendProperties
<1>4. Issue(v, op, a, x, m, by) = [seq |-> s, issued |-> n, pending |-> trackMonitorPending(v.pending, t),
                                queue |-> Append(v.queue, e)]
  BY DEF Issue, t, e, s, n
<1> QED BY <1>2, <1>3, <1>4 DEF Numbered

(* What is left of a sequence of tracked requests.                         *)
LEMMA WithoutKeeps ==
    ASSUME NEW E, NEW s \in Seq(E), NEW settled
    PROVE  Without(s, settled) \in Seq(E)
<1> DEFINE n == Len(s)
           A == Seq(E)
           put(kept, k) == IF s[k] \in settled THEN kept ELSE Append(kept, s[k])
           Folds(it) == it = [T \in SUBSET (DOMAIN s) |-> IF T = {} THEN <<>> ELSE put(it[T \ {Top(T)}], Top(T))]
           f == CHOOSE it : Folds(it)
           g == [z \in (1 .. n) \X A |-> put(z[2], z[1])]
<1>1. n \in Nat /\ DOMAIN s = 1 .. n /\ \A k \in 1 .. n : s[k] \in E
  BY LenProperties, ElementOfSeq
<1>2. Without(s, settled) = f[DOMAIN s]
  BY Zenon DEF Without, FoldLeft, MapThenFoldSet, Max, Top
<1>3. /\ \A k \in 1 .. n, kept \in A : put(kept, k) \in A
      /\ <<>> \in A /\ g \in [(1 .. n) \X A -> A]
  BY <1>1, AppendProperties, EmptySeq
<1> HIDE DEF n, put, A
<1>4. Folds(f)
  <2> HIDE DEF g
  <2>1. PICK it \in [SUBSET (1 .. n) -> A] : IsLeftFold(it, n, <<>>, g)
    BY <1>1, <1>3, LeftFoldExists
  <2>2. ASSUME NEW T \in SUBSET (1 .. n), T # {}
        PROVE  g[<<Top(T), it[T \ {Top(T)}]>>] = put(it[T \ {Top(T)}], Top(T))
    BY <1>1, <2>1, <2>2, TopOf DEF g
  <2>3. Folds(it)
    BY <1>1, <2>1, <2>2 DEF IsLeftFold
  <2> QED BY <2>3
<1> HIDE DEF f, g
<1>5. f[{}] \in A
  BY <1>1, <1>3, <1>4
<1>6. ASSUME NEW k \in 1 .. n, f[1 .. k - 1] \in A PROVE f[1 .. k] \in A
  <2>1. 1 .. k # {} /\ (1 .. k) \in SUBSET (1 .. n) /\ Top(1 .. k) = k /\ (1 .. k) \ {k} = 1 .. k - 1
    BY <1>1, TopInterval
  <2>2. f[1 .. k] = put(f[1 .. k - 1], k)
    BY <1>1, <1>4, <2>1
  <2> QED BY <1>3, <1>6, <2>2
<1>7. f[1 .. n] \in A
  BY <1>1, <1>5, <1>6, FoldStays
<1> QED BY <1>1, <1>2, <1>7 DEF A

(* A round of polling adds reads at the end of the queue.                  *)
AddsReads(q, r) ==
    /\ Len(q) <= Len(r)
    /\ \A i \in DOMAIN q : i \in DOMAIN r /\ r[i] = q[i]
    /\ \A i \in DOMAIN r : i \in DOMAIN q \/ (r[i].op = "read" /\ r[i].by = 0)

(* A request is added at the end.                                          *)
Adds(q, r, op, a, x, m, by) ==
    LET n == Len(q) + 1
    IN /\ q \in Seq(Request) /\ r \in Seq(Request)
       /\ DOMAIN q = 1 .. Len(q) /\ DOMAIN r = 1 .. n
       /\ Len(q) \in Nat /\ Len(r) = n
       /\ \A i \in DOMAIN q : r[i] = q[i]
       /\ r[n].op = op /\ r[n].addr = a /\ r[n].value = x
       /\ r[n].mask = m /\ r[n].by = by

LEMMA IssueAppends ==
    ASSUME NEW v \in Numbered, NEW op \in {"read", "write"}, NEW a \in Addr,
           NEW x \in Value, NEW m \in Value, NEW by \in 0 .. APPLIERS
    PROVE  Adds(v.queue, Issue(v, op, a, x, m, by).queue, op, a, x, m, by)
<1> DEFINE r == Issue(v, op, a, x, m, by).queue
           e == [tag |-> v.issued, seq |-> v.seq, op |-> op, addr |-> a, value |-> x, mask |-> m, by |-> by]
<1>1. r = Append(v.queue, e) /\ e.op = op /\ e.addr = a /\ e.value = x /\ e.mask = m /\ e.by = by
  BY DEF Issue
<1>2. v.queue \in Seq(Request) /\ r \in Seq(Request) /\ e \in Request
  <2>1. Issue(v, op, a, x, m, by) \in Numbered
    BY IssueKeeps
  <2>2. e \in Request
    BY ClientFields DEF Request, Tags
  <2> HIDE DEF e
  <2> QED BY <2>1, <2>2, ClientFields
<1> HIDE DEF r, e
<1>3. /\ Len(r) = Len(v.queue) + 1 /\ r[Len(v.queue) + 1] = e
      /\ \A i \in 1 .. Len(v.queue) : r[i] = v.queue[i]
  BY <1>1, <1>2, AppendProperties
<1>4. /\ DOMAIN v.queue = 1 .. Len(v.queue) /\ DOMAIN r = 1 .. Len(r) /\ Len(v.queue) \in Nat
  BY <1>2, LenProperties
<1> QED BY <1>1, <1>2, <1>3, <1>4 DEF r, Adds

LEMMA AddressesAre == Addresses \in Seq(Addr)
<1> DEFINE B == {f \in [1 .. Cardinality(Addr) -> Addr] : IsInjective(f)}
<1>1. IsFiniteSet(Addr)
  BY BankAssumption
<1>2. Cardinality(Addr) \in Nat /\ \E f \in [1 .. Cardinality(Addr) -> Addr] : IsInjective(f)
  <2>1. Cardinality(Addr) \in Nat /\ ExistsBijection(1 .. Cardinality(Addr), Addr)
    BY <1>1, FS_CardinalityType
  <2>2. PICK f \in Bijection(1 .. Cardinality(Addr), Addr) : TRUE
    BY <2>1 DEF ExistsBijection
  <2>3. f \in [1 .. Cardinality(Addr) -> Addr] /\ IsInjective(f)
    BY <2>2 DEF Bijection, Injection, IsInjective
  <2> QED BY <2>1, <2>3
<1>3. SetToSeq(Addr) \in [1 .. Cardinality(Addr) -> Addr]
  BY <1>2 DEF SetToSeq
<1> QED BY <1>2, <1>3, SeqDef DEF Addresses

LEMMA PollKeeps ==
    ASSUME NEW v \in Numbered
    PROVE  monitorReadAll(v) \in Numbered /\ AddsReads(v.queue, monitorReadAll(v).queue)
<1> DEFINE s == Addresses
           n == Len(s)
           put(w, k) == Issue(w, "read", s[k], {}, {}, 0)
           Folds(it) == it = [T \in SUBSET (DOMAIN s) |-> IF T = {} THEN v ELSE put(it[T \ {Top(T)}], Top(T))]
           f == CHOOSE it : Folds(it)
           A == {w \in Numbered : AddsReads(v.queue, w.queue)}
<1>1. n \in Nat /\ DOMAIN s = 1 .. n /\ \A k \in 1 .. n : s[k] \in Addr
  BY AddressesAre, LenProperties, ElementOfSeq
<1>2. monitorReadAll(v) = f[DOMAIN s]
  BY Zenon DEF monitorReadAll, FoldLeft, MapThenFoldSet, Max, Top
<1>3. ASSUME NEW k \in 1 .. n, NEW w \in A PROVE put(w, k) \in A
  <2>1. w \in Numbered /\ AddsReads(v.queue, w.queue) /\ s[k] \in Addr /\ 0 \in 0 .. APPLIERS /\ {} \in Value
    BY <1>1, MonitorAssumption DEF Value
  <2>2. put(w, k) \in Numbered
    BY <2>1, IssueKeeps
  <2> DEFINE q == w.queue
             r == put(w, k).queue
             m == Len(q) + 1
  <2>3. /\ Len(q) \in Nat /\ Len(r) = m /\ DOMAIN q = 1 .. Len(q) /\ DOMAIN r = 1 .. m
        /\ \A i \in DOMAIN q : r[i] = q[i]
        /\ r[m].op = "read" /\ r[m].by = 0
    <3>1. "read" \in {"read", "write"} /\ {} \in Value
      BY DEF Value
    <3>2. Adds(q, r, "read", s[k], {}, {}, 0)
      BY <2>1, <3>1, IssueAppends
    <3> HIDE DEF q, r
    <3> QED BY <3>2 DEF Adds
  <2> HIDE DEF q, r
  <2>4. Len(v.queue) \in Nat
    BY ClientFields, LenProperties
  <2>5. AddsReads(v.queue, r)
    <3> DEFINE o == v.queue
    <3>1. o \in Seq(Request) /\ DOMAIN o = 1 .. Len(o) /\ Len(o) \in Nat /\ AddsReads(o, q)
      BY <2>1, <2>4, ClientFields, LenProperties DEF q
    <3> HIDE DEF o
    <3>2. Len(o) <= Len(r)
      BY <2>3, <3>1 DEF AddsReads
    <3>3. ASSUME NEW i \in DOMAIN o PROVE i \in DOMAIN r /\ r[i] = o[i]
      BY <2>3, <3>1 DEF AddsReads
    <3>4. ASSUME NEW i \in DOMAIN r, i \notin DOMAIN o PROVE r[i].op = "read" /\ r[i].by = 0
      <4>1. CASE i \in DOMAIN q
        BY <2>3, <3>1, <3>4, <4>1 DEF AddsReads
      <4>2. CASE i \notin DOMAIN q
        <5>1. i = m
          BY <2>3, <4>2
        <5> QED BY <2>3, <5>1
      <4> QED BY <4>1, <4>2
    <3>5. AddsReads(o, r)
      BY <3>2, <3>3, <3>4 DEF AddsReads
    <3> QED BY <3>5 DEF o
  <2> QED BY <2>2, <2>5 DEF r
<1>5. v \in A
  <2>1. Len(v.queue) \in Nat
    BY ClientFields, LenProperties
  <2> QED BY <2>1 DEF AddsReads
<1> HIDE DEF s, n, put, A
<1>6. Folds(f)
  <2> DEFINE g == [z \in (1 .. n) \X A |-> put(z[2], z[1])]
  <2>1. g \in [(1 .. n) \X A -> A]
    BY <1>3
  <2> HIDE DEF g
  <2>2. PICK it \in [SUBSET (1 .. n) -> A] : IsLeftFold(it, n, v, g)
    BY <1>1, <1>5, <2>1, LeftFoldExists
  <2>3. ASSUME NEW T \in SUBSET (1 .. n), T # {}
        PROVE  g[<<Top(T), it[T \ {Top(T)}]>>] = put(it[T \ {Top(T)}], Top(T))
    BY <1>1, <2>2, <2>3, TopOf DEF g
  <2>4. Folds(it)
    BY <1>1, <2>2, <2>3 DEF IsLeftFold
  <2> QED BY <2>4
<1> HIDE DEF f
<1>7. f[{}] \in A
  BY <1>1, <1>5, <1>6
<1>8. ASSUME NEW k \in 1 .. n, f[1 .. k - 1] \in A PROVE f[1 .. k] \in A
  <2>1. 1 .. k # {} /\ (1 .. k) \in SUBSET (1 .. n) /\ Top(1 .. k) = k /\ (1 .. k) \ {k} = 1 .. k - 1
    BY <1>1, TopInterval
  <2>2. f[1 .. k] = put(f[1 .. k - 1], k)
    BY <1>1, <1>6, <2>1
  <2> QED BY <1>3, <1>8, <2>2
<1>9. f[1 .. n] \in A
  BY <1>1, <1>7, <1>8, FoldStays
<1> QED BY <1>1, <1>2, <1>9 DEF A

LEMMA MoConstants ==
    /\ SEQ_MAX \in Nat \ {0} /\ APPLIERS \in Nat \ {0} /\ IsFiniteSet(Addr)
    /\ ConfigOrder \in Seq(Addr) /\ Len(ConfigOrder) \in Nat \ {0}
    /\ DOMAIN ConfigOrder = 1 .. Len(ConfigOrder)
    /\ \A k \in 1 .. Len(ConfigOrder) : ConfigOrder[k] \in Addr /\ ConfigOrder[k] \in ConfigRegs
    /\ \A a \in ConfigRegs : a \in Addr /\ \E k \in 1 .. Len(ConfigOrder) : ConfigOrder[k] = a
    /\ {} \in Value /\ Bit \in Value
    /\ \A c \in Settings : c \in [ConfigRegs -> Value] /\ c # NONE
<1>1. /\ SEQ_MAX \in Nat \ {0} /\ APPLIERS \in Nat \ {0} /\ IsFiniteSet(Addr)
      /\ ConfigOrder \in Seq(Addr) /\ ConfigOrder # <<>>
      /\ \A c \in Settings : c \in [ConfigRegs -> Value] /\ c # NONE
  BY MonitorAssumption, BankAssumption DEF Settings
<1>2. /\ Len(ConfigOrder) \in Nat \ {0} /\ \A k \in 1 .. Len(ConfigOrder) : ConfigOrder[k] \in Addr
      /\ DOMAIN ConfigOrder = 1 .. Len(ConfigOrder)
  BY <1>1, EmptySeq, ElementOfSeq, LenProperties
<1>3. {} \in Value /\ Bit \in Value
  BY DEF Value
<1> QED BY <1>1, <1>2, <1>3 DEF ConfigRegs

LEMMA CommitIs ==
    ASSUME NEW v \in Numbered, Commit(v)
    PROVE  Client' = v /\ queue' = v.queue /\ pending' = v.pending /\ seq' = v.seq /\ issued' = v.issued
  BY ClientFields DEF Commit, Client

LEMMA ClientIs ==
    ASSUME Client \in Numbered
    PROVE  /\ seq \in 1 .. SEQ_MAX /\ issued \in Tags /\ seq = issued + 1
           /\ pending \in Seq(Tracked) /\ queue \in Seq(Request)
           /\ Client.seq = seq /\ Client.issued = issued /\ Client.pending = pending /\ Client.queue = queue
  BY ClientFields DEF Client

LEMMA ClientInit == InitMonitor => ClientInv
<1> SUFFICES ASSUME InitMonitor PROVE ClientInv
  OBVIOUS
<1>1. <<>> \in Seq(Tracked) /\ <<>> \in Seq(Request) /\ DOMAIN line = {}
  <2>1. line \in Seq({})
    BY EmptySeq DEF InitMonitor
  <2> QED BY <2>1, EmptySeq, LenProperties DEF InitMonitor
<1>2. Client = [seq |-> 1, issued |-> 0, pending |-> <<>>, queue |-> <<>>]
  BY DEF InitMonitor, Client
<1>3. 1 \in 1 .. SEQ_MAX /\ 0 \in Tags /\ 1 = 0 + 1
  BY MoConstants DEF Tags
<1> DEFINE e == <<>>
<1>4. Client \in Numbered
  <2>1. e \in Seq(Tracked) /\ e \in Seq(Request) /\ Client = [seq |-> 1, issued |-> 0, pending |-> e, queue |-> e]
    BY <1>1, <1>2
  <2> HIDE DEF e
  <2> QED BY <2>1, <1>3 DEF Numbered
<1>5. config \in Settings /\ own \in [1 .. APPLIERS -> Settings \cup {NONE}] /\ device \in [Addr -> Value]
  BY MoConstants, BankAssumption DEF InitMonitor, Settings
<1>6. steps \in [1 .. APPLIERS -> 0 .. Len(ConfigOrder)]
  BY MoConstants DEF InitMonitor
<1> QED BY <1>1, <1>4, <1>5, <1>6 DEF InitMonitor, ClientInv, AnswersMatch

(* The queue without its first request.                                    *)
LEMMA QueueRest ==
    ASSUME NEW E, NEW q \in Seq(E), 1 \in DOMAIN q
    PROVE  /\ RemoveAt(q, 1) \in Seq(E) /\ Len(q) \in Nat \ {0} /\ DOMAIN q = 1 .. Len(q)
           /\ Len(RemoveAt(q, 1)) = Len(q) - 1 /\ DOMAIN RemoveAt(q, 1) = 1 .. Len(q) - 1
           /\ \A i \in 1 .. Len(q) - 1 : RemoveAt(q, 1)[i] = q[i + 1]
<1> DEFINE n == Len(q)
           e == SubSeq(q, 1, 0)
           t == SubSeq(q, 2, n)
<1>1. n \in Nat \ {0} /\ DOMAIN q = 1 .. n
  BY LenProperties
<1>2. RemoveAt(q, 1) = e \o t
  BY DEF RemoveAt
<1>3. e \in Seq(E) /\ Len(e) = 0
  BY <1>1, SubSeqProperties
<1>4. t \in Seq(E) /\ Len(t) = n - 1 /\ \A i \in 1 .. n - 1 : t[i] = q[i + 1]
  <2>1. 2 \in 1 .. Len(q) + 1 /\ n \in 1 .. Len(q)
    BY <1>1
  <2>2. /\ SubSeq(q, 2, n) \in Seq(E)
        /\ Len(SubSeq(q, 2, n)) = IF 2 <= n THEN n - 2 + 1 ELSE 0
        /\ \A i \in 1 .. n - 2 + 1 : SubSeq(q, 2, n)[i] = q[2 + i - 1]
    BY <1>1, <2>1, SubSeqProperties
  <2> QED BY <1>1, <2>2
<1> HIDE DEF e, t, n
<1>5. e \o t = t
  BY <1>3, <1>4, ConcatEmptySeq, EmptySeq
<1>6. DOMAIN t = 1 .. n - 1
  BY <1>4, LenProperties
<1> QED BY <1>1, <1>2, <1>4, <1>5, <1>6 DEF n

(* The promise chain: the request written or lost, and the one the         *)
(* configuration goes on with.                                             *)
LEMMA SendIs ==
    ASSUME ClientInv, NEW i \in Turn, NEW served, SendMonitorBytesNow(i, served)
    PROVE  LET r    == queue[1]
               rest == RemoveAt(queue, 1)
               v    == [Client EXCEPT !.queue = rest]
               k    == steps[r.by] + 1
           IN /\ i = 1 /\ 1 \in DOMAIN queue /\ r \in Request
              /\ v \in Numbered /\ v.queue = rest
              /\ IF Resumes(r.by) THEN /\ r.by \in 1 .. APPLIERS /\ ConfigFor(r.by) \in Settings /\ k \in 1 .. Len(ConfigOrder)
                                       /\ Commit(Issue(v, "write", ConfigOrder[k], ConfigFor(r.by)[ConfigOrder[k]], Bit, r.by))
                                       /\ Issue(v, "write", ConfigOrder[k], ConfigFor(r.by)[ConfigOrder[k]], Bit, r.by) \in Numbered
                                  ELSE Commit(v)
<1> DEFINE r    == queue[1]
           rest == RemoveAt(queue, 1)
           v    == [Client EXCEPT !.queue = rest]
           k    == steps[r.by] + 1
<1>0. Client \in Numbered /\ queue \in Seq(Request) /\ steps \in [1 .. APPLIERS -> 0 .. Len(ConfigOrder)]
      /\ config \in Settings /\ own \in [1 .. APPLIERS -> Settings \cup {NONE}]
  BY ClientIs DEF ClientInv
<1>1. i = 1 /\ queue # <<>>
  BY DEF Turn
<1>2. 1 \in DOMAIN queue /\ r \in Request
  BY <1>0, <1>1, EmptySeq, LenProperties, ElementOfSeq
<1>3. rest \in Seq(Request)
  BY <1>0, <1>2, QueueRest
<1>4. v \in Numbered /\ v.queue = rest
  <2> HIDE DEF rest
  <2>1. v = [seq |-> seq, issued |-> issued, pending |-> pending, queue |-> rest]
    BY DEF Client
  <2> QED BY <1>0, <1>3, <2>1, ClientIs DEF Numbered
<1>5. Commit(Resume(v, r.by))
  BY <1>1 DEF SendMonitorBytesNow
<1> HIDE DEF v, rest
<1>6. CASE Resumes(r.by)
  <2>1. r.by \in 1 .. APPLIERS
    BY <1>2, <1>6, MoConstants DEF Resumes, Request
  <2>2. k \in 1 .. Len(ConfigOrder)
    <3>1. steps[r.by] \in Nat /\ steps[r.by] < Len(ConfigOrder) /\ Len(ConfigOrder) \in Nat
      BY <1>0, <1>6, <2>1, MoConstants DEF Resumes
    <3> QED BY <3>1
  <2>3. Resume(v, r.by) = Issue(v, "write", ConfigOrder[k], ConfigFor(r.by)[ConfigOrder[k]], Bit, r.by)
    BY <1>6 DEF Resume
  <2>6. ConfigFor(r.by) \in Settings
    BY <1>0, <2>1 DEF ConfigFor
  <2> HIDE DEF k, r
  <2>4. /\ ConfigOrder[k] \in Addr /\ ConfigFor(r.by)[ConfigOrder[k]] \in Value /\ Bit \in Value
        /\ r.by \in 0 .. APPLIERS /\ "write" \in {"read", "write"}
    BY <1>0, <2>1, <2>2, <2>6, MoConstants
  <2>5. Issue(v, "write", ConfigOrder[k], ConfigFor(r.by)[ConfigOrder[k]], Bit, r.by) \in Numbered
    BY <1>4, <2>4, IssueKeeps
  <2> QED BY <1>1, <1>2, <1>4, <1>5, <1>6, <2>1, <2>2, <2>3, <2>5, <2>6 DEF k, r, v, rest
<1>7. CASE ~Resumes(r.by)
  <2>1. Resume(v, r.by) = v
    BY <1>7 DEF Resume
  <2> HIDE DEF r
  <2> QED BY <1>1, <1>2, <1>4, <1>5, <1>7, <2>1 DEF k, r, v, rest
<1> QED BY <1>6, <1>7

LEMMA StepsKeep ==
    ASSUME ClientInv, NEW p \in 0 .. APPLIERS, Done(p)
    PROVE  /\ steps' \in [1 .. APPLIERS -> 0 .. Len(ConfigOrder)]
           /\ \A q \in 1 .. APPLIERS : q # p => steps'[q] = steps[q]
           /\ p # 0 => steps'[p] = IF Resumes(p) THEN steps[p] + 1 ELSE 0
           /\ own' \in [1 .. APPLIERS -> Settings \cup {NONE}]
           /\ \A q \in 1 .. APPLIERS : q # p => own'[q] = own[q]
           /\ Resumes(p) => own' = own
<1>0. own \in [1 .. APPLIERS -> Settings \cup {NONE}] /\ (own' = own \/ own' = [own EXCEPT ![p] = NONE])
      /\ (p = 0 \/ Resumes(p) => own' = own)
  BY DEF ClientInv, Done
<1>1. steps \in [1 .. APPLIERS -> 0 .. Len(ConfigOrder)] /\ Len(ConfigOrder) \in Nat /\ APPLIERS \in Nat
  BY MoConstants DEF ClientInv
<1>4. /\ own' \in [1 .. APPLIERS -> Settings \cup {NONE}]
      /\ \A q \in 1 .. APPLIERS : q # p => own'[q] = own[q]
      /\ Resumes(p) => own' = own
  BY <1>0
<1>2. CASE p = 0
  BY <1>1, <1>2, <1>4 DEF Done
<1>3. CASE p # 0
  <2> DEFINE m == IF Resumes(p) THEN steps[p] + 1 ELSE 0
  <2>1. steps' = [steps EXCEPT ![p] = m] /\ p \in 1 .. APPLIERS
    BY <1>1, <1>3 DEF Done
  <2>2. m \in 0 .. Len(ConfigOrder)
    BY <1>1, <2>1 DEF Resumes
  <2> HIDE DEF m
  <2>3. steps' \in [1 .. APPLIERS -> 0 .. Len(ConfigOrder)] /\ steps'[p] = m
    BY <1>1, <2>1, <2>2
  <2> QED BY <1>1, <1>4, <2>1, <2>3 DEF m
<1> QED BY <1>2, <1>3

LineNumbered == \A i \in DOMAIN line : line[i].tag = NONE \/ (line[i].tag \in Tags /\ line[i].seq = line[i].tag + 1)

(* The response of a request joins the line with its number.               *)
LEMMA ServeNumbers ==
    ASSUME MoInv, LineNumbered, NEW r \in Request, Serve(r)
    PROVE  LineNumbered'
<1> DEFINE e == [tag |-> r.tag, seq |-> r.seq, addr |-> r.addr, op |-> r.op,
                 ok |-> Accepts(device, r), value |-> AnswerTo(device, r)]
           S == Own(line) \cup {e}
<1>1. line' = Append(line, e) /\ e.tag = r.tag /\ e.seq = r.seq
  BY DEF Serve
<1>2. r.tag = NONE \/ (r.tag \in Tags /\ r.seq = r.tag + 1)
  BY DEF Request, Tags
<1>3. line \in Seq(S) /\ e \in S
  <2> DEFINE O == Own(line)
  <2>1. line \in Seq(O) /\ O \subseteq S
    BY DEF MoInv, MoTypes
  <2> HIDE DEF O, S
  <2>2. line \in Seq(S)
    BY <2>1, SeqDef
  <2> QED BY <2>2 DEF S
<1> HIDE DEF S, e
<1>4. /\ line' \in Seq(S) /\ Len(line') = Len(line) + 1 /\ line'[Len(line) + 1] = e
      /\ \A i \in 1 .. Len(line) : line'[i] = line[i]
  BY <1>1, <1>3, AppendProperties
<1>5. Len(line) \in Nat /\ DOMAIN line = 1 .. Len(line) /\ DOMAIN line' = 1 .. Len(line) + 1
  BY <1>3, <1>4, LenProperties
<1> SUFFICES ASSUME NEW i \in DOMAIN line' PROVE line'[i].tag = NONE \/ (line'[i].tag \in Tags /\ line'[i].seq = line'[i].tag + 1)
  BY DEF LineNumbered
<1>6. CASE i = Len(line) + 1
  BY <1>1, <1>2, <1>4, <1>6
<1>7. CASE i \in DOMAIN line
  BY <1>4, <1>5, <1>7 DEF LineNumbered
<1> QED BY <1>5, <1>6, <1>7

LEMMA TailNumbers ==
    ASSUME MoInv, LineNumbered, line # <<>>, line' = Tail(line)
    PROVE  LineNumbered'
<1>1. \A i \in DOMAIN line' : i + 1 \in DOMAIN line /\ line'[i] = line[i + 1]
  BY LineTail DEF MoInv
<1> QED BY <1>1 DEF LineNumbered

(* The registers keep their bits.                                          *)
LEMMA BankBits ==
    ASSUME device \in [Addr -> Value], NEW r \in Request
    PROVE  BankAfter(device, r) \in [Addr -> Value]
<1>1. r.addr \in Addr /\ r.value \in Value /\ r.mask \in Value /\ device[r.addr] \in Value
  BY DEF Request
<1>2. OldValue(device, r.addr) \in Value
  BY <1>1 DEF OldValue, Value
<1>3. Merged(OldValue(device, r.addr), r) \in Value
  BY <1>1, <1>2 DEF Merged, Value
<1>4. NewValue(device, r) \in Value
  BY <1>1, <1>2, <1>3 DEF NewValue, Value
<1>5. (NewValue(device, r) \ Live[r.addr]) \cup (device[r.addr] \cap Live[r.addr]) \in Value
  BY <1>1, <1>4 DEF Value
<1> QED BY <1>1, <1>5 DEF BankAfter

LEMMA ClientSend ==
    ASSUME MoInv, ClientInv, NEW i \in Turn, NEW served, SendMonitorBytesNow(i, served)
    PROVE  ClientInv'
<1> DEFINE r == queue[1]
           v == [Client EXCEPT !.queue = RemoveAt(queue, 1)]
           k == steps[r.by] + 1
           w == IF Resumes(r.by) THEN Issue(v, "write", ConfigOrder[k], ConfigFor(r.by)[ConfigOrder[k]], Bit, r.by) ELSE v
<1>1. i = 1 /\ r \in Request /\ w \in Numbered /\ Commit(w)
  BY SendIs, Zenon
<1> HIDE DEF w, v, r
<1>2. Client' \in Numbered
  BY <1>1, CommitIs
<1>3. (Serve(r) \/ (line' = line /\ device' = device)) /\ Done(r.by) /\ config' = config /\ mismatch' = mismatch
  BY <1>1, Zenon DEF SendMonitorBytesNow, r
<1>4. LineNumbered'
  BY <1>1, <1>3, ServeNumbers DEF ClientInv, LineNumbered
<1>5. r.by \in 0 .. APPLIERS
  BY <1>1 DEF Request
<1>6. steps' \in [1 .. APPLIERS -> 0 .. Len(ConfigOrder)] /\ own' \in [1 .. APPLIERS -> Settings \cup {NONE}]
  BY <1>3, <1>5, StepsKeep
<1>7. device' \in [Addr -> Value]
  BY <1>1, <1>3, BankBits DEF Serve, ClientInv
<1> QED BY <1>2, <1>3, <1>4, <1>6, <1>7 DEF ClientInv, LineNumbered, AnswersMatch

(* A response settles the request of its number, and that one has its tag. *)
LEMMA ClientResponse ==
    ASSUME MoInv, ClientInv, Response
    PROVE  ClientInv'
<1> DEFINE r    == Head(line)
           settled == {pending[i] : i \in Matching(r)}
<1>1. /\ line # <<>> /\ pending' = Without(pending, settled) /\ line' = Tail(line)
      /\ mismatch' = (mismatch \/ (r.tag # NONE /\ \E e \in settled : e.tag # r.tag))
      /\ UNCHANGED <<seq, issued, config, own, steps, queue, device>>
  BY DEF Response
<1>2. 1 \in DOMAIN line /\ r = line[1]
  BY <1>1, LineTail DEF MoInv
<1>3. r.tag = NONE \/ (r.tag \in Tags /\ r.seq = r.tag + 1)
  BY <1>2 DEF ClientInv
<1>4. \A i \in DOMAIN pending : pending[i].tag \in Nat /\ pending[i].seq = pending[i].tag + 1
  <2>1. pending \in Seq(Tracked)
    BY ClientIs DEF ClientInv
  <2>2. DOMAIN pending = 1 .. Len(pending) /\ \A i \in 1 .. Len(pending) : pending[i] \in Tracked
    BY <2>1, LenProperties, ElementOfSeq
  <2> QED BY <2>2 DEF Tracked, Tags
<1>5. \A e \in settled : e.seq = r.seq /\ e.tag \in Nat /\ e.seq = e.tag + 1
  BY <1>4 DEF Matching
<1> HIDE DEF settled, r
<1>6. ~mismatch'
  <2> SUFFICES ASSUME NEW e \in settled, r.tag # NONE PROVE e.tag = r.tag
    BY <1>1 DEF ClientInv, AnswersMatch
  <2>1. r.tag \in Nat /\ r.seq = r.tag + 1 /\ e.seq = r.seq /\ e.tag \in Nat /\ e.seq = e.tag + 1
    BY <1>3, <1>5 DEF Tags
  <2> QED BY <2>1
<1>7. Client' \in Numbered
  <2>1. pending' \in Seq(Tracked)
    BY <1>1, ClientIs, WithoutKeeps DEF ClientInv
  <2>2. Client' = [seq |-> seq, issued |-> issued, pending |-> pending', queue |-> queue]
    BY <1>1 DEF Client
  <2> QED BY <2>1, <2>2, ClientIs DEF ClientInv, Numbered
<1>8. LineNumbered'
  BY <1>1, TailNumbers DEF ClientInv, LineNumbered
<1> QED BY <1>1, <1>6, <1>7, <1>8 DEF ClientInv, LineNumbered, AnswersMatch

LEMMA ClientIssues ==
    ASSUME ClientInv, NEW op \in {"read", "write"}, NEW a \in Addr,
           NEW x \in Value, NEW m \in Value, NEW by \in 0 .. APPLIERS,
           Commit(Issue(Client, op, a, x, m, by))
    PROVE  /\ Client' = Issue(Client, op, a, x, m, by) /\ Client' \in Numbered
           /\ Adds(queue, queue', op, a, x, m, by)
<1> DEFINE w == Issue(Client, op, a, x, m, by)
<1>1. Client \in Numbered /\ Client.queue = queue
  BY ClientIs DEF ClientInv
<1>2. w \in Numbered
  BY <1>1, IssueKeeps
<1>3. Adds(Client.queue, w.queue, op, a, x, m, by)
  BY <1>1, IssueAppends
<1> HIDE DEF w
<1>4. Commit(w)
  BY DEF w
<1>5. Client' = w /\ queue' = w.queue
  BY <1>2, <1>4, CommitIs
<1> QED BY <1>1, <1>2, <1>3, <1>5 DEF w

(* A configuration that starts.                                            *)
LEMMA ClientApplies ==
    ASSUME ClientInv, NEW p \in 1 .. APPLIERS, NEW c \in Configs, applyLogicAnalyzerConfig(p, c)
    PROVE  ClientInv' /\ Adds(queue, queue', "write", ConfigOrder[1], c[ConfigOrder[1]], Bit, p)
<1> DEFINE x == c[ConfigOrder[1]]
<1>1. /\ config' = c /\ steps' = [steps EXCEPT ![p] = 1] /\ line' = line /\ mismatch' = mismatch
      /\ own' = own /\ device' = device /\ Commit(Issue(Client, "write", ConfigOrder[1], x, Bit, p))
  BY DEF applyLogicAnalyzerConfig
<1>2. /\ ConfigOrder[1] \in Addr /\ x \in Value /\ Bit \in Value /\ p \in 0 .. APPLIERS
      /\ "write" \in {"read", "write"} /\ c \in Settings
  BY MoConstants DEF Settings
<1> HIDE DEF x
<1>3. Client' \in Numbered /\ Adds(queue, queue', "write", ConfigOrder[1], x, Bit, p)
  BY <1>1, <1>2, ClientIssues
<1>4. steps' \in [1 .. APPLIERS -> 0 .. Len(ConfigOrder)]
  <2>1. steps \in [1 .. APPLIERS -> 0 .. Len(ConfigOrder)] /\ 1 \in 0 .. Len(ConfigOrder)
    BY MoConstants DEF ClientInv
  <2> QED BY <1>1, <2>1
<1> QED BY <1>1, <1>2, <1>3, <1>4 DEF ClientInv, AnswersMatch, x

(* What the user asks for by hand, and a round of polling.                 *)
LEMMA ClientByHand ==
    ASSUME ClientInv
    PROVE  /\ \A a \in UserReads : monitorRead(a) => ClientInv' /\ Adds(queue, queue', "read", a, {}, {}, 0)
           /\ \A w \in UserWrites : monitorWrite(w[1], w[2], w[3]) => ClientInv' /\ Adds(queue, queue', "write", w[1], w[2], w[3], 0)
           /\ Poll => ClientInv' /\ AddsReads(queue, queue')
<1>0. 0 \in 0 .. APPLIERS /\ "read" \in {"read", "write"} /\ "write" \in {"read", "write"} /\ {} \in Value
  BY MoConstants
<1>1. ASSUME Client' \in Numbered, UNCHANGED <<config, own, steps, line, device, mismatch>> PROVE ClientInv'
  BY <1>1 DEF ClientInv, AnswersMatch
<1>2. ASSUME NEW a \in UserReads, monitorRead(a) PROVE ClientInv' /\ Adds(queue, queue', "read", a, {}, {}, 0)
  <2>1. Commit(Issue(Client, "read", a, {}, {}, 0)) /\ UNCHANGED <<config, own, steps, line, device, mismatch>>
    BY <1>2 DEF monitorRead
  <2>2. a \in Addr
    BY MonitorAssumption
  <2> QED BY <1>0, <1>1, <2>1, <2>2, ClientIssues
<1>3. ASSUME NEW w \in UserWrites, monitorWrite(w[1], w[2], w[3])
      PROVE  ClientInv' /\ Adds(queue, queue', "write", w[1], w[2], w[3], 0)
  <2>1. Commit(Issue(Client, "write", w[1], w[2], w[3], 0)) /\ UNCHANGED <<config, own, steps, line, device, mismatch>>
    BY <1>3 DEF monitorWrite
  <2>2. w[1] \in Addr /\ w[2] \in Value /\ w[3] \in Value
    BY MonitorAssumption
  <2> QED BY <1>0, <1>1, <2>1, <2>2, ClientIssues
<1>4. ASSUME Poll PROVE ClientInv' /\ AddsReads(queue, queue')
  <2> DEFINE w == monitorReadAll(Client)
  <2>1. Commit(w) /\ UNCHANGED <<config, own, steps, line, device, mismatch>>
    BY <1>4 DEF Poll
  <2>2. w \in Numbered /\ AddsReads(Client.queue, w.queue) /\ Client.queue = queue
    BY PollKeeps, ClientIs DEF ClientInv
  <2> HIDE DEF w
  <2>3. Client' = w /\ queue' = w.queue
    BY <2>1, <2>2, CommitIs
  <2> QED BY <1>1, <2>1, <2>2, <2>3
<1> QED BY <1>2, <1>3, <1>4

LEMMA ClientRest ==
    ASSUME MoInv, ClientInv
    PROVE  /\ expireMonitorPending => ClientInv' /\ queue' = queue
           /\ ResponseLost => ClientInv' /\ queue' = queue
           /\ DeviceChanges => ClientInv' /\ queue' = queue
<1>1. ASSUME expireMonitorPending PROVE ClientInv' /\ queue' = queue
  <2>1. PICK settled : pending' = Without(pending, settled)
    BY <1>1, Zenon DEF expireMonitorPending
  <2>2. UNCHANGED <<seq, issued, config, own, steps, queue, line, device, mismatch>>
    BY <1>1 DEF expireMonitorPending
  <2>3. pending' \in Seq(Tracked)
    BY <2>1, ClientIs, WithoutKeeps DEF ClientInv
  <2>4. Client' = [seq |-> seq, issued |-> issued, pending |-> pending', queue |-> queue]
    BY <2>2 DEF Client
  <2>5. Client' \in Numbered
    BY <2>3, <2>4, ClientIs DEF ClientInv, Numbered
  <2> QED BY <2>2, <2>5 DEF ClientInv, AnswersMatch
<1>2. ASSUME ResponseLost PROVE ClientInv' /\ queue' = queue
  <2>1. line # <<>> /\ line' = Tail(line) /\ UNCHANGED <<viewer, device, mismatch>>
    BY <1>2 DEF ResponseLost
  <2>2. LineNumbered'
    BY <2>1, TailNumbers DEF ClientInv, LineNumbered
  <2>3. Client' = Client
    BY <2>1 DEF Client, viewer
  <2> QED BY <2>1, <2>2, <2>3 DEF ClientInv, LineNumbered, viewer, AnswersMatch
<1>3. ASSUME DeviceChanges PROVE ClientInv' /\ queue' = queue
  <2>1. device' \in [Addr -> Value] /\ UNCHANGED <<viewer, line, mismatch>>
    BY <1>3 DEF DeviceChanges, ClientInv
  <2>2. Client' = Client
    BY <2>1 DEF Client, viewer
  <2> QED BY <2>1, <2>2 DEF ClientInv, viewer, AnswersMatch
<1> QED BY <1>1, <1>2, <1>3

(* A clear: what goes on has no tag any more.                              *)
LEMMA ClientClear ==
    ASSUME MoInv, ClientInv, clearAllRequests
    PROVE  ClientInv'
<1>1. /\ seq' = 1 /\ issued' = 0 /\ pending' = <<>> /\ queue' = Aged(queue) /\ line' = Aged(line)
      /\ config' = DefaultConfig /\ UNCHANGED <<steps, device, mismatch>>
      /\ own' = [p \in 1 .. APPLIERS |-> IF steps[p] = 0 THEN NONE ELSE ConfigFor(p)]
  BY DEF clearAllRequests
<1>2. LineNumbered'
  <2>1. DOMAIN line' = DOMAIN line
    BY <1>1 DEF Aged
  <2> SUFFICES ASSUME NEW i \in DOMAIN line
               PROVE  line'[i].tag = NONE \/ (line'[i].tag \in Tags /\ line'[i].seq = line'[i].tag + 1)
    BY <2>1 DEF LineNumbered
  <2>2. line'[i] = [line[i] EXCEPT !.tag = NONE]
    BY <1>1 DEF Aged
  <2>3. line[i] = [tag |-> line[i].tag, seq |-> line[i].seq, addr |-> line[i].addr,
                   op |-> line[i].op, ok |-> line[i].ok, value |-> line[i].value]
    BY DEF MoInv, MoTypes
  <2> QED BY <2>2, <2>3
<1>3. queue' \in Seq(Request)
  <2>1. queue \in Seq(Request)
    BY ClientIs DEF ClientInv
  <2>2. Len(queue) \in Nat /\ DOMAIN queue = 1 .. Len(queue) /\ \A i \in DOMAIN queue : queue[i] \in Request
    BY <2>1, LenProperties, ElementOfSeq
  <2>3. \A i \in DOMAIN queue : [queue[i] EXCEPT !.tag = NONE] \in Request
    BY <2>2 DEF Request
  <2>4. queue' \in [1 .. Len(queue) -> Request]
    BY <1>1, <2>2, <2>3 DEF Aged
  <2> QED BY <2>2, <2>4, SeqDef
<1>4. Client' \in Numbered
  <2> DEFINE e == <<>>
  <2>1. e \in Seq(Tracked) /\ Client' = [seq |-> 1, issued |-> 0, pending |-> e, queue |-> queue']
    BY <1>1, EmptySeq DEF Client
  <2>2. 1 \in 1 .. SEQ_MAX /\ 0 \in Tags /\ 1 = 0 + 1
    BY MoConstants DEF Tags
  <2> HIDE DEF e
  <2> QED BY <1>3, <2>1, <2>2 DEF Numbered
<1>5. config' \in Settings /\ own' \in [1 .. APPLIERS -> Settings \cup {NONE}]
  <2>1. ASSUME NEW p \in 1 .. APPLIERS PROVE ConfigFor(p) \in Settings
    BY DEF ConfigFor, ClientInv
  <2> QED BY <1>1, <2>1 DEF Settings
<1> QED BY <1>1, <1>2, <1>4, <1>5 DEF ClientInv, LineNumbered, AnswersMatch

(* The numbering is kept by every step, so that no response settles a      *)
(* request other than its own.                                             *)
THEOREM ClientNumbering == SpecMonitor => []ClientInv
<1>1. MoInv /\ ClientInv /\ [NextMonitor]_monitorVars => ClientInv'
  <2> SUFFICES ASSUME MoInv, ClientInv, [NextMonitor]_monitorVars PROVE ClientInv'
    OBVIOUS
  <2>1. CASE Written \/ WriteFails
    BY <2>1, ClientSend DEF Written, WriteFails
  <2>2. CASE \/ \E a \in UserReads : monitorRead(a)
             \/ \E w \in UserWrites : monitorWrite(w[1], w[2], w[3])
             \/ \E p \in 1 .. APPLIERS, x \in Configs : applyLogicAnalyzerConfig(p, x)
             \/ Poll
    BY <2>2, ClientByHand, ClientApplies
  <2>3. CASE UNCHANGED monitorVars
    BY <2>3 DEF monitorVars, viewer, ClientInv, Client, AnswersMatch
  <2> QED BY <2>1, <2>2, <2>3, ClientResponse, ClientRest, ClientClear DEF NextMonitor
<1> QED BY <1>1, ClientInit, MonitorInvariant, PTL DEF SpecMonitor

(* After timeouts, losses, failed writes and wraps of the sequence number, *)
(* a response since the last Clear settles its own request                 *)
(* (decodeMonitorReadResponse and decodeMonitorWriteResponse of app.js).   *)
THEOREM AnswersSettleTheirOwn == SpecMonitor => []AnswersMatch
<1>1. ClientInv => AnswersMatch
  BY DEF ClientInv
<1> QED BY <1>1, ClientNumbering, PTL

-----------------------------------------------------------------------------
(* The applications of a configuration.  Each has one write in the queue   *)
(* while it runs, so that the one that started last stays behind all the   *)
(* others.                                                                 *)

Writes(e, x) == e.op = "write" /\ e.addr = x
SparesOf(q, x) == \A i \in DOMAIN q : ~Writes(q[i], x)

(* The whole of register k of the configuration is written.                *)
WritesAt(e, k) == Writes(e, ConfigOrder[k]) /\ e.mask = Bit

OneEach ==
    /\ \A i \in DOMAIN queue : queue[i].by # 0 =>
          /\ steps[queue[i].by] > 0 /\ WritesAt(queue[i], steps[queue[i].by])
          /\ \A j \in DOMAIN queue : queue[j].by = queue[i].by => j = i
    /\ \A p \in 1 .. APPLIERS : steps[p] > 0 => \E i \in DOMAIN queue : queue[i].by = p
    /\ \A p \in 1 .. APPLIERS : steps[p] = 0 => own[p] = NONE

(* The last application writes what was applied, whatever Clear replaced.  *)
Leads ==
    /\ applied.by \in 1 .. APPLIERS /\ applied.config \in Settings
    /\ steps[applied.by] > 0 => ConfigFor(applied.by) = applied.config
    /\ \A i \in DOMAIN queue : queue[i].by = applied.by => queue[i].value = applied.config[queue[i].addr]

(* The others that run have written more, or will before it.               *)
Ahead ==
    \A p \in 1 .. APPLIERS : p # applied.by /\ steps[p] > 0 =>
        /\ steps[applied.by] > 0 /\ steps[p] >= steps[applied.by]
        /\ steps[p] = steps[applied.by] =>
              \A i, j \in DOMAIN queue : queue[i].by = p /\ queue[j].by = applied.by => i < j

(* Register k once the last application has asked for it, and once it has  *)
(* written it: nobody asks for it after, and the device holds the value.   *)
Comes(k) ==
    /\ steps[applied.by] = k =>
          \A i, j \in DOMAIN queue : queue[i].by = applied.by /\ j > i => ~Writes(queue[j], ConfigOrder[k])
    /\ steps[applied.by] = 0 \/ steps[applied.by] > k =>
          /\ SparesOf(queue, ConfigOrder[k])
          /\ Takeable(applied.config) => device[ConfigOrder[k]] = applied.config[ConfigOrder[k]]

ConfigInv ==
    /\ OneEach
    /\ applied # NONE => Leads /\ Ahead /\ \A k \in 1 .. Len(ConfigOrder) : Comes(k)

Same(e, f) == e.op = f.op /\ e.addr = f.addr /\ e.value = f.value /\ e.mask = f.mask /\ e.by = f.by

(* Request i has just joined the queue, which lost d at its head.          *)
Joins(i, d) == i + d \notin DOMAIN queue

(* The queue loses d requests, of application m; others join it, of no     *)
(* application, or the next one of m.                                      *)
Moves(d, m) ==
    /\ d \in {0, 1} /\ m \in 0 .. APPLIERS
    /\ d = 1 => 1 \in DOMAIN queue /\ queue[1].by = m
    /\ \A i \in DOMAIN queue : queue[i].by = m /\ m # 0 => d = 1 /\ i = 1
    /\ \A i \in DOMAIN queue : i > d => i - d \in DOMAIN queue'
    /\ \A i \in DOMAIN queue' : ~Joins(i, d) => Same(queue'[i], queue[i + d])
    /\ \A i \in DOMAIN queue' : Joins(i, d) /\ queue'[i].by # 0 =>
          /\ queue'[i].by = m /\ steps'[m] > 0 /\ WritesAt(queue'[i], steps'[m])
          /\ i + d = Len(queue) + 1
    /\ m # 0 /\ steps'[m] > 0 => \E i \in DOMAIN queue' : queue'[i].by = m
    /\ \A p \in 1 .. APPLIERS : p # m => steps'[p] = steps[p]

LEMMA QueueFacts ==
    ASSUME ClientInv
    PROVE  /\ queue \in Seq(Request) /\ Len(queue) \in Nat /\ DOMAIN queue = 1 .. Len(queue)
           /\ \A i \in DOMAIN queue : queue[i] \in Request /\ i \in Nat \ {0} /\ queue[i].by \in 0 .. APPLIERS
           /\ steps \in [1 .. APPLIERS -> 0 .. Len(ConfigOrder)]
<1>1. queue \in Seq(Request)
  BY ClientIs DEF ClientInv
<1>2. Len(queue) \in Nat /\ DOMAIN queue = 1 .. Len(queue) /\ \A i \in DOMAIN queue : queue[i] \in Request
  BY <1>1, LenProperties, ElementOfSeq
<1>3. \A i \in DOMAIN queue : queue[i].by \in 0 .. APPLIERS
  BY <1>2 DEF Request
<1> QED BY <1>1, <1>2, <1>3 DEF ClientInv

LEMMA QueueFactsNext ==
    ASSUME ClientInv'
    PROVE  /\ queue' \in Seq(Request) /\ Len(queue') \in Nat /\ DOMAIN queue' = 1 .. Len(queue')
           /\ \A i \in DOMAIN queue' : queue'[i] \in Request /\ i \in Nat \ {0} /\ queue'[i].by \in 0 .. APPLIERS
           /\ steps' \in [1 .. APPLIERS -> 0 .. Len(ConfigOrder)]
<1>1. queue' \in Seq(Request) /\ steps' \in [1 .. APPLIERS -> 0 .. Len(ConfigOrder)]
  <2>1. Client' \in Numbered /\ Client'.queue = queue'
    BY DEF ClientInv, Client
  <2> QED BY <2>1, ClientFields DEF ClientInv
<1>2. Len(queue') \in Nat /\ DOMAIN queue' = 1 .. Len(queue') /\ \A i \in DOMAIN queue' : queue'[i] \in Request
  BY <1>1, LenProperties, ElementOfSeq
<1>3. \A i \in DOMAIN queue' : queue'[i].by \in 0 .. APPLIERS
  BY <1>2 DEF Request
<1> QED BY <1>1, <1>2, <1>3

(* What of an application other than m is in the queue was there before.   *)
LEMMA OthersStay ==
    ASSUME ClientInv, ClientInv', NEW d, NEW m, Moves(d, m), NEW i \in DOMAIN queue'
    PROVE  /\ queue'[i].by # 0 /\ queue'[i].by # m => ~Joins(i, d)
           /\ ~Joins(i, d) => i + d \in DOMAIN queue /\ queue'[i].by = queue[i + d].by
           /\ queue'[i].by = m /\ m # 0 => Joins(i, d) /\ i + d = Len(queue) + 1
<1>1. i \in Nat \ {0} /\ d \in {0, 1}
  BY QueueFactsNext DEF Moves
<1>2. queue'[i].by # 0 /\ queue'[i].by # m => ~Joins(i, d)
  BY DEF Moves
<1>3. ~Joins(i, d) => i + d \in DOMAIN queue /\ queue'[i].by = queue[i + d].by
  BY DEF Moves, Joins, Same
<1>4. ASSUME queue'[i].by = m, m # 0 PROVE Joins(i, d) /\ i + d = Len(queue) + 1
  <2>1. Joins(i, d)
    <3> SUFFICES ASSUME ~Joins(i, d) PROVE FALSE
      OBVIOUS
    <3>1. i + d \in DOMAIN queue /\ queue[i + d].by = m
      BY <1>3, <1>4
    <3>2. d = 1 /\ i + d = 1
      BY <1>4, <3>1 DEF Moves
    <3> QED BY <1>1, <3>2
  <2> QED BY <1>4, <2>1 DEF Moves
<1> QED BY <1>2, <1>3, <1>4

LEMMA EachMoves ==
    ASSUME ClientInv, ClientInv', OneEach, NEW d, NEW m, Moves(d, m),
           \A p \in 1 .. APPLIERS : steps'[p] = 0 => own'[p] = NONE
    PROVE  OneEach'
<1>1. d \in {0, 1} /\ m \in 0 .. APPLIERS
  BY DEF Moves
<1>2. ASSUME NEW i \in DOMAIN queue', queue'[i].by # 0
      PROVE  /\ steps'[queue'[i].by] > 0 /\ WritesAt(queue'[i], steps'[queue'[i].by])
             /\ \A j \in DOMAIN queue' : queue'[j].by = queue'[i].by => j = i
  <2> DEFINE p == queue'[i].by
  <2>1. i \in Nat \ {0} /\ p \in 1 .. APPLIERS /\ \A j \in DOMAIN queue' : j \in Nat
    <3>1. p \in 0 .. APPLIERS /\ p # 0
      BY <1>2, QueueFactsNext
    <3> QED BY <3>1, QueueFactsNext, MoConstants
  <2>2. CASE p = m
    <3>1. Joins(i, d) /\ i + d = Len(queue) + 1
      BY <1>2, <2>2, OthersStay
    <3>2. steps'[m] > 0 /\ WritesAt(queue'[i], steps'[m])
      BY <1>2, <3>1 DEF Moves
    <3>3. ASSUME NEW j \in DOMAIN queue', queue'[j].by = p PROVE j = i
      <4>1. j + d = Len(queue) + 1 /\ j \in Nat
        BY <1>2, <2>2, <3>3, OthersStay, QueueFactsNext
      <4> QED BY <1>1, <2>1, <3>1, <4>1
    <3> QED BY <2>2, <3>2, <3>3
  <2>3. CASE p # m
    <3>0. ~Joins(i, d) /\ i + d \in DOMAIN queue /\ queue[i + d].by = p
      BY <1>2, <2>3, OthersStay
    <3>1. i + d \in DOMAIN queue /\ queue[i + d].by = p /\ Same(queue'[i], queue[i + d])
      BY <3>0 DEF Moves
    <3>2. steps'[p] = steps[p]
      BY <2>1, <2>3 DEF Moves
    <3>3. steps[p] > 0 /\ WritesAt(queue[i + d], steps[p])
      BY <1>2, <3>1 DEF OneEach
    <3>4. WritesAt(queue'[i], steps[p])
      BY <3>1, <3>3 DEF WritesAt, Writes, Same
    <3>5. ASSUME NEW j \in DOMAIN queue', queue'[j].by = p PROVE j = i
      <4>1. j + d \in DOMAIN queue /\ queue[j + d].by = p
        BY <1>2, <2>3, <3>5, OthersStay
      <4>2. j + d = i + d
        BY <1>2, <3>1, <4>1 DEF OneEach
      <4> QED BY <1>1, <2>1, <4>2
    <3> QED BY <3>2, <3>3, <3>4, <3>5
  <2> QED BY <2>2, <2>3
<1>3. ASSUME NEW p \in 1 .. APPLIERS, steps'[p] > 0 PROVE \E i \in DOMAIN queue' : queue'[i].by = p
  <2>1. CASE p = m
    <3>1. m # 0
      BY <2>1
    <3> QED BY <1>3, <2>1, <3>1 DEF Moves
  <2>2. CASE p # m
    <3>1. steps[p] > 0
      BY <1>3, <2>2 DEF Moves
    <3>2. PICK i \in DOMAIN queue : queue[i].by = p
      BY <3>1 DEF OneEach
    <3>3. i \in Nat \ {0} /\ i > d
      <4>1. i \in Nat \ {0}
        BY QueueFacts
      <4>2. d = 1 => i # 1
        BY <2>2, <3>2 DEF Moves
      <4> QED BY <1>1, <4>1, <4>2
    <3>4. i - d \in DOMAIN queue' /\ (i - d) + d = i
      BY <1>1, <3>3 DEF Moves
    <3>5. queue'[i - d].by = p
      BY <3>2, <3>4 DEF Moves, Same, Joins
    <3> QED BY <3>4, <3>5
  <2> QED BY <2>1, <2>2
<1> QED BY <1>2, <1>3 DEF OneEach

(* The step of an application is the next write of it, the others see the  *)
(* registers of the configuration change through the queue alone.          *)
Goes(d, m) ==
    /\ Moves(d, m)
    /\ m # 0 => d = 1 /\ steps'[m] = IF steps[m] < Len(ConfigOrder) THEN steps[m] + 1 ELSE 0
    /\ applied' \in {applied, NONE}
    /\ applied' # NONE =>
        /\ \A i \in DOMAIN queue' : Joins(i, d) =>
              IF queue'[i].by = 0 THEN \A x \in ConfigRegs : ~Writes(queue'[i], x)
                                  ELSE queue'[i].value = ConfigFor(m)[queue'[i].addr]
        /\ \A p \in 1 .. APPLIERS : steps[p] > 0 /\ steps'[p] > 0 => ConfigFor(p)' = ConfigFor(p)
        /\ \A x \in ConfigRegs : device'[x] = device[x] \/ (d = 1 /\ Writes(queue[1], x))
        /\ m = applied.by /\ Takeable(applied.config) =>
              device'[ConfigOrder[steps[m]]] = applied.config[ConfigOrder[steps[m]]]

(* The step of the application that the head of the queue belongs to.      *)
LEMMA HeadOf ==
    ASSUME ClientInv, OneEach, NEW d, NEW m, Goes(d, m), m # 0
    PROVE  /\ d = 1 /\ 1 \in DOMAIN queue /\ queue[1].by = m /\ m \in 1 .. APPLIERS
           /\ steps[m] \in 1 .. Len(ConfigOrder) /\ WritesAt(queue[1], steps[m])
           /\ steps'[m] = IF steps[m] < Len(ConfigOrder) THEN steps[m] + 1 ELSE 0
<1>1. d = 1 /\ m \in 0 .. APPLIERS /\ 1 \in DOMAIN queue /\ queue[1].by = m
  BY DEF Goes, Moves
<1>2. m \in 1 .. APPLIERS
  BY <1>1, MoConstants
<1>3. steps[m] > 0 /\ WritesAt(queue[1], steps[m])
  BY <1>1 DEF OneEach
<1>4. steps[m] \in 0 .. Len(ConfigOrder)
  BY <1>2, QueueFacts
<1> QED BY <1>1, <1>2, <1>3, <1>4, MoConstants DEF Goes

LEMMA AheadKept ==
    ASSUME ClientInv, ClientInv', OneEach, Leads, Ahead, NEW d, NEW m, Goes(d, m), applied' = applied
    PROVE  Ahead'
<1> DEFINE l == applied.by
<1>1. Moves(d, m) /\ d \in {0, 1} /\ l \in 1 .. APPLIERS /\ l # 0 /\ Len(ConfigOrder) \in Nat
  BY MoConstants DEF Goes, Moves, Leads
<1> SUFFICES ASSUME NEW p \in 1 .. APPLIERS, p # l, steps'[p] > 0
             PROVE  /\ steps'[l] > 0 /\ steps'[p] >= steps'[l]
                    /\ steps'[p] = steps'[l] =>
                          \A i, j \in DOMAIN queue' : queue'[i].by = p /\ queue'[j].by = l => i < j
  BY DEF Ahead
<1>2. /\ steps[p] \in Nat /\ steps[l] \in Nat /\ steps[l] <= Len(ConfigOrder)
      /\ steps[p] <= Len(ConfigOrder) /\ p # 0
  BY <1>1, QueueFacts
<1>3. steps[p] > 0 => /\ steps[l] > 0 /\ steps[p] >= steps[l]
                      /\ steps[p] = steps[l] =>
                            \A i, j \in DOMAIN queue : queue[i].by = p /\ queue[j].by = l => i < j
  BY DEF Ahead
<1>4. \A i \in DOMAIN queue' : i \in Nat
  BY QueueFactsNext
<1> HIDE DEF l
<1>5. CASE m # p /\ m # l
  <2>1. steps'[p] = steps[p] /\ steps'[l] = steps[l]
    BY <1>1, <1>5 DEF Moves
  <2>2. ASSUME NEW i \in DOMAIN queue', NEW j \in DOMAIN queue', queue'[i].by = p, queue'[j].by = l,
               steps[p] = steps[l]
        PROVE  i < j
    <3>1. i + d \in DOMAIN queue /\ queue[i + d].by = p /\ j + d \in DOMAIN queue /\ queue[j + d].by = l
      BY <1>1, <1>2, <1>5, <2>2, OthersStay
    <3>2. i + d < j + d
      BY <1>3, <2>1, <2>2, <3>1
    <3> QED BY <1>1, <1>4, <3>2
  <2> QED BY <1>3, <2>1, <2>2
<1>6. CASE m = l
  <2>1. /\ d = 1 /\ 1 \in DOMAIN queue /\ queue[1].by = l
        /\ steps'[l] = IF steps[l] < Len(ConfigOrder) THEN steps[l] + 1 ELSE 0
    BY <1>1, <1>6, HeadOf
  <2>2. steps'[p] = steps[p]
    BY <1>1, <1>6 DEF Moves
  <2>3. steps[p] # steps[l]
    <3> SUFFICES ASSUME steps[p] = steps[l] PROVE FALSE
      OBVIOUS
    <3>1. PICK i \in DOMAIN queue : queue[i].by = p
      BY <2>2 DEF OneEach
    <3>2. i < 1 /\ i \in Nat \ {0}
      BY <1>3, <2>1, <2>2, <3>1, QueueFacts
    <3> QED BY <3>2
  <2>4. steps'[l] > 0 /\ steps'[p] >= steps'[l]
    BY <1>1, <1>2, <1>3, <2>1, <2>2, <2>3
  <2>5. ASSUME NEW i \in DOMAIN queue', NEW j \in DOMAIN queue', queue'[i].by = p, queue'[j].by = l
        PROVE  i < j
    <3>1. i + 1 \in DOMAIN queue /\ j + 1 = Len(queue) + 1
      BY <1>1, <1>2, <1>6, <2>1, <2>5, OthersStay
    <3>2. DOMAIN queue = 1 .. Len(queue) /\ Len(queue) \in Nat
      BY QueueFacts
    <3> QED BY <1>4, <3>1, <3>2
  <2> QED BY <2>4, <2>5
<1>7. CASE m = p
  <2>1. steps[p] > 0 /\ steps'[p] = IF steps[p] < Len(ConfigOrder) THEN steps[p] + 1 ELSE 0
    BY <1>2, <1>7, HeadOf
  <2>2. steps'[l] = steps[l]
    BY <1>1, <1>7 DEF Moves, l
  <2> QED BY <1>2, <1>3, <2>1, <2>2
<1> QED BY <1>5, <1>6, <1>7

(* What writes register k of the configuration was in the queue, or it is  *)
(* the write that an application has come to.                              *)
LEMMA WhoWrites ==
    ASSUME ClientInv, ClientInv', NEW d, NEW m, Goes(d, m), applied' # NONE,
           NEW k \in 1 .. Len(ConfigOrder), NEW j \in DOMAIN queue', Writes(queue'[j], ConfigOrder[k])
    PROVE  \/ ~Joins(j, d) /\ j + d \in DOMAIN queue /\ Writes(queue[j + d], ConfigOrder[k])
           \/ m # 0 /\ Joins(j, d) /\ queue'[j].by = m /\ steps'[m] = k /\ j + d = Len(queue) + 1
<1>1. Moves(d, m) /\ m \in 0 .. APPLIERS
  BY DEF Goes, Moves
<1>2. CASE ~Joins(j, d)
  BY <1>1, <1>2 DEF Moves, Joins, Same, Writes
<1>3. CASE Joins(j, d)
  <2>1. queue'[j].by # 0
    BY <1>3, MoConstants DEF Goes
  <2>2. queue'[j].by = m /\ steps'[m] > 0 /\ WritesAt(queue'[j], steps'[m]) /\ j + d = Len(queue) + 1
    BY <1>1, <1>3, <2>1 DEF Moves
  <2>3. m \in 1 .. APPLIERS /\ m # 0
    BY <1>1, <2>1, <2>2, MoConstants
  <2>4. steps'[m] \in 1 .. Len(ConfigOrder)
    <3>1. steps'[m] \in 0 .. Len(ConfigOrder)
      BY <2>3, QueueFactsNext
    <3> QED BY <2>2, <3>1, MoConstants
  <2>5. ConfigOrder[steps'[m]] = ConfigOrder[k]
    BY <2>2 DEF WritesAt, Writes
  <2>6. steps'[m] = k
    BY <2>4, <2>5, MoConstants, MonitorAssumption DEF IsInjective
  <2> QED BY <1>3, <2>2, <2>3, <2>6
<1> QED BY <1>2, <1>3

LEMMA ComesKept ==
    ASSUME ClientInv, ClientInv', OneEach, Leads, Ahead', NEW d, NEW m, Goes(d, m), applied' = applied,
           applied # NONE, NEW k \in 1 .. Len(ConfigOrder), Comes(k)
    PROVE  Comes(k)'
<1> DEFINE l == applied.by
           x == ConfigOrder[k]
<1>1. /\ Moves(d, m) /\ d \in {0, 1} /\ l \in 1 .. APPLIERS /\ l # 0 /\ Len(ConfigOrder) \in Nat
      /\ m \in 0 .. APPLIERS
  BY MoConstants DEF Goes, Moves, Leads
<1>2. /\ steps[l] \in 0 .. Len(ConfigOrder) /\ steps'[l] \in 0 .. Len(ConfigOrder) /\ x \in ConfigRegs
      /\ Len(queue) \in Nat /\ DOMAIN queue = 1 .. Len(queue)
      /\ \A i \in DOMAIN queue' : i \in Nat
  BY <1>1, QueueFacts, QueueFactsNext, MoConstants
<1>3. /\ steps[l] = k => \A i, j \in DOMAIN queue : queue[i].by = l /\ j > i => ~Writes(queue[j], x)
      /\ steps[l] = 0 \/ steps[l] > k =>
            /\ SparesOf(queue, x)
            /\ Takeable(applied.config) => device[x] = applied.config[x]
  BY DEF Comes
(* An application that has come to the register is behind the last one.    *)
<1>4. ASSUME m # 0, m # l, steps'[m] = k
      PROVE  /\ steps'[l] > 0 /\ steps'[l] <= k
             /\ steps'[l] = k =>
                   \A i, j \in DOMAIN queue' : queue'[i].by = m /\ queue'[j].by = l => i < j
  <2>1. m \in 1 .. APPLIERS /\ steps'[m] > 0
    BY <1>1, <1>4, MoConstants
  <2>2. /\ steps'[l] > 0 /\ steps'[m] >= steps'[l]
        /\ steps'[m] = steps'[l] =>
              \A i, j \in DOMAIN queue' : queue'[i].by = m /\ queue'[j].by = l => i < j
    BY <1>4, <2>1 DEF Ahead
  <2> QED BY <1>2, <1>4, <2>2
<1>5. ASSUME m = l PROVE /\ d = 1 /\ 1 \in DOMAIN queue /\ queue[1].by = l /\ steps[l] > 0
                         /\ steps'[l] = IF steps[l] < Len(ConfigOrder) THEN steps[l] + 1 ELSE 0
  <2>1. steps[l] \in 1 .. Len(ConfigOrder)
    BY <1>1, <1>5, HeadOf
  <2> QED BY <1>1, <1>5, <2>1, HeadOf
<1>6. m # l => steps'[l] = steps[l]
  BY <1>1 DEF Moves, l
<1>7. applied'.by = l /\ applied'.config = applied.config
  OBVIOUS
<1>8. ASSUME NEW j \in DOMAIN queue', Writes(queue'[j], x)
      PROVE  \/ ~Joins(j, d) /\ j + d \in DOMAIN queue /\ Writes(queue[j + d], x)
             \/ m # 0 /\ Joins(j, d) /\ queue'[j].by = m /\ steps'[m] = k /\ j + d = Len(queue) + 1
  BY <1>8, WhoWrites
<1>9. ASSUME NEW i \in DOMAIN queue', queue'[i].by = l
      PROVE  /\ m = l => i + d = Len(queue) + 1
             /\ m # l => i + d \in DOMAIN queue /\ queue[i + d].by = l
  BY <1>1, <1>9, OthersStay
<1> HIDE DEF x, l
<1>10. ASSUME steps'[l] = k, NEW i \in DOMAIN queue', NEW j \in DOMAIN queue', queue'[i].by = l, j > i,
             Writes(queue'[j], x)
      PROVE  FALSE
  <2>1. CASE m = l
    <3>1. i + d = Len(queue) + 1
      BY <1>10, <1>9, <2>1
    <3>2. j + d \in DOMAIN queue \/ j + d = Len(queue) + 1
      BY <1>10, <1>8
    <3> QED BY <1>1, <1>2, <1>10, <3>1, <3>2
  <2>2. CASE m # l
    <3>1. i + d \in DOMAIN queue /\ queue[i + d].by = l /\ steps[l] = k
      BY <1>6, <1>10, <1>9, <2>2
    <3>2. CASE j + d \in DOMAIN queue /\ Writes(queue[j + d], x)
      <4>1. j + d > i + d
        BY <1>1, <1>2, <1>10
      <4> QED BY <1>3, <3>1, <3>2, <4>1
    <3>3. CASE m # 0 /\ queue'[j].by = m /\ steps'[m] = k
      <4>1. j < i
        BY <1>4, <1>10, <2>2, <3>3
      <4> QED BY <1>2, <1>10, <4>1
    <3> QED BY <1>10, <1>8, <3>2, <3>3
  <2> QED BY <2>1, <2>2
<1>11. ASSUME steps'[l] = 0 \/ steps'[l] > k
      PROVE  /\ SparesOf(queue', x)
             /\ Takeable(applied.config) => device'[x] = applied.config[x]
  <2>1. ~(m # 0 /\ steps'[m] = k)
    <3>1. m = l => steps'[m] # k
      BY <1>2, <1>11
    <3>2. m # 0 /\ m # l /\ steps'[m] = k => FALSE
      BY <1>2, <1>4, <1>11
    <3> QED BY <3>1, <3>2
  (* The write that leaves the queue is the last of the register.          *)
  <2>2. CASE m = l /\ steps[l] = k
    <3>1. ASSUME NEW j \in DOMAIN queue', Writes(queue'[j], x) PROVE FALSE
      <4>1. j + d \in DOMAIN queue /\ Writes(queue[j + d], x)
        BY <1>8, <2>1, <3>1
      <4>2. d = 1 /\ 1 \in DOMAIN queue /\ queue[1].by = l /\ j + d > 1
        BY <1>2, <1>5, <2>2, QueueFactsNext
      <4> QED BY <1>3, <2>2, <4>1, <4>2
    <3>2. Takeable(applied.config) => device'[x] = applied.config[x]
      BY <2>2 DEF Goes, x, l
    <3> QED BY <3>1, <3>2 DEF SparesOf
  <2>3. CASE ~(m = l /\ steps[l] = k)
    <3>1. steps[l] = 0 \/ steps[l] > k
      <4>1. CASE m = l
        <5>1. steps[l] \in Nat /\ k \in Nat /\ steps[l] # k
          BY <1>2, <2>3, <4>1
        <5>2. CASE steps[l] < Len(ConfigOrder)
          BY <1>5, <1>11, <4>1, <5>1, <5>2
        <5>3. CASE ~(steps[l] < Len(ConfigOrder))
          BY <1>1, <1>2, <5>1, <5>3
        <5> QED BY <5>2, <5>3
      <4>2. CASE m # l
        BY <1>6, <1>11, <4>2
      <4> QED BY <4>1, <4>2
    <3>2. SparesOf(queue, x) /\ (Takeable(applied.config) => device[x] = applied.config[x])
      BY <1>3, <3>1
    <3>3. SparesOf(queue', x)
      <4> SUFFICES ASSUME NEW j \in DOMAIN queue', Writes(queue'[j], x) PROVE FALSE
        BY DEF SparesOf
      <4>1. j + d \in DOMAIN queue /\ Writes(queue[j + d], x)
        BY <1>8, <2>1
      <4> QED BY <3>2, <4>1 DEF SparesOf
    <3>4. device'[x] = device[x]
      <4>1. device'[x] = device[x] \/ (d = 1 /\ Writes(queue[1], x))
        BY <1>2 DEF Goes
      <4>2. d = 1 => 1 \in DOMAIN queue
        BY <1>1 DEF Moves
      <4> QED BY <3>2, <4>1, <4>2 DEF SparesOf
    <3> QED BY <3>2, <3>3, <3>4
  <2> QED BY <2>2, <2>3
<1>12. /\ steps'[l] = k => \A i, j \in DOMAIN queue' : queue'[i].by = l /\ j > i => ~Writes(queue'[j], x)
       /\ steps'[l] = 0 \/ steps'[l] > k =>
             /\ SparesOf(queue', x)
             /\ Takeable(applied.config) => device'[x] = applied.config[x]
  BY <1>10, <1>11
<1> QED BY <1>7, <1>12 DEF Comes, x, l

LEMMA LeadsKept ==
    ASSUME ClientInv, ClientInv', OneEach, Leads, NEW d, NEW m, Goes(d, m), applied' = applied, applied # NONE
    PROVE  Leads'
<1> DEFINE l == applied.by
<1>1. Moves(d, m) /\ l \in 1 .. APPLIERS /\ l # 0 /\ applied.config \in Settings
  BY MoConstants DEF Goes, Moves, Leads
<1> HIDE DEF l
<1>2. m = l => steps[l] > 0 /\ steps[l] \in Nat
  <2>1. m = l => steps[l] \in 1 .. Len(ConfigOrder)
    BY <1>1, HeadOf
  <2> QED BY <2>1, MoConstants
<1>3. ASSUME steps'[l] > 0 PROVE ConfigFor(l)' = applied.config
  <2>1. steps[l] > 0
    BY <1>1, <1>2, <1>3 DEF Moves
  <2>2. ConfigFor(l) = applied.config
    BY <2>1 DEF Leads, l
  <2>3. l' = l
    BY DEF l
  <2> QED BY <1>1, <1>3, <2>1, <2>2, <2>3 DEF Goes, ConfigFor
<1>4. ASSUME NEW i \in DOMAIN queue', queue'[i].by = l PROVE queue'[i].value = applied.config[queue'[i].addr]
  <2>1. CASE m = l
    <3>1. Joins(i, d)
      BY <1>1, <1>4, <2>1, OthersStay
    <3>2. queue'[i].value = ConfigFor(l)[queue'[i].addr]
      BY <1>1, <1>4, <2>1, <3>1 DEF Goes
    <3>3. ConfigFor(l) = applied.config
      BY <1>2, <2>1 DEF Leads, l
    <3> QED BY <3>2, <3>3
  <2>2. CASE m # l
    <3>1. ~Joins(i, d) /\ i + d \in DOMAIN queue /\ queue[i + d].by = l
      BY <1>1, <1>4, <2>2, OthersStay
    <3>2. Same(queue'[i], queue[i + d])
      BY <1>1, <3>1 DEF Moves
    <3>3. queue[i + d].value = applied.config[queue[i + d].addr]
      BY <3>1 DEF Leads, l
    <3> QED BY <3>2, <3>3 DEF Same
  <2> QED BY <2>1, <2>2
<1>5. applied'.by = l /\ applied'.config = applied.config
  BY DEF l
<1> QED BY <1>1, <1>3, <1>4, <1>5 DEF Leads, l

LEMMA GoesKeeps ==
    ASSUME ClientInv, ClientInv', ConfigInv, NEW d, NEW m, Goes(d, m),
           \A p \in 1 .. APPLIERS : steps'[p] = 0 => own'[p] = NONE
    PROVE  ConfigInv'
<1>1. OneEach'
  BY EachMoves DEF ConfigInv, Goes
<1>2. ASSUME applied' # NONE PROVE Leads' /\ Ahead' /\ \A k \in 1 .. Len(ConfigOrder) : Comes(k)'
  <2>1. applied' = applied /\ applied # NONE /\ OneEach /\ Leads /\ Ahead
        /\ \A k \in 1 .. Len(ConfigOrder) : Comes(k)
    BY <1>2 DEF Goes, ConfigInv
  <2>2. Ahead'
    BY <2>1, AheadKept
  <2> QED BY <2>1, <2>2, LeadsKept, ComesKept
<1> QED BY <1>1, <1>2 DEF ConfigInv

(* The device takes a write of the last application: the capture depth is  *)
(* there already, when the value depends on it.                            *)
LEMMA ServeSets ==
    ASSUME ClientInv, ConfigInv, applied # NONE, Takeable(applied.config),
           1 \in DOMAIN queue, queue[1].by = applied.by, Serve(queue[1])
    PROVE  LET x == ConfigOrder[steps[applied.by]] IN device'[x] = applied.config[x]
<1> DEFINE l == applied.by
           c == applied.config
           r == queue[1]
           s == steps[l]
           x == ConfigOrder[s]
           old == device[CAPTURE_DEPTH]
<1>1. l \in 1 .. APPLIERS /\ l # 0 /\ c \in [ConfigRegs -> Value] /\ r.by = l /\ OneEach /\ Leads
  BY MoConstants DEF ConfigInv, Leads
<1>2. s > 0 /\ WritesAt(r, s) /\ r.value = c[r.addr]
  BY <1>1 DEF OneEach, Leads
<1>3. s \in 1 .. Len(ConfigOrder)
  <2>1. s \in 0 .. Len(ConfigOrder)
    BY <1>1, QueueFacts
  <2> QED BY <1>2, <2>1, MoConstants
<1>4. /\ x \in ConfigRegs /\ x \in Addr /\ x \in Writable /\ x \notin W1C /\ x \notin Trigger /\ Live[x] = {}
      /\ CAPTURE_DEPTH \in ConfigRegs /\ CAPTURE_DEPTH \in Addr
  BY <1>3, MoConstants, MonitorAssumption, BankAssumption
<1>5. /\ c[x] \in Value /\ c[CAPTURE_DEPTH] \in Value /\ device = [a \in Addr |-> device[a]]
      /\ device[x] \in Value /\ old \in Value
  BY <1>1, <1>4 DEF ClientInv
<1>6. r.op = "write" /\ r.addr = x /\ r.mask = Bit /\ r.value = c[x]
  BY <1>2 DEF WritesAt, Writes
<1>7. <<x, c[x], old>> \notin BadValues
  <2> SUFFICES ASSUME <<x, c[x], old>> \in BadValues PROVE FALSE
    OBVIOUS
  <2>1. <<x, c[x], c[CAPTURE_DEPTH]>> \notin BadValues
    BY <1>4 DEF Takeable
  <2> HIDE DEF c, old, l
  <2>2. PICK j \in 1 .. Len(ConfigOrder) : j < s /\ ConfigOrder[j] = CAPTURE_DEPTH
    <3>1. \A v, d, e \in Value : <<ConfigOrder[s], v, d>> \in BadValues =>
             \/ <<ConfigOrder[s], v, e>> \in BadValues
             \/ \E j \in DOMAIN ConfigOrder : j < s /\ ConfigOrder[j] = CAPTURE_DEPTH
      BY <1>3, MoConstants, MonitorAssumption
    <3> HIDE DEF s
    <3> QED BY <1>5, <2>1, <3>1, MoConstants
  <2>3. Comes(j)
    BY DEF ConfigInv
  <2>4. s > j
    BY <1>3, <2>2
  <2>5. device[CAPTURE_DEPTH] = c[CAPTURE_DEPTH]
    BY <2>2, <2>3, <2>4 DEF Comes, c, l, s
  <2> QED BY <2>1, <2>5 DEF old
<1> HIDE DEF c, x, r, old
<1>8. OldValue(device, r.addr) = device[x] /\ Merged(device[x], r) = c[x]
  <2>1. Merged(device[x], r) = c[x]
    BY <1>5, <1>6 DEF Merged, Value
  <2> QED BY <1>4, <1>6, <2>1 DEF OldValue
<1>9. TakesWrite(device, r) /\ NewValue(device, r) = c[x]
  BY <1>4, <1>6, <1>7, <1>8 DEF TakesWrite, Accepts, NewValue, old
<1>10. BankAfter(device, r)[x] = c[x]
  BY <1>4, <1>5, <1>6, <1>9 DEF BankAfter
<1> QED BY <1>10 DEF Serve, c, x, r, s, l

(* What a write or a failed one does to the queue, the applications and    *)
(* the device.                                                             *)
LEMMA SendGoes ==
    ASSUME MoInv, ClientInv, ClientInv', ConfigInv, NEW i \in Turn, NEW served \in BOOLEAN,
           SendMonitorBytesNow(i, served)
    PROVE  /\ Goes(1, queue[1].by)
           /\ \A q \in 1 .. APPLIERS : steps'[q] = 0 => own'[q] = NONE
<1> DEFINE r    == queue[1]
           rest == RemoveAt(queue, 1)
           v    == [Client EXCEPT !.queue = rest]
           p    == r.by
           n    == steps[p] + 1
           y    == ConfigFor(p)[ConfigOrder[n]]
           w    == Issue(v, "write", ConfigOrder[n], y, Bit, p)
<1>1. /\ i = 1 /\ 1 \in DOMAIN queue /\ r \in Request /\ v \in Numbered /\ v.queue = rest
      /\ IF Resumes(p) THEN /\ p \in 1 .. APPLIERS /\ ConfigFor(p) \in Settings /\ n \in 1 .. Len(ConfigOrder)
                            /\ Commit(w) /\ w \in Numbered
                       ELSE Commit(v)
  BY SendIs, Zenon
<1>2. p \in 0 .. APPLIERS
  BY <1>1 DEF Request
<1>3. /\ Done(p) /\ config' = config /\ (IF served THEN Serve(r) ELSE UNCHANGED <<line, device>>)
      /\ applied' = IF ~served /\ applied # NONE /\ p = applied.by THEN NONE ELSE applied
  BY <1>1, Zenon DEF SendMonitorBytesNow
<1>4. /\ \A q \in 1 .. APPLIERS : q # p => steps'[q] = steps[q] /\ own'[q] = own[q]
      /\ p # 0 => steps'[p] = IF Resumes(p) THEN n ELSE 0
      /\ Resumes(p) => own' = own
  BY <1>2, <1>3, StepsKeep
<1>5. /\ DOMAIN rest = 1 .. Len(queue) - 1 /\ Len(rest) = Len(queue) - 1 /\ Len(queue) \in Nat \ {0}
      /\ DOMAIN queue = 1 .. Len(queue) /\ \A j \in 1 .. Len(queue) - 1 : rest[j] = queue[j + 1]
  BY <1>1, QueueFacts, QueueRest
<1>6. IF Resumes(p) THEN Adds(rest, queue', "write", ConfigOrder[n], y, Bit, p) ELSE queue' = rest
  <2>1. CASE Resumes(p)
    <3>1. queue' = w.queue
      <4> HIDE DEF w
      <4> QED BY <1>1, <2>1, CommitIs
    <3>2. ConfigOrder[n] \in Addr /\ y \in Value /\ Bit \in Value /\ "write" \in {"read", "write"}
      BY <1>1, <2>1, MoConstants
    <3> HIDE DEF v, n, p, rest, y
    <3>3. Adds(v.queue, w.queue, "write", ConfigOrder[n], y, Bit, p)
      BY <1>1, <1>2, <3>2, IssueAppends
    <3> QED BY <1>1, <2>1, <3>1, <3>3
  <2>2. CASE ~Resumes(p)
    <3> HIDE DEF v, rest
    <3> QED BY <1>1, <2>2, CommitIs
  <2> QED BY <2>1, <2>2
<1> HIDE DEF v, w, rest, y
<1>7. /\ \A j \in 1 .. Len(queue) - 1 : j \in DOMAIN queue' /\ queue'[j] = queue[j + 1]
      /\ Resumes(p) => /\ DOMAIN queue' = 1 .. Len(queue)
                       /\ queue'[Len(queue)].by = p /\ WritesAt(queue'[Len(queue)], n)
                       /\ queue'[Len(queue)].value = y /\ queue'[Len(queue)].addr = ConfigOrder[n]
      /\ ~Resumes(p) => DOMAIN queue' = 1 .. Len(queue) - 1
  <2>1. CASE Resumes(p)
    <3>1. Adds(rest, queue', "write", ConfigOrder[n], y, Bit, p)
      BY <1>6, <2>1
    <3> HIDE DEF n, p
    <3>2. /\ DOMAIN queue' = 1 .. Len(rest) + 1 /\ \A j \in DOMAIN rest : queue'[j] = rest[j]
          /\ queue'[Len(rest) + 1].op = "write" /\ queue'[Len(rest) + 1].addr = ConfigOrder[n]
          /\ queue'[Len(rest) + 1].value = y /\ queue'[Len(rest) + 1].mask = Bit /\ queue'[Len(rest) + 1].by = p
      BY <3>1 DEF Adds
    <3>3. Len(rest) + 1 = Len(queue)
      BY <1>5
    <3>4. WritesAt(queue'[Len(queue)], n)
      BY <3>2, <3>3 DEF WritesAt, Writes
    <3>5. ASSUME NEW j \in 1 .. Len(queue) - 1 PROVE j \in DOMAIN queue' /\ queue'[j] = queue[j + 1]
      BY <1>5, <3>2
    <3>6. DOMAIN queue' = 1 .. Len(queue)
      BY <3>2, <3>3
    <3> QED BY <2>1, <3>2, <3>3, <3>4, <3>5, <3>6
  <2>2. CASE ~Resumes(p)
    BY <1>5, <1>6, <2>2
  <2> QED BY <2>1, <2>2
<1>8. Resumes(p) => p \in 1 .. APPLIERS /\ p # 0 /\ n > 0
  BY <1>1, MoConstants
(* Only the next write of the application joins the queue.                 *)
<1>9. ASSUME NEW j \in DOMAIN queue', Joins(j, 1) PROVE Resumes(p) /\ j = Len(queue)
  BY <1>5, <1>7, <1>9 DEF Joins
<1>10. Moves(1, p)
  <2>1. \A j \in DOMAIN queue : queue[j].by = p /\ p # 0 => j = 1
    BY <1>1 DEF ConfigInv, OneEach
  <2>2. \A j \in DOMAIN queue : j > 1 => j - 1 \in DOMAIN queue'
    BY <1>5, <1>7
  <2>3. ASSUME NEW j \in DOMAIN queue', ~Joins(j, 1) PROVE Same(queue'[j], queue[j + 1])
    <3>1. j \in 1 .. Len(queue) - 1
      BY <1>5, <1>7, <2>3 DEF Joins
    <3> QED BY <1>7, <3>1 DEF Same
  <2>4. ASSUME NEW j \in DOMAIN queue', Joins(j, 1), queue'[j].by # 0
        PROVE  /\ queue'[j].by = p /\ steps'[p] > 0 /\ WritesAt(queue'[j], steps'[p])
               /\ j + 1 = Len(queue) + 1
    <3>1. Resumes(p) /\ j = Len(queue)
      BY <1>9, <2>4
    <3> QED BY <1>4, <1>7, <1>8, <3>1
  <2>5. p # 0 /\ steps'[p] > 0 => \E j \in DOMAIN queue' : queue'[j].by = p
    BY <1>4, <1>5, <1>7
  <2> HIDE DEF p
  <2> QED BY <1>1, <1>2, <1>4, <2>1, <2>2, <2>3, <2>4, <2>5 DEF Moves, p
<1>11. ASSUME NEW q \in 1 .. APPLIERS, steps'[q] > 0 PROVE ConfigFor(q)' = ConfigFor(q)
  <2>1. own'[q] = own[q]
    BY <1>4, <1>11, MoConstants
  <2> QED BY <1>3, <2>1 DEF ConfigFor
<1>12. ASSUME NEW x \in ConfigRegs PROVE device'[x] = device[x] \/ Writes(r, x)
  <2>1. IsBank(device) /\ x \in Addr
    BY MoConstants DEF MoInv, MoTypes
  <2>2. CASE served
    <3>1. device' = BankAfter(device, r)
      BY <1>3, <2>2 DEF Serve
    <3> HIDE DEF r
    <3>2. x # r.addr \/ ~TakesWrite(device, r) => device'[x] = device[x]
      BY <2>1, <3>1, BankKeeps
    <3> QED BY <3>2 DEF TakesWrite, Writes
  <2>3. CASE ~served
    BY <1>3, <2>3
  <2> QED BY <2>2, <2>3
<1>13. ASSUME applied' # NONE, p = applied.by, Takeable(applied.config)
       PROVE  device'[ConfigOrder[steps[p]]] = applied.config[ConfigOrder[steps[p]]]
  <2>1. Serve(queue[1]) /\ applied # NONE
    BY <1>3, <1>13
  <2> QED BY <1>1, <1>13, <2>1, ServeSets
<1>14. ASSUME NEW j \in DOMAIN queue', Joins(j, 1)
       PROVE  queue'[j].by # 0 /\ queue'[j].value = ConfigFor(p)[queue'[j].addr]
  BY <1>7, <1>8, <1>9, <1>14 DEF y
<1>15. p # 0 => steps'[p] = IF steps[p] < Len(ConfigOrder) THEN steps[p] + 1 ELSE 0
  BY <1>4 DEF Resumes
<1>16. applied' \in {applied, NONE}
  BY <1>3
<1>17. Goes(1, p)
  <2> HIDE DEF p, n
  <2> QED BY <1>10, <1>11, <1>12, <1>13, <1>14, <1>15, <1>16 DEF Goes, r
<1>18. ASSUME NEW q \in 1 .. APPLIERS, steps'[q] = 0 PROVE own'[q] = NONE
  <2>1. CASE q = p
    <3>1. ~Resumes(p) /\ p # 0
      BY <1>4, <1>8, <1>18, <2>1, MoConstants
    <3>2. own' = [own EXCEPT ![p] = NONE] /\ own \in [1 .. APPLIERS -> Settings \cup {NONE}]
      BY <1>3, <3>1 DEF Done, ClientInv
    <3> HIDE DEF p
    <3> QED BY <2>1, <3>2
  <2>2. CASE q # p
    BY <1>4, <1>18, <2>2 DEF ConfigInv, OneEach
  <2> QED BY <2>1, <2>2
<1> QED BY <1>17, <1>18

(* The queue grows at its end only, and what an application writes is      *)
(* still the same.                                                         *)
LEMMA ConfigStays ==
    ASSUME ClientInv, ClientInv', ConfigInv, steps' = steps, applied' \in {applied, NONE},
           \A x \in ConfigRegs : device'[x] = device[x],
           \A i \in DOMAIN queue : i \in DOMAIN queue' /\ Same(queue'[i], queue[i]),
           \A i \in DOMAIN queue' : \/ i \in DOMAIN queue
                                    \/ /\ queue'[i].by = 0
                                       /\ applied' # NONE => \A x \in ConfigRegs : ~Writes(queue'[i], x),
           \A p \in 1 .. APPLIERS : IF steps[p] > 0 THEN ConfigFor(p)' = ConfigFor(p) ELSE own'[p] = NONE
    PROVE  ConfigInv'
<1>1. (\A i \in DOMAIN queue : i \in Nat \ {0}) /\ (\A i \in DOMAIN queue' : i \in Nat \ {0})
  BY QueueFacts, QueueFactsNext
<1>2. ASSUME NEW i \in DOMAIN queue' PROVE Joins(i, 0) <=> i \notin DOMAIN queue
  BY <1>1 DEF Joins
<1>3. Moves(0, 0)
  <2>1. \A i \in DOMAIN queue : i > 0 => i - 0 \in DOMAIN queue'
    BY <1>1
  <2>2. \A i \in DOMAIN queue' : ~Joins(i, 0) => Same(queue'[i], queue[i + 0])
    BY <1>1, <1>2
  <2>3. \A i \in DOMAIN queue' : ~(Joins(i, 0) /\ queue'[i].by # 0)
    BY <1>2
  <2>4. 0 \in 0 .. APPLIERS
    BY MoConstants
  <2> QED BY <2>1, <2>2, <2>3, <2>4 DEF Moves
<1>4. Goes(0, 0)
  <2>1. applied' # NONE => 0 # applied.by
    BY MoConstants DEF ConfigInv, Leads
  <2>2. \A i \in DOMAIN queue' : Joins(i, 0) =>
           /\ queue'[i].by = 0
           /\ applied' # NONE => \A x \in ConfigRegs : ~Writes(queue'[i], x)
    BY <1>2
  <2> QED BY <1>3, <2>1, <2>2 DEF Goes
<1>5. ASSUME NEW p \in 1 .. APPLIERS, steps'[p] = 0 PROVE own'[p] = NONE
  BY <1>5
<1> QED BY <1>4, <1>5, GoesKeeps

(* A configuration that starts is behind all that is in the queue.         *)
LEMMA ConfigApplies ==
    ASSUME ClientInv, ConfigInv, NEW p \in 1 .. APPLIERS, NEW c \in Configs, applyLogicAnalyzerConfig(p, c)
    PROVE  ConfigInv'
<1> DEFINE n == Len(queue) + 1
<1>1. ClientInv' /\ Adds(queue, queue', "write", ConfigOrder[1], c[ConfigOrder[1]], Bit, p)
  BY ClientApplies
<1>2. /\ steps[p] = 0 /\ config' = c /\ steps' = [steps EXCEPT ![p] = 1] /\ own' = own
      /\ applied' = [by |-> p, config |-> c]
      /\ steps \in [1 .. APPLIERS -> 0 .. Len(ConfigOrder)] /\ p # 0
  BY MoConstants DEF applyLogicAnalyzerConfig, ClientInv
<1>3. steps'[p] = 1 /\ \A q \in 1 .. APPLIERS : q # p => steps'[q] = steps[q]
  BY <1>2
<1>4. own[p] = NONE /\ OneEach
  BY <1>2 DEF ConfigInv, OneEach
<1>5. /\ Len(queue) \in Nat /\ DOMAIN queue = 1 .. Len(queue) /\ DOMAIN queue' = 1 .. n
      /\ \A i \in DOMAIN queue : queue'[i] = queue[i]
      /\ queue'[n].by = p /\ queue'[n].addr = ConfigOrder[1] /\ queue'[n].value = c[ConfigOrder[1]]
      /\ WritesAt(queue'[n], 1)
  BY <1>1 DEF Adds, WritesAt, Writes
<1>6. \A i \in DOMAIN queue : queue[i].by # p
  BY <1>2, <1>4 DEF OneEach
<1>7. n \in Nat \ {0} /\ \A i \in DOMAIN queue' : i \in Nat \ {0} /\ i + 0 = i /\ (i = n \/ i \in DOMAIN queue)
  BY <1>5
<1>8. ASSUME NEW i \in DOMAIN queue' PROVE Joins(i, 0) <=> i = n
  BY <1>5, <1>7 DEF Joins
<1>9. ASSUME NEW i \in DOMAIN queue', queue'[i].by = p PROVE i = n
  BY <1>5, <1>6, <1>7, <1>9
<1> HIDE DEF n
<1>10. Moves(0, p)
  <2>1. \A i \in DOMAIN queue : i > 0 => i - 0 \in DOMAIN queue'
    BY <1>5 DEF n
  <2>2. \A i \in DOMAIN queue' : ~Joins(i, 0) => Same(queue'[i], queue[i + 0])
    BY <1>5, <1>7, <1>8 DEF Same
  <2>3. \A i \in DOMAIN queue' : Joins(i, 0) =>
           queue'[i].by = p /\ steps'[p] > 0 /\ WritesAt(queue'[i], steps'[p]) /\ i + 0 = n
    BY <1>3, <1>5, <1>7, <1>8
  <2>4. n \in DOMAIN queue'
    BY <1>5, <1>7
  <2>5. p \in 0 .. APPLIERS
    BY MoConstants
  <2> QED BY <1>3, <1>5, <1>6, <2>1, <2>2, <2>3, <2>4, <2>5 DEF Moves, n
<1>11. OneEach'
  <2>1. ASSUME NEW q \in 1 .. APPLIERS, steps'[q] = 0 PROVE own'[q] = NONE
    BY <1>2, <1>3, <1>4, <2>1 DEF OneEach
  <2> QED BY <1>1, <1>4, <1>10, <2>1, EachMoves
<1>12. applied'.by = p /\ applied'.config = c /\ c \in Settings
  BY <1>2 DEF Settings
<1>13. Leads'
  <2>1. own'[p] = NONE /\ config' = c
    BY <1>2, <1>4
  <2>2. \A i \in DOMAIN queue' : queue'[i].by = p => queue'[i].value = c[queue'[i].addr]
    BY <1>5, <1>9
  <2> QED BY <1>12, <2>1, <2>2 DEF Leads, ConfigFor
<1>14. Ahead'
  <2>1. ASSUME NEW q \in 1 .. APPLIERS, q # p, steps'[q] > 0
        PROVE  /\ steps'[p] > 0 /\ steps'[q] >= steps'[p]
               /\ \A i, j \in DOMAIN queue' : queue'[i].by = q /\ queue'[j].by = p => i < j
    <3>1. steps'[q] \in Nat
      BY <1>1, QueueFactsNext
    <3>2. ASSUME NEW i \in DOMAIN queue', NEW j \in DOMAIN queue', queue'[i].by = q, queue'[j].by = p
          PROVE  i < j
      <4>1. j = n /\ i # n
        BY <1>5, <1>9, <2>1, <3>2
      <4> QED BY <1>5, <4>1 DEF n
    <3> QED BY <1>3, <2>1, <3>1, <3>2
  <2> QED BY <1>12, <2>1 DEF Ahead
<1>15. ASSUME NEW k \in 1 .. Len(ConfigOrder) PROVE Comes(k)'
  <2>1. ~(steps'[p] = 0 \/ steps'[p] > k)
    BY <1>3, MoConstants
  <2>2. ASSUME NEW i \in DOMAIN queue', NEW j \in DOMAIN queue', queue'[i].by = p, j > i PROVE FALSE
    <3>1. i = n
      BY <1>9, <2>2
    <3> QED BY <1>5, <2>2, <3>1 DEF n
  <2> QED BY <1>12, <2>1, <2>2 DEF Comes
<1> QED BY <1>11, <1>13, <1>14, <1>15 DEF ConfigInv

LEMMA ConfigByHand ==
    ASSUME MoInv, ClientInv, ConfigInv,
           \/ \E a \in UserReads : monitorRead(a)
           \/ \E w \in UserWrites : monitorWrite(w[1], w[2], w[3])
           \/ Poll
    PROVE  ConfigInv'
<1>1. ClientInv' /\ queue \in Seq(Request)
  BY ClientByHand, QueueFacts
<1>2. \/ AddsReads(queue, queue')
      \/ \E op, a, v, m : /\ Adds(queue, queue', op, a, v, m, 0)
                          /\ applied' # NONE => op = "read" \/ a \notin ConfigRegs
  <2>1. ASSUME NEW a \in UserReads, monitorRead(a) PROVE Adds(queue, queue', "read", a, {}, {}, 0)
    BY <2>1, ClientByHand
  <2>2. ASSUME NEW w \in UserWrites, monitorWrite(w[1], w[2], w[3])
        PROVE  /\ Adds(queue, queue', "write", w[1], w[2], w[3], 0)
               /\ applied' = IF w[1] \in ConfigRegs THEN NONE ELSE applied
    BY <2>2, ClientByHand DEF monitorWrite
  <2>3. ASSUME Poll PROVE AddsReads(queue, queue')
    BY <2>3, ClientByHand
  <2> QED BY <2>1, <2>2, <2>3
<1>3. /\ \A i \in DOMAIN queue : i \in DOMAIN queue' /\ queue'[i] = queue[i]
      /\ \A i \in DOMAIN queue' : \/ i \in DOMAIN queue
                                  \/ /\ queue'[i].by = 0
                                     /\ applied' # NONE => \A x \in ConfigRegs : ~Writes(queue'[i], x)
  <2>1. ASSUME NEW op, NEW a, NEW v, NEW m, Adds(queue, queue', op, a, v, m, 0),
               applied' # NONE => op = "read" \/ a \notin ConfigRegs
        PROVE  /\ \A i \in DOMAIN queue : i \in DOMAIN queue' /\ queue'[i] = queue[i]
               /\ \A i \in DOMAIN queue' : \/ i \in DOMAIN queue
                                           \/ /\ queue'[i].by = 0
                                              /\ applied' # NONE => \A x \in ConfigRegs : ~Writes(queue'[i], x)
    <3> DEFINE n == Len(queue) + 1
    <3>1. /\ \A i \in DOMAIN queue : i \in DOMAIN queue' /\ queue'[i] = queue[i]
          /\ \A i \in DOMAIN queue' : i = n \/ i \in DOMAIN queue
          /\ queue'[n].op = op /\ queue'[n].addr = a /\ queue'[n].by = 0
      BY <2>1 DEF Adds
    <3> HIDE DEF n
    <3>2. applied' # NONE => \A x \in ConfigRegs : ~Writes(queue'[n], x)
      BY <2>1, <3>1 DEF Writes
    <3> QED BY <3>1, <3>2
  <2>2. CASE AddsReads(queue, queue')
    BY <2>2 DEF AddsReads, Writes
  <2> QED BY <1>2, <2>1, <2>2
<1>4. UNCHANGED <<steps, own, config, device>> /\ applied' \in {applied, NONE}
  BY DEF monitorRead, monitorWrite, Poll
<1>5. ASSUME NEW p \in 1 .. APPLIERS PROVE IF steps[p] > 0 THEN ConfigFor(p)' = ConfigFor(p) ELSE own'[p] = NONE
  <2>1. steps[p] \in Nat
    BY QueueFacts
  <2>2. steps[p] = 0 => own[p] = NONE
    BY DEF ConfigInv, OneEach
  <2> QED BY <1>4, <2>1, <2>2 DEF ConfigFor
<1>6. \A i \in DOMAIN queue : i \in DOMAIN queue' /\ Same(queue'[i], queue[i])
  BY <1>3 DEF Same
<1>7. steps' = steps /\ \A x \in ConfigRegs : device'[x] = device[x]
  BY <1>4
<1> QED BY <1>1, <1>3, <1>4, <1>5, <1>6, <1>7, ConfigStays

LEMMA ConfigRest ==
    ASSUME MoInv, ClientInv, ClientInv', ConfigInv,
           \/ expireMonitorPending \/ Response \/ ResponseLost \/ DeviceChanges
           \/ clearAllRequests \/ UNCHANGED monitorVars
    PROVE  ConfigInv'
<1>1. steps' = steps /\ applied' = applied
  BY DEF expireMonitorPending, Response, ResponseLost, DeviceChanges, clearAllRequests, monitorVars, viewer
<1>2. \A i \in DOMAIN queue' : i \in DOMAIN queue
  BY DEF expireMonitorPending, Response, ResponseLost, DeviceChanges, clearAllRequests, monitorVars, viewer, Aged
<1>3. \A i \in DOMAIN queue : i \in DOMAIN queue' /\ Same(queue'[i], queue[i])
  <2>1. CASE clearAllRequests
    <3>1. queue' = Aged(queue)
      BY <2>1 DEF clearAllRequests
    <3>2. ASSUME NEW i \in DOMAIN queue PROVE i \in DOMAIN queue' /\ queue'[i] = [queue[i] EXCEPT !.tag = NONE]
      BY <3>1 DEF Aged
    <3>3. \A i \in DOMAIN queue : queue[i] \in Request
      BY QueueFacts
    <3> QED BY <3>2, <3>3 DEF Request, Same
  <2>2. CASE ~clearAllRequests
    <3>1. queue' = queue
      BY <2>2 DEF expireMonitorPending, Response, ResponseLost, DeviceChanges, monitorVars, viewer
    <3> QED BY <3>1 DEF Same
  <2> QED BY <2>1, <2>2
<1>4. ASSUME NEW x \in ConfigRegs PROVE device'[x] = device[x]
  <2>1. CASE DeviceChanges
    <3>1. PICK a \in Addr, v \in Value : Drifts(a, device[a], v) /\ device' = [device EXCEPT ![a] = v]
      BY <2>1 DEF DeviceChanges
    <3>2. x \in Addr /\ x \notin W1C /\ Live[x] = {} /\ IsBank(device)
      BY MoConstants, MonitorAssumption DEF MoInv, MoTypes
    <3>3. a = x => v = device[x]
      BY <3>1, <3>2 DEF Drifts
    <3> QED BY <3>1, <3>2, <3>3 DEF IsBank
  <2>2. CASE ~DeviceChanges
    BY <2>2 DEF expireMonitorPending, Response, ResponseLost, clearAllRequests, monitorVars, viewer
  <2> QED BY <2>1, <2>2
<1>5. ASSUME NEW p \in 1 .. APPLIERS PROVE IF steps[p] > 0 THEN ConfigFor(p)' = ConfigFor(p) ELSE own'[p] = NONE
  <2>1. steps[p] \in Nat
    BY QueueFacts
  <2>2. steps[p] = 0 => own[p] = NONE
    BY DEF ConfigInv, OneEach
  <2>3. CASE clearAllRequests
    <3>1. own'[p] = IF steps[p] = 0 THEN NONE ELSE ConfigFor(p)
      BY <2>3 DEF clearAllRequests
    <3>2. ConfigFor(p) # NONE
      BY MoConstants DEF ConfigFor, ClientInv
    <3>3. steps[p] > 0 => own'[p] = ConfigFor(p)
      BY <2>1, <3>1
    <3>4. steps[p] > 0 => ConfigFor(p)' = own'[p]
      BY <3>2, <3>3 DEF ConfigFor
    <3> QED BY <2>1, <3>1, <3>3, <3>4
  <2>4. CASE ~clearAllRequests
    <3>1. own' = own /\ config' = config
      BY <2>4 DEF expireMonitorPending, Response, ResponseLost, DeviceChanges, monitorVars, viewer
    <3> QED BY <2>1, <2>2, <3>1 DEF ConfigFor
  <2> QED BY <2>3, <2>4
<1>6. applied' \in {applied, NONE}
  BY <1>1
<1> QED BY <1>1, <1>2, <1>3, <1>4, <1>5, <1>6, ConfigStays

(* However the applications and a Clear interleave, the last one is behind *)
(* all the others in the queue, writes what was applied, and leaves each   *)
(* register it has come past at its value, whatever the registers outside  *)
(* the configuration do by themselves (applyLogicAnalyzerConfig of         *)
(* app.js).                                                                *)
THEOREM ConfigurationComes == SpecMonitor => []ConfigInv
<1>1. InitMonitor => ConfigInv
  <2> SUFFICES ASSUME InitMonitor PROVE ConfigInv
    OBVIOUS
  <2>1. DOMAIN queue = {}
    <3>1. queue \in Seq({})
      BY EmptySeq DEF InitMonitor
    <3> QED BY <3>1, EmptySeq, LenProperties DEF InitMonitor
  <2> QED BY <2>1 DEF InitMonitor, ConfigInv, OneEach
<1>2. MoInv /\ ClientInv /\ ClientInv' /\ ConfigInv /\ [NextMonitor]_monitorVars => ConfigInv'
  <2> SUFFICES ASSUME MoInv, ClientInv, ClientInv', ConfigInv, [NextMonitor]_monitorVars PROVE ConfigInv'
    OBVIOUS
  <2>1. CASE Written \/ WriteFails
    <3>1. PICK i \in Turn, served \in BOOLEAN : SendMonitorBytesNow(i, served)
      BY <2>1 DEF Written, WriteFails
    <3> QED BY <3>1, SendGoes, GoesKeeps
  <2>2. CASE \E p \in 1 .. APPLIERS, c \in Configs : applyLogicAnalyzerConfig(p, c)
    BY <2>2, ConfigApplies
  <2> QED BY <2>1, <2>2, ConfigByHand, ConfigRest DEF NextMonitor
<1> QED BY <1>1, <1>2, MonitorInvariant, ClientNumbering, PTL DEF SpecMonitor

(* However many configurations are applied at once, and whatever Clear     *)
(* replaces meanwhile, the device ends with the one applied last, whole,   *)
(* if it can take it, no write of it failed and none by hand came after it *)
(* (applyLogicAnalyzerConfig and clearAll of app.js).                      *)
THEOREM TheLastConfigurationWins == SpecMonitor => []LastConfigWins
<1>1. ConfigInv => LastConfigWins
  <2> SUFFICES ASSUME ConfigInv, applied # NONE, steps[applied.by] = 0, Takeable(applied.config),
                      NEW a \in ConfigRegs
               PROVE  device[a] = applied.config[a]
    BY DEF LastConfigWins
  <2>1. PICK k \in 1 .. Len(ConfigOrder) : ConfigOrder[k] = a
    BY MoConstants
  <2>2. Comes(k)
    BY DEF ConfigInv
  <2> QED BY <2>1, <2>2 DEF Comes
<1> QED BY <1>1, ConfigurationComes, PTL

-----------------------------------------------------------------------------
(* The render loop                                                         *)

RlInv == TypeOK /\ NothingStale

(* A request keeps the invariant when what changes is asked for or excused *)
(* afterwards, and when nothing else loses its excuse.                     *)
LEMMA RequestKeeps ==
    ASSUME RlInv, Room, paused' = paused,
           writing' \in 0..MAX_WRITES, applying' \in 0..writing',
           NEW cs \in SUBSET Parts, NEW ps \in SUBSET Panels,
           requestRender(cs, ps), ps # {},
           \A p \in cs : PanelOf(p) \in ps \/ Excused(p)',
           \A p \in Parts : Excused(p) => PanelOf(p) \in ps \/ Excused(p)'
    PROVE  RlInv'
<1> USE RenderAssumption DEF RlInv, TypeOK, NothingStale, requestRender
<1>1. CASE paused
  BY <1>1
<1>2. CASE ~paused
  <2>1. /\ stale' = stale \cup cs /\ asked' = asked \cup ps
        /\ scheduled' = TRUE /\ due' = IF scheduled THEN due ELSE due + 1
    BY <1>2
  <2>2. due' \in 0..MAX_FRAMES_DUE /\ due' > 0
    BY <2>1, <1>2 DEF Room
  <2>3. \A p \in stale' : PanelOf(p) \in asked' \/ Excused(p)'
    BY <2>1, <1>2
  <2>4. TypeOK'
    BY <2>1, <2>2
  <2> QED
    BY <2>1, <2>2, <2>3, <2>4
<1> QED
  BY <1>1, <1>2

(* The same, for a request that follows the end of a write.                *)
LEMMA WriteEndKeeps ==
    ASSUME RlInv, Room, paused' = paused,
           writing' \in 0..MAX_WRITES, applying' \in 0..writing',
           NEW cs \in SUBSET {"monitor"}, NEW ps \in SUBSET {"la"},
           AskAfterWrite(cs, ps),
           Excused("laPeriod") => "la" \in ps \/ Excused("laPeriod")'
    PROVE  RlInv'
<1>1. \A p \in Parts : Excused(p) => p \in {"monitor", "laHeader", "laPeriod"}
  BY DEF Excused
<1>2. /\ PanelOf("monitor") = "monitor" /\ PanelOf("laPeriod") = "la" /\ PanelOf("log") = "log"
      /\ Excused("laHeader")'
  BY DEF PanelOf, OfLa, Excused
<1>3. CASE requestRender({"log"} \cup cs, {"log", "monitor"} \cup ps)
  <2>1. /\ {"log"} \cup cs \in SUBSET Parts /\ {"log", "monitor"} \cup ps \in SUBSET Panels
        /\ {"log", "monitor"} \cup ps # {}
    BY DEF Parts, Panels
  <2>2. \A p \in {"log"} \cup cs : PanelOf(p) \in {"log", "monitor"} \cup ps
    BY <1>2
  <2>3. \A p \in Parts : Excused(p) => PanelOf(p) \in {"log", "monitor"} \cup ps \/ Excused(p)'
    BY <1>1, <1>2
  <2> QED BY <1>3, <2>1, <2>2, <2>3, RequestKeeps
<1>4. CASE requestRender({"monitor"} \cup cs, {"monitor"} \cup ps)
  <2>1. /\ {"monitor"} \cup cs \in SUBSET Parts /\ {"monitor"} \cup ps \in SUBSET Panels
        /\ {"monitor"} \cup ps # {}
    BY DEF Parts, Panels
  <2>2. \A p \in {"monitor"} \cup cs : PanelOf(p) \in {"monitor"} \cup ps
    BY <1>2
  <2>3. \A p \in Parts : Excused(p) => PanelOf(p) \in {"monitor"} \cup ps \/ Excused(p)'
    BY <1>1, <1>2
  <2> QED BY <1>4, <2>1, <2>2, <2>3, RequestKeeps
<1> QED BY <1>3, <1>4 DEF AskAfterWrite

(* What a frame changes it asks for, except for a capture header.          *)
LEMMA AskedCoversChanges ==
    ASSUME NEW kind \in Kinds
    PROVE  /\ Changes[kind] \cup {"counters"} \subseteq Asked(kind) \cup {"laHeader"}
           /\ Changes[kind] \cup {"counters"} \subseteq Parts
           /\ Asked(kind) \subseteq Panels /\ Asked(kind) # {}
BY DEF Kinds, Changes, Asks, Asked, Parts, Panels, OfLa

LEMMA PanelsAreTheirOwn == \A p \in Panels : p \in Parts /\ PanelOf(p) = p
BY DEF Panels, Parts, PanelOf, OfLa

(* The initial page shows everything.                                      *)
LEMMA RlInit == ASSUME InitRender PROVE RlInv
<1>1. TypeOK
  <2>1. /\ stale = {} /\ asked = {} /\ scheduled = FALSE /\ due = 0 /\ paused = FALSE
        /\ writing = 0 /\ applying = 0
    BY DEF InitRender
  <2>2. 0 \in 0..MAX_FRAMES_DUE /\ 0 \in 0..MAX_WRITES /\ 0 \in 0..0
    BY RenderAssumption
  <2>3. stale \subseteq Parts /\ asked \subseteq Panels
    BY <2>1
  <2> QED
    BY <2>1, <2>2, <2>3 DEF TypeOK
<1>2. NothingStale
  BY DEF InitRender, NothingStale
<1> QED
  BY <1>1, <1>2 DEF RlInv

(* A request for one panel, by a handler that leaves the writes alone.     *)
LEMMA OneRequestKeeps ==
    ASSUME RlInv, Room, UNCHANGED <<paused, writing, applying>>,
           NEW p \in Panels, requestRender({p}, {p})
    PROVE  RlInv'
<1>1. /\ writing' \in 0..MAX_WRITES /\ applying' \in 0..writing'
      /\ \A q \in Parts : Excused(q)' <=> Excused(q)
  BY DEF RlInv, TypeOK, Excused
<1>2. {p} \in SUBSET Parts /\ {p} \in SUBSET Panels /\ {p} # {} /\ PanelOf(p) = p
  BY PanelsAreTheirOwn
<1> QED BY <1>1, <1>2, RequestKeeps

LEMMA RlNext == ASSUME RlInv, [NextRender]_renderVars PROVE RlInv'
<1> USE RenderAssumption
<1>1. CASE ReceiveFrame
  <2>1. PICK kind \in Kinds : requestRender(Changes[kind] \cup {"counters"}, Asked(kind))
    BY <1>1 DEF ReceiveFrame
  <2>2. Room /\ UNCHANGED <<paused, writing, applying>>
    BY <1>1 DEF ReceiveFrame
  <2>3. /\ writing' \in 0..MAX_WRITES /\ applying' \in 0..writing'
        /\ \A p \in Parts : Excused(p)' <=> Excused(p)
    BY <2>2 DEF RlInv, TypeOK, Excused
  <2>4. \A p \in Changes[kind] \cup {"counters"} : PanelOf(p) \in Asked(kind) \/ Excused(p)'
    <3>1. Excused("laHeader")'
      BY DEF Excused
    <3> QED BY <3>1, AskedCoversChanges, PanelsAreTheirOwn
  <2> QED
    BY <2>1, <2>2, <2>3, <2>4, AskedCoversChanges, RequestKeeps
<1>2. CASE LogLine
  BY <1>2, OneRequestKeeps DEF LogLine, Panels
<1>3. CASE MonitorRequest
  BY <1>3 DEF MonitorRequest, RlInv, TypeOK, NothingStale, Excused, Parts, Panels
<1>4. CASE MonitorWritten
  <2>1. /\ writing' \in 0..MAX_WRITES /\ applying' \in 0..writing' /\ Room /\ paused' = paused
        /\ Excused("laPeriod") => Excused("laPeriod")'
    BY <1>4 DEF MonitorWritten, RlInv, TypeOK, Excused
  <2> QED
    BY <1>4, <2>1, WriteEndKeeps DEF MonitorWritten
<1>5. CASE StartApplying
  BY <1>5 DEF StartApplying, RlInv, TypeOK, NothingStale, Excused, Parts, Panels, OfLa
<1>6. CASE GoOnApplying
  <2>1. /\ writing' \in 0..MAX_WRITES /\ applying' \in 0..writing' /\ Room /\ paused' = paused
        /\ Excused("laPeriod") => Excused("laPeriod")'
    BY <1>6 DEF GoOnApplying, RlInv, TypeOK, Excused
  <2> QED
    BY <1>6, <2>1, WriteEndKeeps DEF GoOnApplying
<1>7. CASE EndApplying
  <2>1. /\ writing' \in 0..MAX_WRITES /\ applying' \in 0..writing' /\ Room /\ paused' = paused
    BY <1>7 DEF EndApplying, RlInv, TypeOK
  <2> QED
    BY <1>7, <2>1, WriteEndKeeps DEF EndApplying
<1>8. CASE expirePending
  BY <1>8, OneRequestKeeps DEF expirePending, Panels
<1>9. CASE ChangeViewport
  BY <1>9, OneRequestKeeps DEF ChangeViewport, Panels
<1>10. CASE ChangeFilter
  BY <1>10 DEF ChangeFilter, RlInv, TypeOK, NothingStale, Excused
<1>11. CASE flushRender
  <2>1. /\ due' = due - 1 /\ asked' = {} /\ scheduled' = FALSE
        /\ UNCHANGED <<paused, writing, applying>>
        /\ stale' \subseteq stale /\ \A p \in stale' : PanelOf(p) \notin asked
    BY <1>11 DEF flushRender, DoneScheduling
  <2>2. stale' \subseteq Parts /\ due' \in 0..MAX_FRAMES_DUE
    BY <1>11, <2>1 DEF flushRender, RlInv, TypeOK
  <2>3. TypeOK'
    BY <2>1, <2>2 DEF RlInv, TypeOK
  <2>4. ~paused => \A p \in stale' : Excused(p)
    BY <2>1 DEF RlInv, NothingStale
  <2>5. NothingStale'
    BY <2>1, <2>4 DEF NothingStale, Excused
  <2> QED
    BY <2>3, <2>5 DEF RlInv
<1>12. CASE setPaused
  BY <1>12 DEF setPaused, DrawnOnResume, RlInv, TypeOK, NothingStale, Excused
<1>13. CASE clearAll
  BY <1>13 DEF clearAll, RlInv, TypeOK, NothingStale
<1>14. CASE UNCHANGED renderVars
  BY <1>14 DEF renderVars, RlInv, TypeOK, NothingStale, Excused
<1> QED
  BY <1>1, <1>2, <1>3, <1>4, <1>5, <1>6, <1>7, <1>8, <1>9, <1>10, <1>11, <1>12, <1>13, <1>14
     DEF NextRender

(* The state of the render loop keeps its types and bounds.                *)
THEOREM RenderTypes ==
    SpecRender => []TypeOK
<1>1. RlInv => TypeOK
  BY DEF RlInv
<1>2. RlInv /\ [NextRender]_renderVars => RlInv'
  BY RlNext
<1>3. InitRender => RlInv
  BY RlInit
<1> QED
  BY <1>1, <1>2, <1>3, PTL DEF SpecRender

(* Whatever the order of frames, requests, pauses, clears and flushes,     *)
(* data that changed and is not drawn has a flush on its way               *)
(* (requestRender and clearAll of app.js).                                 *)
THEOREM NeverStale ==
    SpecRender => []NothingStale
<1>1. RlInv => NothingStale
  BY DEF RlInv
<1>2. RlInv /\ [NextRender]_renderVars => RlInv'
  BY RlNext
<1>3. InitRender => RlInv
  BY RlInit
<1> QED
  BY <1>1, <1>2, <1>3, PTL DEF SpecRender
=============================================================================
