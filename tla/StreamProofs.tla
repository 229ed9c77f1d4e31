---------------------------- MODULE StreamProofs ----------------------------
(***************************************************************************)
(* Theorems about ViewerStream: however the bytes of the target are cut    *)
(* into records and messages, and however connections, sessions, serial    *)
(* chunks and replays follow one another, the parser of the Web viewer     *)
(* does what one parse of each uninterrupted sequence would do.            *)
(*                                                                         *)
(* First the parse loop: what it does with bytes that were there before it *)
(* started, and that it comes to the same when more are added behind.      *)
(* Then sums over a sequence of parses, the records of a message, and the  *)
(* invariant StreamInv, which says what parser is in terms of fed.  Then   *)
(* the frames of a script and where a parse finds them.  Last the order    *)
(* in which bytes arrive, FlowInv.                                         *)
(***************************************************************************)
EXTENDS ViewerStream, SequenceTheorems, FiniteSetTheorems, BasicFacts

(* A byte of a session of the target is the one its script has there;      *)
(* bytes of files and of the serial port are any.                          *)
Scripted(b) == /\ b.s \in DOMAIN Script /\ b.n \in 1 .. Len(Flat(Script[b.s]))
               /\ b.v = Flat(Script[b.s])[b.n]

Byte   == {b \in [v : Nat, s : Nat, n : Nat] : b.s # 0 => Scripted(b)}
Parser == [rx : Seq(Byte), frames : Seq(Seq(Byte)), drops : Nat, bad : Nat]

(* A function on the first n numbers is a sequence.                        *)
LEMMA MadeSeq ==
    ASSUME NEW S, NEW n \in Nat, NEW f \in [1 .. n -> S]
    PROVE  f \in Seq(S) /\ Len(f) = n
  OBVIOUS

(* A sequence cut in two.                                                  *)
LEMMA CutParts ==
    ASSUME NEW S, NEW x \in Seq(S), NEW t \in 0 .. Len(x)
    PROVE  /\ SubSeq(x, 1, t) \in Seq(S) /\ Len(SubSeq(x, 1, t)) = t
           /\ \A i \in 1 .. t : SubSeq(x, 1, t)[i] = x[i]
           /\ SubSeq(x, t + 1, Len(x)) \in Seq(S) /\ Len(SubSeq(x, t + 1, Len(x))) = Len(x) - t
           /\ \A i \in 1 .. Len(x) - t : SubSeq(x, t + 1, Len(x))[i] = x[t + i]
<1>1. Len(x) \in Nat /\ \A i \in 1 .. Len(x) : x[i] \in S
  BY LenProperties, ElementOfSeq
<1> DEFINE l == Len(x)
           one == 1
<1>2. t \in Int /\ l \in Nat /\ t <= l /\ 0 <= t /\ one \in Int /\ one = 1
  BY <1>1
<1>3. \A i \in one .. t : x[i] \in S
  BY <1>1, <1>2
<1>4. \A i \in t + 1 .. l : x[i] \in S
  BY <1>1, <1>2
<1> HIDE DEF l, one
<1>5. /\ SubSeq(x, one, t) \in Seq(S) /\ Len(SubSeq(x, one, t)) = IF one <= t THEN t - one + 1 ELSE 0
      /\ \A i \in 1 .. t - one + 1 : SubSeq(x, one, t)[i] = x[one + i - 1]
  BY <1>2, <1>3, SubSeqProperties
<1>6. /\ SubSeq(x, t + 1, l) \in Seq(S) /\ Len(SubSeq(x, t + 1, l)) = IF t + 1 <= l THEN l - (t + 1) + 1 ELSE 0
      /\ \A i \in 1 .. l - (t + 1) + 1 : SubSeq(x, t + 1, l)[i] = x[(t + 1) + i - 1]
  BY <1>2, <1>4, SubSeqProperties
<1>7. /\ SubSeq(x, one, t) \in Seq(S) /\ Len(SubSeq(x, one, t)) = t
      /\ \A i \in 1 .. t : SubSeq(x, one, t)[i] = x[i]
  <2>1. t - one + 1 = t /\ (IF one <= t THEN t - one + 1 ELSE 0) = t
    BY <1>2
  <2>2. \A i \in 1 .. t : one + i - 1 = i
    BY <1>2
  <2> QED BY <1>5, <2>1, <2>2
<1>8. /\ SubSeq(x, t + 1, l) \in Seq(S) /\ Len(SubSeq(x, t + 1, l)) = l - t
      /\ \A i \in 1 .. l - t : SubSeq(x, t + 1, l)[i] = x[t + i]
  <2>1. l - (t + 1) + 1 = l - t /\ (IF t + 1 <= l THEN l - (t + 1) + 1 ELSE 0) = l - t
    BY <1>2
  <2>2. \A i \in 1 .. l - t : (t + 1) + i - 1 = t + i
    BY <1>2
  <2> QED BY <1>6, <2>1, <2>2
<1> QED BY <1>2, <1>7, <1>8 DEF l

(* What comes behind a sequence does not change how it is cut.             *)
LEMMA CutBeyond ==
    ASSUME NEW S, NEW x \in Seq(S), NEW y \in Seq(S), NEW t \in 0 .. Len(x)
    PROVE  /\ SubSeq(x \o y, 1, t) = SubSeq(x, 1, t)
           /\ SubSeq(x \o y, t + 1, Len(x \o y)) = SubSeq(x, t + 1, Len(x)) \o y
<1> DEFINE z == x \o y
           a == SubSeq(x, 1, t)
           b == SubSeq(x, t + 1, Len(x))
           c == SubSeq(z, 1, t)
           d == SubSeq(z, t + 1, Len(z))
<1>1. /\ z \in Seq(S) /\ Len(z) = Len(x) + Len(y) /\ Len(x) \in Nat /\ Len(y) \in Nat
      /\ \A i \in 1 .. Len(x) + Len(y) : z[i] = IF i <= Len(x) THEN x[i] ELSE y[i - Len(x)]
  BY ConcatProperties, LenProperties
<1>2. /\ a \in Seq(S) /\ Len(a) = t /\ \A i \in 1 .. t : a[i] = x[i]
      /\ b \in Seq(S) /\ Len(b) = Len(x) - t /\ \A i \in 1 .. Len(x) - t : b[i] = x[t + i]
  BY CutParts
<1>3. t \in 0 .. Len(z)
  BY <1>1
<1> HIDE DEF z
<1>4. /\ c \in Seq(S) /\ Len(c) = t /\ \A i \in 1 .. t : c[i] = z[i]
      /\ d \in Seq(S) /\ Len(d) = Len(z) - t /\ \A i \in 1 .. Len(z) - t : d[i] = z[t + i]
  BY <1>1, <1>3, CutParts
<1> HIDE DEF a, b, c, d
<1>5. c = a
  <2>1. \A i \in 1 .. t : z[i] = x[i]
    BY <1>1
  <2>2. \A i \in 1 .. Len(c) : c[i] = a[i]
    BY <1>2, <1>4, <2>1
  <2> QED BY <1>2, <1>4, <2>2, SeqEqual
<1>6. d = b \o y
  <2> DEFINE e == b \o y
  <2>1. /\ e \in Seq(S) /\ Len(e) = Len(b) + Len(y)
        /\ \A i \in 1 .. Len(b) + Len(y) : e[i] = IF i <= Len(b) THEN b[i] ELSE y[i - Len(b)]
    BY <1>2, ConcatProperties
  <2> HIDE DEF e
  <2>2. Len(d) = Len(e)
    BY <1>1, <1>2, <1>4, <2>1
  <2>3. ASSUME NEW i \in 1 .. Len(d) PROVE d[i] = e[i]
    <3>1. i \in 1 .. Len(z) - t /\ t + i \in 1 .. Len(x) + Len(y) /\ i \in 1 .. Len(b) + Len(y)
      BY <1>1, <1>2, <1>4
    <3>2. d[i] = IF t + i <= Len(x) THEN x[t + i] ELSE y[(t + i) - Len(x)]
      BY <1>1, <1>4, <3>1
    <3>3. e[i] = IF i <= Len(x) - t THEN b[i] ELSE y[i - (Len(x) - t)]
      BY <1>2, <2>1, <3>1
    <3>4. (t + i <= Len(x) <=> i <= Len(x) - t) /\ (t + i) - Len(x) = i - (Len(x) - t)
      BY <1>1, <3>1
    <3>5. i <= Len(x) - t => b[i] = x[t + i]
      BY <1>2
    <3> QED BY <3>2, <3>3, <3>4, <3>5
  <2> QED BY <1>4, <2>1, <2>2, <2>3, SeqEqual DEF e
<1> QED BY <1>5, <1>6 DEF a, b, c, d, z

(* The bytes a turn of the loop takes, and whether they are a frame.       *)
Takes(x)  == IF x[1].v = SOF /\ x[4].v <= MAX_PAYLOAD THEN HEADER + x[4].v ELSE 1
Holds(x)  == /\ x[1].v = SOF /\ x[4].v <= MAX_PAYLOAD
             /\ ChecksumHolds(SubSeq(x, 1, Takes(x)))
Enough(x) == Len(x) >= HEADER /\ Len(x) >= Takes(x)

LEMMA StepIs ==
    ASSUME NEW p \in Parser
    PROVE  /\ CanStep(p) <=> Enough(p.rx)
           /\ CanStep(p) =>
                LET x == p.rx
                    t == Takes(x)
                IN /\ t \in 1 .. Len(x)
                   /\ Step(p) \in Parser
                   /\ Step(p) = [rx     |-> SubSeq(x, t + 1, Len(x)),
                                 frames |-> IF Holds(x) THEN Append(p.frames, SubSeq(x, 1, t)) ELSE p.frames,
                                 drops  |-> p.drops + (IF x[1].v = SOF /\ x[4].v <= MAX_PAYLOAD THEN 0 ELSE 1),
                                 bad    |-> p.bad + (IF x[1].v = SOF /\ x[4].v <= MAX_PAYLOAD /\ ~Holds(x)
                                                     THEN t ELSE 0)]
<1> DEFINE x == p.rx
           t == Takes(x)
           ok == x[1].v = SOF /\ x[4].v <= MAX_PAYLOAD
<1>1. /\ x \in Seq(Byte) /\ p.frames \in Seq(Seq(Byte)) /\ p.drops \in Nat /\ p.bad \in Nat
      /\ Len(x) \in Nat /\ \A i \in 1 .. Len(x) : x[i].v \in Nat
  <2>1. x \in Seq(Byte) /\ p.frames \in Seq(Seq(Byte)) /\ p.drops \in Nat /\ p.bad \in Nat
    BY DEF Parser
  <2>2. Len(x) \in Nat /\ \A i \in 1 .. Len(x) : x[i] \in Byte
    BY <2>1, LenProperties, ElementOfSeq
  <2> QED BY <2>1, <2>2 DEF Byte
<1>2. CanStep(p) <=> Enough(x)
  BY <1>1 DEF CanStep, Enough, Takes, Plausible, total, HEADER
<1>3. ASSUME CanStep(p)
      PROVE  /\ t \in 1 .. Len(x)
             /\ Step(p) \in Parser
             /\ Step(p) = [rx     |-> SubSeq(x, t + 1, Len(x)),
                           frames |-> IF Holds(x) THEN Append(p.frames, SubSeq(x, 1, t)) ELSE p.frames,
                           drops  |-> p.drops + (IF ok THEN 0 ELSE 1),
                           bad    |-> p.bad + (IF ok /\ ~Holds(x) THEN t ELSE 0)]
  <2>1. Len(x) >= 5 /\ t \in 1 .. Len(x)
    BY <1>1, <1>2, <1>3 DEF Enough, Takes, HEADER
  <2>2. /\ SubSeq(x, 1, t) \in Seq(Byte) /\ SubSeq(x, t + 1, Len(x)) \in Seq(Byte) /\ Len(SubSeq(x, 1, t)) = t
    <3>1. t \in 0 .. Len(x)
      BY <1>1, <2>1
    <3> HIDE DEF x, t
    <3> QED BY <1>1, <3>1, CutParts
  <2> DEFINE raw  == SubSeq(x, 1, t)
             rest == SubSeq(x, t + 1, Len(x))
             fr   == Append(p.frames, raw)
  <2>3. fr \in Seq(Seq(Byte))
    <3> HIDE DEF raw
    <3> QED BY <1>1, <2>2, AppendProperties DEF raw
  <2>4. CASE ~ok
    <3>1. t = 1 /\ ~Holds(x) /\ ~Plausible(p)
      BY <2>4 DEF Takes, Holds, Plausible
    <3>2. Tail(x) = rest
      <4>1. Tail(x) = SubSeq(x, 2, Len(x))
        BY <1>1, <2>1, TailIsSubSeq, EmptySeq
      <4> QED BY <3>1, <4>1
    <3>3. Step(p) = [p EXCEPT !.rx = rest, !.drops = @ + 1]
      BY <3>1, <3>2 DEF Step
    <3> HIDE DEF rest
    <3>4. Step(p) = [rx |-> rest, frames |-> p.frames, drops |-> p.drops + 1, bad |-> p.bad]
      BY <3>3 DEF Parser
    <3>5. Step(p) \in Parser
      BY <1>1, <2>2, <3>4 DEF Parser, rest
    <3>6. p.bad + 0 = p.bad /\ (IF Holds(x) THEN fr ELSE p.frames) = p.frames
      BY <1>1, <3>1
    <3> HIDE DEF t, ok
    <3> QED BY <2>1, <2>4, <3>1, <3>4, <3>5, <3>6 DEF rest
  <2>5. CASE ok
    <3>1. t = total(p) /\ Plausible(p)
      BY <2>5 DEF Takes, Plausible, total
    <3>2. Holds(x) <=> ChecksumHolds(raw)
      BY <2>5 DEF Holds
    <3>3. Step(p) = IF ChecksumHolds(raw) THEN [p EXCEPT !.rx = rest, !.frames = fr]
                    ELSE [p EXCEPT !.rx = rest, !.bad = @ + t]
      BY <2>2, <3>1 DEF Step
    <3> HIDE DEF rest, fr, raw, t
    <3>4. CASE Holds(x)
      <4>1. Step(p) = [p EXCEPT !.rx = rest, !.frames = fr]
        BY <3>2, <3>3, <3>4
      <4>2. Step(p) = [rx |-> rest, frames |-> fr, drops |-> p.drops, bad |-> p.bad]
        BY <4>1 DEF Parser
      <4>3. Step(p) \in Parser
        BY <1>1, <2>2, <2>3, <4>2 DEF Parser, rest
      <4>4. p.drops + 0 = p.drops /\ p.bad + 0 = p.bad
        BY <1>1
      <4> QED BY <2>1, <2>5, <3>4, <4>2, <4>3, <4>4 DEF rest, fr, raw
    <3>5. CASE ~Holds(x)
      <4>1. Step(p) = [p EXCEPT !.rx = rest, !.bad = @ + t]
        BY <3>2, <3>3, <3>5
      <4>2. Step(p) = [rx |-> rest, frames |-> p.frames, drops |-> p.drops, bad |-> p.bad + t]
        BY <4>1 DEF Parser
      <4>3. p.bad + t \in Nat
        BY <1>1, <2>1
      <4>4. Step(p) \in Parser
        BY <1>1, <2>2, <4>2, <4>3 DEF Parser, rest
      <4>5. p.drops + 0 = p.drops
        BY <1>1
      <4> QED BY <2>1, <2>5, <3>5, <4>2, <4>4, <4>5 DEF rest
    <3> QED BY <3>4, <3>5
  <2> QED BY <2>4, <2>5
<1> HIDE DEF x, t, ok
<1> QED BY <1>2, <1>3 DEF x, t, ok

(* A parser with other bytes behind its own and other results before.      *)
Ctx(p, y, frames, drops, bad) ==
    [rx |-> p.rx \o y, frames |-> frames \o p.frames, drops |-> drops + p.drops, bad |-> bad + p.bad]

LEMMA ParserFields ==
    ASSUME NEW p \in Parser
    PROVE  p.rx \in Seq(Byte) /\ p.frames \in Seq(Seq(Byte)) /\ p.drops \in Nat /\ p.bad \in Nat
           /\ Len(p.rx) \in Nat
           /\ p = [rx |-> p.rx, frames |-> p.frames, drops |-> p.drops, bad |-> p.bad]
<1>1. p.rx \in Seq(Byte) /\ p.frames \in Seq(Seq(Byte)) /\ p.drops \in Nat /\ p.bad \in Nat
      /\ p = [rx |-> p.rx, frames |-> p.frames, drops |-> p.drops, bad |-> p.bad]
  BY DEF Parser
<1> QED BY <1>1, LenProperties

LEMMA CtxType ==
    ASSUME NEW p \in Parser, NEW y \in Seq(Byte), NEW F \in Seq(Seq(Byte)), NEW d \in Nat, NEW b \in Nat
    PROVE  Ctx(p, y, F, d, b) \in Parser
<1>1. p.rx \in Seq(Byte) /\ p.frames \in Seq(Seq(Byte)) /\ p.drops \in Nat /\ p.bad \in Nat
  BY ParserFields
<1>2. p.rx \o y \in Seq(Byte)
  BY <1>1, ConcatProperties
<1> DEFINE E == Seq(Byte)
<1>3. F \in Seq(E) /\ p.frames \in Seq(E)
  BY <1>1
<1> HIDE DEF E
<1>4. F \o p.frames \in Seq(E)
  BY <1>3, ConcatProperties
<1> QED BY <1>1, <1>2, <1>4 DEF Ctx, Parser, E

LEMMA ConcatAppend ==
    ASSUME NEW S, NEW s \in Seq(S), NEW t \in Seq(S), NEW e \in S
    PROVE  s \o Append(t, e) = Append(s \o t, e)
<1> DEFINE o == <<e>>
<1>1. o \in Seq(S)
  OBVIOUS
<1>2. Append(t, e) = t \o o /\ s \o t \in Seq(S)
  BY AppendIsConcat, ConcatProperties
<1>3. Append(s \o t, e) = (s \o t) \o o
  BY <1>2, AppendIsConcat
<1> HIDE DEF o
<1>4. s \o (t \o o) = (s \o t) \o o
  BY <1>1, ConcatAssociative
<1> QED BY <1>2, <1>3, <1>4

LEMMA EnoughBeyond ==
    ASSUME NEW x \in Seq(Byte), NEW y \in Seq(Byte), Enough(x)
    PROVE  LET z == x \o y
           IN /\ Enough(z) /\ Takes(z) = Takes(x) /\ Takes(x) \in 1 .. Len(x)
              /\ z[1] = x[1] /\ z[4] = x[4] /\ (Holds(z) <=> Holds(x))
              /\ SubSeq(z, 1, Takes(x)) = SubSeq(x, 1, Takes(x))
              /\ SubSeq(z, Takes(x) + 1, Len(z)) = SubSeq(x, Takes(x) + 1, Len(x)) \o y
<1> DEFINE z == x \o y
           t == Takes(x)
<1>1. /\ z \in Seq(Byte) /\ Len(z) = Len(x) + Len(y) /\ Len(x) \in Nat /\ Len(y) \in Nat
      /\ \A i \in 1 .. Len(x) + Len(y) : z[i] = IF i <= Len(x) THEN x[i] ELSE y[i - Len(x)]
  BY ConcatProperties, LenProperties
<1>2. Len(x) >= 5 /\ Len(x) >= t
  BY DEF Enough, HEADER
<1> HIDE DEF z
<1>3. z[1] = x[1] /\ z[4] = x[4]
  BY <1>1, <1>2
<1>4. Takes(z) = t
  BY <1>3 DEF Takes
<1>5. t \in 1 .. Len(x)
  <2>1. x[4] \in Byte
    BY <1>1, <1>2, ElementOfSeq
  <2>2. x[4].v \in Nat
    BY <2>1 DEF Byte
  <2> QED BY <1>1, <1>2, <2>2 DEF Takes, HEADER
<1>6. Enough(z)
  BY <1>1, <1>2, <1>4, <1>5 DEF Enough, HEADER
<1> HIDE DEF t
<1>7. SubSeq(z, 1, t) = SubSeq(x, 1, t) /\ SubSeq(z, t + 1, Len(z)) = SubSeq(x, t + 1, Len(x)) \o y
  <2>1. t \in 0 .. Len(x)
    BY <1>1, <1>5
  <2> QED BY <1>1, <2>1, CutBeyond DEF z
<1>8. Holds(z) <=> Holds(x)
  BY <1>3, <1>4, <1>7 DEF Holds, t
<1> QED BY <1>3, <1>4, <1>5, <1>6, <1>7, <1>8 DEF z, t

(* The loop does not look at what comes behind, nor at the results.        *)
LEMMA StepInCtx ==
    ASSUME NEW p \in Parser, NEW y \in Seq(Byte), NEW F \in Seq(Seq(Byte)), NEW d \in Nat, NEW b \in Nat,
           CanStep(p)
    PROVE  /\ CanStep(Ctx(p, y, F, d, b))
           /\ Step(Ctx(p, y, F, d, b)) = Ctx(Step(p), y, F, d, b)
<1> DEFINE q  == Ctx(p, y, F, d, b)
           x  == p.rx
           z  == x \o y
           t  == Takes(x)
           ok == x[1].v = SOF /\ x[4].v <= MAX_PAYLOAD
           raw == SubSeq(x, 1, t)
           rest == SubSeq(x, t + 1, Len(x))
           more == IF ok THEN 0 ELSE 1
           lost == IF ok /\ ~Holds(x) THEN t ELSE 0
<1>1. x \in Seq(Byte) /\ p.frames \in Seq(Seq(Byte)) /\ p.drops \in Nat /\ p.bad \in Nat
  BY ParserFields
<1>2. q \in Parser /\ q.rx = z /\ q.frames = F \o p.frames /\ q.drops = d + p.drops /\ q.bad = b + p.bad
  BY CtxType DEF Ctx
<1>3. Enough(x) /\ t \in 1 .. Len(x)
      /\ Step(p) = [rx |-> rest, frames |-> IF Holds(x) THEN Append(p.frames, raw) ELSE p.frames,
                    drops |-> p.drops + more, bad |-> p.bad + lost]
  BY StepIs
<1>4. /\ Enough(z) /\ Takes(z) = t /\ z[1] = x[1] /\ z[4] = x[4] /\ (Holds(z) <=> Holds(x))
      /\ SubSeq(z, 1, t) = raw /\ SubSeq(z, t + 1, Len(z)) = rest \o y
  BY <1>1, <1>3, EnoughBeyond
<1>5. CanStep(q)
  BY <1>2, <1>4, StepIs
<1>6. Step(q) = [rx |-> rest \o y,
                 frames |-> IF Holds(x) THEN Append(F \o p.frames, raw) ELSE F \o p.frames,
                 drops |-> (d + p.drops) + more, bad |-> (b + p.bad) + lost]
  <2> HIDE DEF q, z, x, raw, rest
  <2>1. Step(q) = [rx     |-> SubSeq(z, t + 1, Len(z)),
                   frames |-> IF Holds(z) THEN Append(q.frames, SubSeq(z, 1, t)) ELSE q.frames,
                   drops  |-> q.drops + (IF z[1].v = SOF /\ z[4].v <= MAX_PAYLOAD THEN 0 ELSE 1),
                   bad    |-> q.bad + (IF z[1].v = SOF /\ z[4].v <= MAX_PAYLOAD /\ ~Holds(z) THEN t ELSE 0)]
    BY <1>2, <1>4, <1>5, StepIs
  <2> QED BY <1>2, <1>4, <2>1
<1>7. raw \in Seq(Byte)
  <2> HIDE DEF x, t
  <2>1. t \in 0 .. Len(x)
    BY <1>3
  <2> QED BY <1>1, <2>1, CutParts
<1>8. F \o Append(p.frames, raw) = Append(F \o p.frames, raw)
  <2> DEFINE E == Seq(Byte)
             fr == p.frames
  <2>1. F \in Seq(E) /\ fr \in Seq(E) /\ raw \in E
    BY <1>1, <1>7
  <2> HIDE DEF E, raw, fr
  <2>2. F \o Append(fr, raw) = Append(F \o fr, raw)
    BY <2>1, ConcatAppend
  <2> QED BY <2>2 DEF fr
<1>9. more \in Nat /\ lost \in Nat
  BY <1>3
<1> HIDE DEF q, x, z, t, ok, raw, rest, more, lost
<1>10. (d + p.drops) + more = d + (p.drops + more) /\ (b + p.bad) + lost = b + (p.bad + lost)
  BY <1>1, <1>9
<1>11. Step(q) = Ctx(Step(p), y, F, d, b)
  <2> DEFINE o == Step(p)
  <2> HIDE DEF o
  <2>1. /\ o.rx = rest /\ o.drops = p.drops + more /\ o.bad = p.bad + lost
        /\ o.frames = IF Holds(x) THEN Append(p.frames, raw) ELSE p.frames
    BY <1>3 DEF o
  <2>2. Ctx(o, y, F, d, b) = [rx |-> rest \o y, frames |-> F \o o.frames,
                              drops |-> d + (p.drops + more), bad |-> b + (p.bad + lost)]
    BY <2>1 DEF Ctx
  <2>3. F \o o.frames = IF Holds(x) THEN Append(F \o p.frames, raw) ELSE F \o p.frames
    <3>1. CASE Holds(x)
      BY <1>8, <2>1, <3>1
    <3>2. CASE ~Holds(x)
      BY <2>1, <3>2
    <3> QED BY <3>1, <3>2
  <2> QED BY <1>6, <1>10, <2>2, <2>3 DEF o
<1> QED BY <1>5, <1>11 DEF q

-----------------------------------------------------------------------------
(* The loop: what every turn of it says of its end.                        *)
Small(n) == {p \in Parser : Len(p.rx) <= n}

Turns(D, n) == D \in [Small(n) -> Parser]
               /\ \A p \in Small(n) : D[p] = IF CanStep(p) THEN D[Step(p)] ELSE p

LEMMA StepShrinks ==
    ASSUME NEW p \in Parser, CanStep(p)
    PROVE  Step(p) \in Parser /\ Len(Step(p).rx) < Len(p.rx) /\ Len(Step(p).rx) \in Nat /\ Len(p.rx) \in Nat
<1> DEFINE x == p.rx
           t == Takes(x)
<1>1. x \in Seq(Byte) /\ Len(x) \in Nat
  BY ParserFields
<1>2. t \in 1 .. Len(x) /\ Step(p) \in Parser /\ Step(p).rx = SubSeq(x, t + 1, Len(x))
  BY StepIs
<1> HIDE DEF x, t
<1>3. Len(SubSeq(x, t + 1, Len(x))) = Len(x) - t
  <2>1. t \in 0 .. Len(x)
    BY <1>1, <1>2
  <2> QED BY <1>1, <2>1, CutParts
<1> QED BY <1>1, <1>2, <1>3 DEF x

LEMMA TurnsExist ==
    ASSUME NEW n \in Nat
    PROVE  \E D : Turns(D, n)
<1> DEFINE P == {k \in Nat : \E D : Turns(D, k)}
<1>1. 0 \in P
  <2> DEFINE D == [p \in Small(0) |-> p]
  <2>1. \A p \in Small(0) : p \in Parser /\ ~CanStep(p)
    <3> SUFFICES ASSUME NEW p \in Small(0), CanStep(p) PROVE FALSE
      BY DEF Small
    <3> QED BY StepShrinks DEF Small
  <2>2. Turns(D, 0)
    BY <2>1 DEF Turns
  <2> QED BY <2>2
<1>2. ASSUME NEW k \in 1 .. n, k - 1 \in P PROVE k \in P
  <2>1. PICK D : Turns(D, k - 1)
    BY <1>2
  <2> DEFINE E == [p \in Small(k) |-> IF CanStep(p) THEN D[Step(p)] ELSE p]
  <2>2. ASSUME NEW p \in Small(k), CanStep(p) PROVE Step(p) \in Small(k - 1)
    <3>1. p \in Parser /\ Len(p.rx) <= k
      BY DEF Small
    <3>2. Step(p) \in Parser /\ Len(Step(p).rx) < Len(p.rx) /\ Len(Step(p).rx) \in Nat /\ Len(p.rx) \in Nat
      BY <2>2, <3>1, StepShrinks
    <3>3. Len(Step(p).rx) <= k - 1
      BY <3>1, <3>2
    <3> QED BY <3>2, <3>3 DEF Small
  <2>3. \A p \in Small(k - 1) : p \in Small(k) /\ E[p] = D[p]
    <3> SUFFICES ASSUME NEW p \in Small(k - 1) PROVE p \in Small(k) /\ E[p] = D[p]
      OBVIOUS
    <3>1. p \in Parser /\ Len(p.rx) <= k - 1 /\ Len(p.rx) \in Nat
      BY ParserFields DEF Small
    <3>2. p \in Small(k)
      BY <3>1 DEF Small
    <3> QED BY <2>1, <3>2 DEF Turns
  <2>4. E \in [Small(k) -> Parser]
    <3> SUFFICES ASSUME NEW p \in Small(k) PROVE (IF CanStep(p) THEN D[Step(p)] ELSE p) \in Parser
      OBVIOUS
    <3> QED BY <2>1, <2>2 DEF Turns, Small
  <2>5. ASSUME NEW p \in Small(k) PROVE E[p] = IF CanStep(p) THEN E[Step(p)] ELSE p
    <3>1. CASE CanStep(p)
      BY <2>2, <2>3, <3>1
    <3>2. CASE ~CanStep(p)
      BY <3>2
    <3> QED BY <3>1, <3>2
  <2> HIDE DEF E
  <2>6. Turns(E, k)
    BY <2>4, <2>5 DEF Turns
  <2> QED BY <2>6
<1>3. n \in P
  <2> HIDE DEF P
  <2>1. 0 .. n \subseteq P
    BY <1>1, <1>2, UpTo
  <2> QED BY <2>1
<1> QED BY <1>3

LEMMA ParseIs ==
    ASSUME NEW n \in Nat, NEW D, Turns(D, n), NEW p \in Small(n)
    PROVE  parseAvailableFrames(p) = D[p] /\ parseAvailableFrames(p) \in Parser
<1> DEFINE l == Len(p.rx)
           s == [i \in 1 .. l |-> i]
           turn(q) == IF CanStep(q) THEN Step(q) ELSE q
           Folds(it) == it = [T \in SUBSET (DOMAIN s) |-> IF T = {} THEN p ELSE turn(it[T \ {Top(T)}])]
           f == CHOOSE it : Folds(it)
           g == [z \in (1 .. l) \X Parser |-> turn(z[2])]
<1>1. p \in Parser /\ l \in Nat /\ l <= n
  BY ParserFields DEF Small
<1>2. parseAvailableFrames(p) = f[DOMAIN s]
  BY Zenon DEF parseAvailableFrames, FoldLeft, MapThenFoldSet, Max, Top
<1>3. DOMAIN s = 1 .. l
  OBVIOUS
<1>4. \A q \in Parser : turn(q) \in Parser
  BY StepShrinks
<1> HIDE DEF s, l, turn
<1>5. g \in [(1 .. l) \X Parser -> Parser]
  BY <1>4
<1>6. Folds(f)
  <2> HIDE DEF g
  <2>1. PICK it \in [SUBSET (1 .. l) -> Parser] : IsLeftFold(it, l, p, g)
    BY <1>1, <1>5, LeftFoldExists
  <2>2. ASSUME NEW T \in SUBSET (1 .. l), T # {}
        PROVE  g[<<Top(T), it[T \ {Top(T)}]>>] = turn(it[T \ {Top(T)}])
    BY <1>1, <2>1, <2>2, TopOf DEF g
  <2>3. Folds(it)
    BY <1>3, <2>1, <2>2 DEF IsLeftFold
  <2> QED BY <2>3
<1> HIDE DEF f, g
<1>7. f[{}] = p /\ \A k \in 1 .. l : f[1 .. k] = turn(f[1 .. k - 1])
  <2>1. ASSUME NEW k \in 1 .. l PROVE f[1 .. k] = turn(f[1 .. k - 1])
    <3>1. 1 .. k # {} /\ (1 .. k) \in SUBSET (1 .. l) /\ Top(1 .. k) = k /\ (1 .. k) \ {k} = 1 .. k - 1
      BY <1>1, TopInterval
    <3> QED BY <1>3, <1>6, <3>1
  <2> QED BY <1>3, <1>6, <2>1
<1> DEFINE A == {k \in 0 .. l : LET q == f[1 .. k]
                                IN /\ q \in Small(n) /\ D[q] = D[p]
                                   /\ ~CanStep(q) \/ Len(q.rx) + k <= l}
<1>8. 0 \in A
  <2>1. 1 .. 0 = {}
    OBVIOUS
  <2> QED BY <1>1, <1>7, <2>1 DEF l
<1>9. ASSUME NEW k \in 1 .. l, k - 1 \in A PROVE k \in A
  <2> DEFINE q == f[1 .. k - 1]
             r == f[1 .. k]
  <2>1. q \in Small(n) /\ D[q] = D[p] /\ (~CanStep(q) \/ Len(q.rx) + (k - 1) <= l)
    BY <1>9
  <2>2. r = turn(q)
    BY <1>7
  <2> HIDE DEF q, r
  <2>3. CASE ~CanStep(q)
    <3>1. r = q
      BY <2>2, <2>3 DEF turn
    <3> QED BY <2>1, <2>3, <3>1 DEF r
  <2>4. CASE CanStep(q)
    <3>1. r = Step(q)
      BY <2>2, <2>4 DEF turn
    <3>2. q \in Parser /\ Len(q.rx) <= n
      BY <2>1 DEF Small
    <3>3. r \in Parser /\ Len(r.rx) < Len(q.rx) /\ Len(r.rx) \in Nat /\ Len(q.rx) \in Nat
      BY <2>4, <3>1, <3>2, StepShrinks
    <3>4. Len(r.rx) <= n /\ Len(r.rx) + k <= l
      BY <1>1, <2>1, <2>4, <3>2, <3>3
    <3>5. D[q] = D[r]
      BY <2>1, <2>4, <3>1 DEF Turns
    <3> QED BY <2>1, <3>3, <3>4, <3>5 DEF r, Small
  <2> QED BY <2>3, <2>4
<1>10. l \in A
  <2> HIDE DEF A
  <2>1. 0 .. l \subseteq A
    BY <1>1, <1>8, <1>9, UpTo
  <2> QED BY <1>1, <2>1
<1> DEFINE q == f[1 .. l]
<1>11. q \in Small(n) /\ D[q] = D[p] /\ (~CanStep(q) \/ Len(q.rx) + l <= l)
  BY <1>10
<1> HIDE DEF q
<1>12. ~CanStep(q) /\ q \in Parser
  <2>1. q \in Parser /\ Len(q.rx) \in Nat
    BY <1>11, ParserFields DEF Small
  <2>2. SUFFICES ASSUME CanStep(q) PROVE FALSE
    BY <2>1
  <2>3. Len(q.rx) <= 0
    BY <1>1, <1>11, <2>1, <2>2
  <2> QED BY <2>1, <2>2, <2>3, StepShrinks
<1>13. D[q] = q
  BY <1>11, <1>12 DEF Turns
<1> QED BY <1>2, <1>3, <1>11, <1>12, <1>13 DEF q

LEMMA ParseStep ==
    ASSUME NEW p \in Parser
    PROVE  /\ parseAvailableFrames(p) \in Parser
           /\ parseAvailableFrames(p) = IF CanStep(p) THEN parseAvailableFrames(Step(p)) ELSE p
<1> DEFINE n == Len(p.rx)
<1>1. n \in Nat /\ p \in Small(n)
  BY ParserFields DEF Small
<1> HIDE DEF n
<1>2. PICK D : Turns(D, n)
  BY <1>1, TurnsExist
<1>3. parseAvailableFrames(p) = D[p] /\ parseAvailableFrames(p) \in Parser
  BY <1>1, <1>2, ParseIs
<1>4. ASSUME CanStep(p) PROVE parseAvailableFrames(Step(p)) = D[Step(p)]
  <2>1. Step(p) \in Small(n)
    BY <1>1, <1>4, StepShrinks DEF Small
  <2> QED BY <1>1, <1>2, <2>1, ParseIs
<1>5. D[p] = IF CanStep(p) THEN D[Step(p)] ELSE p
  BY <1>1, <1>2 DEF Turns
<1> QED BY <1>3, <1>4, <1>5

(* What holds of a parser whose loop is over, and of one when it holds     *)
(* after the next turn, holds of every parser.                             *)
LEMMA EveryParser ==
    ASSUME NEW G, \A p \in Parser : (CanStep(p) => Step(p) \in G) => p \in G
    PROVE  \A p \in Parser : p \in G
<1> SUFFICES ASSUME NEW p \in Parser PROVE p \in G
  OBVIOUS
<1> DEFINE n == Len(p.rx)
           P == {k \in Nat : Small(k) \subseteq G}
<1>1. n \in Nat /\ p \in Small(n)
  BY ParserFields DEF Small
<1> HIDE DEF n
<1>2. 0 \in P
  <2> SUFFICES ASSUME NEW q \in Small(0) PROVE q \in G
    OBVIOUS
  <2>1. q \in Parser /\ Len(q.rx) <= 0
    BY DEF Small
  <2>2. ~CanStep(q)
    BY <2>1, StepShrinks
  <2> QED BY <2>1, <2>2
<1>3. ASSUME NEW k \in 1 .. n, k - 1 \in P PROVE k \in P
  <2> SUFFICES ASSUME NEW q \in Small(k) PROVE q \in G
    OBVIOUS
  <2>1. q \in Parser /\ Len(q.rx) <= k
    BY DEF Small
  <2>2. ASSUME CanStep(q) PROVE Step(q) \in G
    <3>1. Step(q) \in Small(k - 1)
      BY <2>1, <2>2, StepShrinks DEF Small
    <3> QED BY <1>3, <3>1
  <2> QED BY <2>1, <2>2
<1>4. n \in P
  <2> HIDE DEF P
  <2>1. 0 .. n \subseteq P
    BY <1>1, <1>2, <1>3, UpTo
  <2> QED BY <1>1, <2>1
<1> QED BY <1>1, <1>4

(* Bytes that are parsed and then more bytes are parsed as all of them.    *)
LEMMA ParseInCtx ==
    ASSUME NEW p \in Parser, NEW y \in Seq(Byte), NEW F \in Seq(Seq(Byte)), NEW d \in Nat, NEW b \in Nat
    PROVE  parseAvailableFrames(Ctx(p, y, F, d, b)) = parseAvailableFrames(Ctx(parseAvailableFrames(p), y, F, d, b))
<1> DEFINE G == {q \in Parser : parseAvailableFrames(Ctx(q, y, F, d, b))
                              = parseAvailableFrames(Ctx(parseAvailableFrames(q), y, F, d, b))}
<1>1. ASSUME NEW q \in Parser, CanStep(q) => Step(q) \in G PROVE q \in G
  <2>1. CASE CanStep(q)
    <3>1. parseAvailableFrames(q) = parseAvailableFrames(Step(q))
      BY <2>1, ParseStep
    <3>2. Ctx(q, y, F, d, b) \in Parser /\ CanStep(Ctx(q, y, F, d, b))
          /\ Step(Ctx(q, y, F, d, b)) = Ctx(Step(q), y, F, d, b)
      BY <2>1, CtxType, StepInCtx
    <3>3. parseAvailableFrames(Ctx(q, y, F, d, b)) = parseAvailableFrames(Ctx(Step(q), y, F, d, b))
      BY <3>2, ParseStep
    <3> QED BY <1>1, <2>1, <3>1, <3>3
  <2>2. CASE ~CanStep(q)
    BY <2>2, ParseStep
  <2> QED BY <2>1, <2>2
<1> HIDE DEF G
<1>2. p \in G
  BY <1>1, EveryParser
<1> QED BY <1>2 DEF G

(* The results before a parse stay before those of the parse.              *)
LEMMA ParseShift ==
    ASSUME NEW p \in Parser, NEW F \in Seq(Seq(Byte)), NEW d \in Nat, NEW b \in Nat
    PROVE  parseAvailableFrames(Ctx(p, <<>>, F, d, b)) = Ctx(parseAvailableFrames(p), <<>>, F, d, b)
<1> DEFINE e == <<>>
           G == {q \in Parser : parseAvailableFrames(Ctx(q, e, F, d, b)) = Ctx(parseAvailableFrames(q), e, F, d, b)}
<1>0. e \in Seq(Byte) /\ \A x \in Seq(Byte) : x \o e = x
  BY EmptySeq, ConcatEmptySeq
<1> HIDE DEF e
<1>1. ASSUME NEW q \in Parser, CanStep(q) => Step(q) \in G PROVE q \in G
  <2> DEFINE r == Ctx(q, e, F, d, b)
  <2>1. r \in Parser
    BY <1>0, CtxType
  <2>2. CASE CanStep(q)
    <3>1. CanStep(r) /\ Step(r) = Ctx(Step(q), e, F, d, b)
      BY <1>0, <2>2, StepInCtx
    <3>2. parseAvailableFrames(q) = parseAvailableFrames(Step(q))
      BY <2>2, ParseStep
    <3> HIDE DEF r
    <3>3. parseAvailableFrames(r) = parseAvailableFrames(Ctx(Step(q), e, F, d, b))
      BY <2>1, <3>1, ParseStep
    <3> QED BY <1>1, <2>2, <3>2, <3>3 DEF r
  <2>3. CASE ~CanStep(q)
    <3>1. r.rx = q.rx
      BY <1>0, ParserFields DEF Ctx
    <3>2. ~CanStep(r)
      BY <2>1, <2>3, <3>1, StepIs
    <3> HIDE DEF r
    <3>3. parseAvailableFrames(r) = r /\ parseAvailableFrames(q) = q
      BY <2>1, <2>3, <3>2, ParseStep
    <3> QED BY <3>3 DEF r
  <2> QED BY <2>2, <2>3
<1> HIDE DEF G
<1>2. p \in G
  BY <1>1, EveryParser
<1> QED BY <1>2 DEF G, e

LEMMA FeedIs ==
    ASSUME NEW p \in Parser, NEW y \in Seq(Byte)
    PROVE  /\ Ctx(p, y, <<>>, 0, 0) = [rx |-> p.rx \o y, frames |-> p.frames, drops |-> p.drops, bad |-> p.bad]
           /\ Ctx(p, y, <<>>, 0, 0) \in Parser
           /\ Feed(p, y) = parseAvailableFrames(Ctx(p, y, <<>>, 0, 0))
           /\ Feed(p, y) \in Parser
<1> DEFINE e == <<>>
           E == Seq(Byte)
           z == p.rx \o y
<1>1. p.frames \in Seq(E) /\ p.drops \in Nat /\ p.bad \in Nat
  BY ParserFields
<1>2. p = [rx |-> p.rx, frames |-> p.frames, drops |-> p.drops, bad |-> p.bad]
  BY ParserFields
<1>3. e \in Seq(E)
  BY EmptySeq
<1>4. Feed(p, y) = parseAvailableFrames([p EXCEPT !.rx = z])
  BY DEF Feed
<1> HIDE DEF E, z, e
<1>5. e \o p.frames = p.frames /\ 0 + p.drops = p.drops /\ 0 + p.bad = p.bad
  BY <1>1, ConcatEmptySeq DEF e
<1>6. Ctx(p, y, e, 0, 0) = [rx |-> z, frames |-> p.frames, drops |-> p.drops, bad |-> p.bad]
  BY <1>5 DEF Ctx, z
<1>7. [p EXCEPT !.rx = z] = [rx |-> z, frames |-> p.frames, drops |-> p.drops, bad |-> p.bad]
  BY <1>2
<1>8. Ctx(p, y, e, 0, 0) \in Parser
  BY <1>3, CtxType DEF E
<1>9. parseAvailableFrames(Ctx(p, y, e, 0, 0)) \in Parser
  BY <1>8, ParseStep
<1> QED BY <1>4, <1>6, <1>7, <1>8, <1>9 DEF e, z

LEMMA BatchIs ==
    ASSUME NEW x \in Seq(Byte)
    PROVE  Fresh(x) \in Parser /\ Batch(x) = parseAvailableFrames(Fresh(x)) /\ Batch(x) \in Parser
<1> DEFINE E == Seq(Byte)
           e == <<>>
<1>1. e \in Seq(E) /\ e \in Seq(Byte)
  BY EmptySeq
<1>2. Fresh(x) = [rx |-> x, frames |-> e, drops |-> 0, bad |-> 0]
  BY DEF Fresh
<1> HIDE DEF e
<1>3. Fresh(x) \in Parser
  BY <1>1, <1>2 DEF Parser, E
<1>4. Fresh(e) \in Parser /\ Fresh(e).rx = e /\ Fresh(e).frames = e /\ Fresh(e).drops = 0 /\ Fresh(e).bad = 0
  <2>1. Fresh(e) = [rx |-> e, frames |-> e, drops |-> 0, bad |-> 0]
    BY DEF Fresh, e
  <2> QED BY <1>1, <2>1 DEF Parser, E
<1>5. e \o x = x
  BY ConcatEmptySeq DEF e
<1>6. Ctx(Fresh(e), x, e, 0, 0) = Fresh(x)
  <2> DEFINE q == Fresh(e)
  <2>1. q \in Parser /\ q.rx = e /\ q.frames = e /\ q.drops = 0 /\ q.bad = 0
    BY <1>4
  <2> HIDE DEF q
  <2>2. Ctx(q, x, e, 0, 0) = [rx |-> q.rx \o x, frames |-> q.frames, drops |-> q.drops, bad |-> q.bad]
    BY <2>1, FeedIs, Zenon DEF e
  <2>3. Ctx(q, x, e, 0, 0) = Fresh(x)
    BY <1>2, <1>5, <2>1, <2>2
  <2> QED BY <2>3 DEF q
<1>7. Feed(Fresh(e), x) = parseAvailableFrames(Fresh(x))
  BY <1>4, <1>6, FeedIs DEF e
<1>8. parseAvailableFrames(Fresh(x)) \in Parser
  BY <1>3, ParseStep
<1> QED BY <1>3, <1>7, <1>8 DEF Batch, e

(* More bytes for a sequence parsed so far, whatever came before it.       *)
LEMMA FeedBatch ==
    ASSUME NEW x \in Seq(Byte), NEW y \in Seq(Byte), NEW F \in Seq(Seq(Byte)), NEW d \in Nat, NEW b \in Nat
    PROVE  Feed(Ctx(Batch(x), <<>>, F, d, b), y) = Ctx(Batch(x \o y), <<>>, F, d, b)
<1> DEFINE e == <<>>
           E == Seq(Byte)
           p == Batch(x)
           q == Ctx(p, y, e, 0, 0)
           r == Ctx(p, e, F, d, b)
<1>1. e \in Seq(Byte) /\ e \in Seq(E) /\ F \in Seq(E)
  BY EmptySeq
<1>2. p \in Parser /\ Fresh(x) \in Parser /\ p = parseAvailableFrames(Fresh(x))
  BY BatchIs
<1>3. x \o y \in Seq(Byte)
  BY ConcatProperties
<1>4. Batch(x \o y) = parseAvailableFrames(q)
  <2>1. Ctx(Fresh(x), y, e, 0, 0) = Fresh(x \o y)
    <3>1. Fresh(x).rx = x /\ Fresh(x).frames = e /\ Fresh(x).drops = 0 /\ Fresh(x).bad = 0
      BY DEF Fresh
    <3> HIDE DEF e
    <3>2. Ctx(Fresh(x), y, e, 0, 0) = [rx |-> x \o y, frames |-> e, drops |-> 0, bad |-> 0]
      BY <1>2, <3>1, FeedIs DEF e
    <3> QED BY <3>2 DEF Fresh, e
  <2> HIDE DEF e, p
  <2>2. parseAvailableFrames(Ctx(Fresh(x), y, e, 0, 0)) = parseAvailableFrames(Ctx(p, y, e, 0, 0))
    BY <1>1, <1>2, ParseInCtx DEF E
  <2> QED BY <1>3, <2>1, <2>2, BatchIs
<1> HIDE DEF e, p
<1>5. p.rx \in Seq(Byte) /\ p.frames \in Seq(E) /\ p.drops \in Nat /\ p.bad \in Nat
  BY <1>2, ParserFields
<1>6. q \in Parser /\ q.rx = p.rx \o y /\ q.frames = p.frames /\ q.drops = p.drops /\ q.bad = p.bad
  <2>1. q = [rx |-> p.rx \o y, frames |-> p.frames, drops |-> p.drops, bad |-> p.bad] /\ q \in Parser
    BY <1>2, FeedIs, Zenon DEF e
  <2> HIDE DEF q
  <2> QED BY <2>1
<1>7. p.rx \o e = p.rx /\ (p.rx \o y) \o e = p.rx \o y
  <2>1. p.rx \o y \in Seq(Byte)
    BY <1>5, ConcatProperties
  <2> QED BY <1>5, <2>1, ConcatEmptySeq DEF e
<1>8. r \in Parser /\ r.rx = p.rx /\ r.frames = F \o p.frames /\ r.drops = d + p.drops /\ r.bad = b + p.bad
  <2>1. r \in Parser
    BY <1>1, <1>2, CtxType
  <2> QED BY <1>7, <2>1 DEF Ctx
<1> HIDE DEF q, r
<1>9. Ctx(r, y, e, 0, 0) = Ctx(q, e, F, d, b)
  <2>1. Ctx(r, y, e, 0, 0) = [rx |-> r.rx \o y, frames |-> r.frames, drops |-> r.drops, bad |-> r.bad]
    BY <1>8, FeedIs DEF e
  <2>2. Ctx(q, e, F, d, b) = [rx |-> q.rx \o e, frames |-> F \o q.frames, drops |-> d + q.drops, bad |-> b + q.bad]
    BY DEF Ctx
  <2> QED BY <1>6, <1>7, <1>8, <2>1, <2>2
<1>10. Feed(r, y) = parseAvailableFrames(Ctx(q, e, F, d, b))
  BY <1>8, <1>9, FeedIs DEF e
<1>11. parseAvailableFrames(Ctx(q, e, F, d, b)) = Ctx(parseAvailableFrames(q), e, F, d, b)
  BY <1>6, ParseShift DEF e
<1> QED BY <1>4, <1>10, <1>11 DEF r, p, e

-----------------------------------------------------------------------------
(* Sequences put together from the parts of a sequence.                    *)

LEMMA FlattenIs ==
    ASSUME NEW S, NEW s \in Seq(Seq(S)), s # <<>>
    PROVE  \E h \in [1 .. Len(s) -> Seq(S)] :
              /\ FlattenSeq(s) = h[Len(s)] /\ h[1] = s[1]
              /\ \A i \in 2 .. Len(s) : h[i] = h[i - 1] \o s[i]
<1> DEFINE n == Len(s)
           A == Seq(S)
           Folds(h) == h = [i \in 1 .. Len(s) |-> IF i = 1 THEN s[i] ELSE h[i - 1] \o s[i]]
           f == CHOOSE h : Folds(h)
           g == [z \in (1 .. n) \X A |-> z[2] \o s[z[1]]]
<1>1. n \in Nat /\ n # 0 /\ \A i \in 1 .. n : s[i] \in A
  <2>1. s \in Seq(A)
    OBVIOUS
  <2> HIDE DEF A
  <2>2. n \in Nat /\ \A i \in 1 .. n : s[i] \in A
    BY <2>1, LenProperties, ElementOfSeq
  <2> QED BY <2>1, <2>2, EmptySeq
<1>2. FlattenSeq(s) = f[n]
  BY <1>1, Zenon DEF FlattenSeq
<1>3. g \in [(1 .. n) \X A -> A] /\ <<>> \in A
  <2>1. \A x \in A, y \in A : x \o y \in A
    BY ConcatProperties
  <2>2. <<>> \in A
    BY EmptySeq
  <2> HIDE DEF A, n
  <2> QED BY <1>1, <2>1, <2>2
<1>4. Folds(f) /\ f \in [1 .. n -> A]
  <2> DEFINE e == <<>>
  <2> HIDE DEF g, A, n, e
  <2>1. PICK it \in [SUBSET (1 .. n) -> A] : IsLeftFold(it, n, e, g)
    BY <1>1, <1>3, LeftFoldExists DEF e
  <2>2. it[{}] = e
    BY <2>1 DEF IsLeftFold
  <2>3. ASSUME NEW k \in 1 .. n PROVE it[1 .. k] = it[1 .. k - 1] \o s[k] /\ it[1 .. k] \in A
    <3>1. 1 .. k # {} /\ (1 .. k) \in SUBSET (1 .. n) /\ Top(1 .. k) = k /\ (1 .. k) \ {k} = 1 .. k - 1
      BY <1>1, TopInterval
    <3>2. it[1 .. k] = g[<<k, it[1 .. k - 1]>>] /\ it[1 .. k] \in A
      BY <2>1, <3>1 DEF IsLeftFold
    <3>3. it[1 .. k - 1] \in A
      BY <2>1, <3>1
    <3> QED BY <3>2, <3>3 DEF g
  <2> DEFINE h == [i \in 1 .. n |-> it[1 .. i]]
  <2>4. ASSUME NEW i \in 1 .. n PROVE h[i] = IF i = 1 THEN s[i] ELSE h[i - 1] \o s[i]
    <3>1. CASE i = 1
      <4>1. 1 .. i - 1 = {}
        BY <3>1
      <4>2. it[1 .. i] = e \o s[i]
        BY <2>2, <2>3, <4>1
      <4>3. e \o s[i] = s[i]
        BY <1>1, ConcatEmptySeq DEF e, A
      <4> QED BY <3>1, <4>2, <4>3
    <3>2. CASE i # 1
      <4>1. i - 1 \in 1 .. n
        BY <1>1, <3>2
      <4> QED BY <2>3, <3>2, <4>1
    <3> QED BY <3>1, <3>2
  <2>5. \A i \in 1 .. n : h[i] \in A
    BY <2>3
  <2>6. h = [i \in 1 .. n |-> h[i]]
    OBVIOUS
  <2> HIDE DEF h
  <2>7. h = [i \in 1 .. n |-> IF i = 1 THEN s[i] ELSE h[i - 1] \o s[i]]
    BY <2>4, <2>6, Zenon
  <2>8. Folds(h)
    BY <2>7 DEF n
  <2>9. Folds(f)
    <3> HIDE DEF Folds
    <3> QED BY <2>8
  <2> HIDE DEF f
  <2>10. f = [i \in 1 .. n |-> IF i = 1 THEN s[i] ELSE f[i - 1] \o s[i]]
    BY <2>9 DEF n
  <2> DEFINE P == {k \in 0 .. n : k = 0 \/ f[k] \in A}
  <2>11. \A k \in 1 .. n : k - 1 \in P => k \in P
    <3> SUFFICES ASSUME NEW k \in 1 .. n, k - 1 \in P PROVE f[k] \in A
      OBVIOUS
    <3>1. f[k] = IF k = 1 THEN s[k] ELSE f[k - 1] \o s[k]
      BY <2>10
    <3>2. CASE k = 1
      BY <1>1, <3>1, <3>2
    <3>3. CASE k # 1
      <4>1. f[k - 1] \in A /\ s[k] \in A
        BY <1>1, <3>3
      <4> QED BY <3>1, <3>3, <4>1, ConcatProperties DEF A
    <3> QED BY <3>2, <3>3
  <2>12. 0 .. n \subseteq P
    <3>1. 0 \in P
      BY <1>1
    <3> HIDE DEF P
    <3> QED BY <1>1, <2>11, <3>1, UpTo
  <2>13. \A k \in 1 .. n : f[k] \in A
    BY <1>1, <2>12
  <2> QED BY <2>9, <2>10, <2>13
<1>5. f[1] = s[1] /\ \A i \in 2 .. n : f[i] = f[i - 1] \o s[i]
  <2> HIDE DEF f
  <2>1. \A i \in 1 .. n : f[i] = IF i = 1 THEN s[i] ELSE f[i - 1] \o s[i]
    BY <1>4
  <2> HIDE DEF n, Folds, A, g
  <2>2. 1 \in 1 .. n /\ \A i \in 2 .. n : i \in 1 .. n /\ i # 1
    BY <1>1
  <2>3. ASSUME NEW i \in 2 .. n PROVE f[i] = f[i - 1] \o s[i]
    BY <2>1, <2>2
  <2> QED BY <2>1, <2>2, <2>3
<1> HIDE DEF f, Folds
<1> QED BY <1>2, <1>4, <1>5

LEMMA FlattenAppend ==
    ASSUME NEW S, NEW s \in Seq(Seq(S)), NEW e \in Seq(S)
    PROVE  /\ FlattenSeq(<<>>) = <<>>
           /\ FlattenSeq(s) \in Seq(S)
           /\ FlattenSeq(Append(s, e)) = FlattenSeq(s) \o e
<1> DEFINE n == Len(s)
           A == Seq(S)
           t == Append(s, e)
<1>1. /\ s \in Seq(A) /\ n \in Nat /\ t \in Seq(A) /\ Len(t) = n + 1 /\ t # <<>>
      /\ t[n + 1] = e /\ \A i \in 1 .. n : t[i] = s[i]
  <2>1. s \in Seq(A)
    OBVIOUS
  <2> HIDE DEF A
  <2>2. n \in Nat
    BY <2>1, LenProperties
  <2> QED BY <2>1, <2>2, AppendProperties DEF A
<1>2. FlattenSeq(<<>>) = <<>>
  <2>1. Len(<<>>) = 0
    BY EmptySeq
  <2> QED BY <2>1, Zenon DEF FlattenSeq
<1> HIDE DEF t, n
<1>3. PICK k \in [1 .. n + 1 -> A] : /\ FlattenSeq(t) = k[n + 1] /\ k[1] = t[1]
                                     /\ \A i \in 2 .. n + 1 : k[i] = k[i - 1] \o t[i]
  <2>1. PICK k \in [1 .. Len(t) -> A] : /\ FlattenSeq(t) = k[Len(t)] /\ k[1] = t[1]
                                        /\ \A i \in 2 .. Len(t) : k[i] = k[i - 1] \o t[i]
    <3>1. t \in Seq(Seq(S)) /\ t # <<>>
      BY <1>1
    <3> QED BY <3>1, FlattenIs, Zenon
  <2> HIDE DEF A
  <2> QED BY <1>1, <2>1
<1>4. CASE n = 0
  <2>1. s = <<>>
    BY <1>1, <1>4, EmptySeq DEF n
  <2>2. FlattenSeq(s) = <<>> /\ <<>> \in A
    BY <1>2, <2>1, EmptySeq
  <2>3. FlattenSeq(t) = e
    BY <1>1, <1>3, <1>4
  <2>4. <<>> \o e = e
    BY ConcatEmptySeq
  <2> QED BY <1>2, <2>2, <2>3, <2>4 DEF t
<1>5. CASE n # 0
  <2>1. s # <<>>
    BY <1>5, EmptySeq DEF n
  <2>2. PICK h \in [1 .. n -> A] : /\ FlattenSeq(s) = h[n] /\ h[1] = s[1]
                                   /\ \A i \in 2 .. n : h[i] = h[i - 1] \o s[i]
    <3>1. s \in Seq(Seq(S)) /\ s # <<>>
      BY <2>1
    <3> QED BY <3>1, FlattenIs, Zenon DEF n
  <2> DEFINE P == {i \in 0 .. n : i = 0 \/ k[i] = h[i]}
  <2>3. \A i \in 1 .. n : i - 1 \in P => i \in P
    <3> SUFFICES ASSUME NEW i \in 1 .. n, i - 1 \in P PROVE k[i] = h[i]
      OBVIOUS
    <3>1. CASE i = 1
      BY <1>1, <1>3, <1>5, <2>2, <3>1
    <3>2. CASE i # 1
      <4>1. i \in 2 .. n /\ i \in 2 .. n + 1
        BY <1>1, <3>2
      <4>2. k[i - 1] = h[i - 1]
        <5>1. i - 1 # 0
          BY <1>1, <3>2
        <5> QED BY <5>1
      <4>3. t[i] = s[i]
        BY <1>1
      <4> QED BY <1>3, <2>2, <4>1, <4>2, <4>3
    <3> QED BY <3>1, <3>2
  <2>4. 0 .. n \subseteq P
    <3>1. 0 \in P
      BY <1>1
    <3> HIDE DEF P
    <3> QED BY <1>1, <2>3, <3>1, UpTo
  <2>5. k[n] = h[n]
    BY <1>1, <1>5, <2>4
  <2>6. k[n + 1] = k[n] \o e
    <3>1. n + 1 \in 2 .. n + 1 /\ (n + 1) - 1 = n
      BY <1>1, <1>5
    <3> QED BY <1>1, <1>3, <3>1
  <2>7. h[n] \in A
    BY <1>1, <1>5, <2>2
  <2> QED BY <1>2, <1>3, <2>2, <2>5, <2>6, <2>7 DEF t
<1> QED BY <1>4, <1>5

(* Numbers added up by a fold.                                             *)
Adds(it, c, n) == it = [T \in SUBSET (1 .. n) |-> IF T = {} THEN 0 ELSE it[T \ {Top(T)}] + c[Top(T)]]

LEMMA SumKnown ==
    ASSUME NEW n \in Nat, NEW c, \A i \in 1 .. n : c[i] \in Nat
    PROVE  LET f == CHOOSE it : Adds(it, c, n)
           IN /\ Adds(f, c, n) /\ f[{}] = 0
              /\ \A k \in 1 .. n : f[1 .. k] = f[1 .. k - 1] + c[k]
              /\ \A k \in 0 .. n : f[1 .. k] \in Nat
<1> DEFINE g == [z \in (1 .. n) \X Nat |-> z[2] + c[z[1]]]
           f == CHOOSE it : Adds(it, c, n)
<1>1. g \in [(1 .. n) \X Nat -> Nat]
  OBVIOUS
<1>2. Adds(f, c, n)
  <2> HIDE DEF g
  <2>1. PICK it \in [SUBSET (1 .. n) -> Nat] : IsLeftFold(it, n, 0, g)
    BY <1>1, LeftFoldExists
  <2>2. ASSUME NEW T \in SUBSET (1 .. n), T # {}
        PROVE  g[<<Top(T), it[T \ {Top(T)}]>>] = it[T \ {Top(T)}] + c[Top(T)]
    BY <2>1, <2>2, TopOf DEF g
  <2>3. Adds(it, c, n)
    BY <2>1, <2>2 DEF IsLeftFold, Adds
  <2> QED BY <2>3
<1> HIDE DEF f
<1>3. f[{}] = 0
  BY <1>2 DEF Adds
<1>4. ASSUME NEW k \in 1 .. n PROVE f[1 .. k] = f[1 .. k - 1] + c[k]
  <2>1. 1 .. k # {} /\ (1 .. k) \in SUBSET (1 .. n) /\ Top(1 .. k) = k /\ (1 .. k) \ {k} = 1 .. k - 1
    BY TopInterval
  <2> QED BY <1>2, <2>1 DEF Adds
<1> DEFINE P == {k \in 0 .. n : f[1 .. k] \in Nat}
<1>5. 0 \in P
  <2>1. 1 .. 0 = {}
    OBVIOUS
  <2> QED BY <1>3, <2>1
<1>6. \A k \in 1 .. n : k - 1 \in P => k \in P
  BY <1>4
<1>7. 0 .. n \subseteq P
  <2> HIDE DEF P
  <2> QED BY <1>5, <1>6, UpTo
<1> QED BY <1>2, <1>3, <1>4, <1>7 DEF f

Total(c, n) == (CHOOSE it : Adds(it, c, n))[1 .. n]

LEMMA SumNext ==
    ASSUME NEW n \in Nat, NEW c, \A i \in 1 .. n : c[i] \in Nat,
           NEW e, e[n + 1] \in Nat, \A i \in 1 .. n : e[i] = c[i]
    PROVE  Total(c, n) \in Nat /\ Total(e, n + 1) = Total(c, n) + e[n + 1]
<1> DEFINE f == CHOOSE it : Adds(it, c, n)
           h == CHOOSE it : Adds(it, e, n + 1)
<1>1. /\ f[{}] = 0 /\ \A k \in 1 .. n : f[1 .. k] = f[1 .. k - 1] + c[k]
      /\ \A k \in 0 .. n : f[1 .. k] \in Nat
  BY SumKnown
<1>2. h[{}] = 0 /\ \A k \in 1 .. n + 1 : h[1 .. k] = h[1 .. k - 1] + e[k]
  <2>1. n + 1 \in Nat /\ \A i \in 1 .. n + 1 : e[i] \in Nat
    <3> SUFFICES ASSUME NEW i \in 1 .. n + 1 PROVE e[i] \in Nat
      OBVIOUS
    <3>1. i \in 1 .. n \/ i = n + 1
      OBVIOUS
    <3> QED BY <3>1
  <2> QED BY <2>1, SumKnown
<1> HIDE DEF f, h
<1> DEFINE P == {k \in 0 .. n : h[1 .. k] = f[1 .. k]}
<1>3. 0 \in P
  <2>1. 1 .. 0 = {}
    OBVIOUS
  <2> QED BY <1>1, <1>2, <2>1
<1>4. \A k \in 1 .. n : k - 1 \in P => k \in P
  <2> SUFFICES ASSUME NEW k \in 1 .. n, k - 1 \in P PROVE k \in P
    OBVIOUS
  <2>0. h[1 .. k - 1] = f[1 .. k - 1]
    OBVIOUS
  <2>1. h[1 .. k] = h[1 .. k - 1] + e[k] /\ f[1 .. k] = f[1 .. k - 1] + c[k] /\ e[k] = c[k]
    BY <1>1, <1>2
  <2> QED BY <2>0, <2>1
<1>5. 0 .. n \subseteq P
  <2> HIDE DEF P
  <2> QED BY <1>3, <1>4, UpTo
<1>6. h[1 .. n] = f[1 .. n]
  BY <1>5
<1>7. h[1 .. n + 1] = h[1 .. n] + e[n + 1]
  <2>1. ASSUME NEW m \in Nat PROVE m + 1 \in 1 .. m + 1 /\ (m + 1) - 1 = m
    BY <2>1
  <2> QED BY <1>2, <2>1
<1> QED BY <1>1, <1>6, <1>7 DEF f, h, Total

(* The bytes dropped, and thrown away, over a sequence of parses.          *)
Drops(parses) == FoldLeft(LAMBDA n, p : n + p.drops, 0, parses)
Bads(parses)  == FoldLeft(LAMBDA n, p : n + p.bad, 0, parses)

LEMMA CountsAre ==
    ASSUME NEW w \in Seq(Parser)
    PROVE  LET d == [i \in 1 .. Len(w) |-> w[i].drops]
               b == [i \in 1 .. Len(w) |-> w[i].bad]
           IN /\ Drops(w) = Total(d, Len(w))
              /\ Bads(w) = Total(b, Len(w))
<1> DEFINE n == Len(w)
           d == [i \in 1 .. n |-> w[i].drops]
           b == [i \in 1 .. n |-> w[i].bad]
           FoldsD(it) == it = [T \in SUBSET (DOMAIN w) |-> IF T = {} THEN 0 ELSE it[T \ {Top(T)}] + w[Top(T)].drops]
           FoldsB(it) == it = [T \in SUBSET (DOMAIN w) |-> IF T = {} THEN 0 ELSE it[T \ {Top(T)}] + w[Top(T)].bad]
<1>1. n \in Nat /\ DOMAIN w = 1 .. n
  BY LenProperties
<1>2. Drops(w) = (CHOOSE it : FoldsD(it))[DOMAIN w]
  BY Zenon DEF Drops, FoldLeft, MapThenFoldSet, Max, Top
<1>3. Bads(w) = (CHOOSE it : FoldsB(it))[DOMAIN w]
  BY Zenon DEF Bads, FoldLeft, MapThenFoldSet, Max, Top
<1> HIDE DEF n
<1>4. ASSUME NEW it PROVE (FoldsD(it) <=> Adds(it, d, n)) /\ (FoldsB(it) <=> Adds(it, b, n))
  <2>1. \A T \in SUBSET (1 .. n) : T # {} => Top(T) \in 1 .. n
    BY <1>1, TopOf
  <2>2. \A T \in SUBSET (1 .. n) : T # {} => d[Top(T)] = w[Top(T)].drops /\ b[Top(T)] = w[Top(T)].bad
    BY <2>1
  <2> HIDE DEF d, b
  <2>3. [T \in SUBSET (1 .. n) |-> IF T = {} THEN 0 ELSE it[T \ {Top(T)}] + w[Top(T)].drops]
        = [T \in SUBSET (1 .. n) |-> IF T = {} THEN 0 ELSE it[T \ {Top(T)}] + d[Top(T)]]
    BY <2>2
  <2>4. [T \in SUBSET (1 .. n) |-> IF T = {} THEN 0 ELSE it[T \ {Top(T)}] + w[Top(T)].bad]
        = [T \in SUBSET (1 .. n) |-> IF T = {} THEN 0 ELSE it[T \ {Top(T)}] + b[Top(T)]]
    BY <2>2
  <2> QED BY <1>1, <2>3, <2>4 DEF Adds
<1> HIDE DEF d, b, FoldsD, FoldsB
<1>5. (CHOOSE it : FoldsD(it)) = (CHOOSE it : Adds(it, d, n))
  BY <1>4
<1>6. (CHOOSE it : FoldsB(it)) = (CHOOSE it : Adds(it, b, n))
  BY <1>4
<1> QED BY <1>1, <1>2, <1>3, <1>5, <1>6 DEF n, d, b, Total

LEMMA CountsNext ==
    ASSUME NEW w \in Seq(Parser), NEW p \in Parser
    PROVE  /\ Drops(w) \in Nat /\ Drops(Append(w, p)) = Drops(w) + p.drops
           /\ Bads(w) \in Nat /\ Bads(Append(w, p)) = Bads(w) + p.bad
<1> DEFINE n == Len(w)
           z == Append(w, p)
           dw == [i \in 1 .. n |-> w[i].drops]
           bw == [i \in 1 .. n |-> w[i].bad]
           dz == [i \in 1 .. n + 1 |-> z[i].drops]
           bz == [i \in 1 .. n + 1 |-> z[i].bad]
<1>1. /\ n \in Nat /\ z \in Seq(Parser) /\ Len(z) = n + 1 /\ z[n + 1] = p
      /\ \A i \in 1 .. n : z[i] = w[i] /\ w[i] \in Parser
  BY LenProperties, ElementOfSeq, AppendProperties
<1>2. /\ Drops(w) = Total(dw, n)
      /\ Bads(w) = Total(bw, n)
  BY CountsAre
<1> HIDE DEF z
<1>3. /\ Drops(z) = Total(dz, n + 1)
      /\ Bads(z) = Total(bz, n + 1)
  <2>1. LET d == [i \in 1 .. Len(z) |-> z[i].drops]
            b == [i \in 1 .. Len(z) |-> z[i].bad]
        IN /\ Drops(z) = Total(d, Len(z))
           /\ Bads(z) = Total(b, Len(z))
    BY <1>1, CountsAre
  <2>2. Len(z) = n + 1
    BY <1>1
  <2> HIDE DEF n
  <2> QED BY <2>1, <2>2
<1> HIDE DEF n
<1>4. /\ \A i \in 1 .. n : dw[i] \in Nat /\ dz[i] = dw[i] /\ bw[i] \in Nat /\ bz[i] = bw[i]
      /\ dz[n + 1] = p.drops /\ bz[n + 1] = p.bad /\ p.drops \in Nat /\ p.bad \in Nat
  <2>1. \A i \in 1 .. n : i \in 1 .. n + 1 /\ n + 1 \in 1 .. n + 1
    BY <1>1
  <2>2. p.drops \in Nat /\ p.bad \in Nat /\ \A i \in 1 .. n : w[i].drops \in Nat /\ w[i].bad \in Nat
    BY <1>1, ParserFields
  <2> QED BY <1>1, <2>1, <2>2
<1> HIDE DEF dw, bw, dz, bz
<1>5. Drops(w) \in Nat /\ Drops(z) = Drops(w) + p.drops
  <2>1. (\A i \in 1 .. n : dw[i] \in Nat) /\ (\A i \in 1 .. n : dz[i] = dw[i]) /\ dz[n + 1] \in Nat
    BY <1>4
  <2>2. /\ Total(dw, n) \in Nat
        /\ Total(dz, n + 1) = Total(dw, n) + dz[n + 1]
    BY <1>1, <2>1, SumNext
  <2> QED BY <1>2, <1>3, <1>4, <2>2
<1>6. Bads(w) \in Nat /\ Bads(z) = Bads(w) + p.bad
  <2>1. (\A i \in 1 .. n : bw[i] \in Nat) /\ (\A i \in 1 .. n : bz[i] = bw[i]) /\ bz[n + 1] \in Nat
    BY <1>4
  <2>2. /\ Total(bw, n) \in Nat
        /\ Total(bz, n + 1) = Total(bw, n) + bz[n + 1]
    BY <1>1, <2>1, SumNext
  <2> QED BY <1>2, <1>3, <1>4, <2>2
<1> QED BY <1>5, <1>6 DEF z

-----------------------------------------------------------------------------
(* The books of the parser: what the byte sequences fed so far come to.    *)

Parses(fd) == [e \in DOMAIN fd |-> Batch(fd[e])]
Given(fd)  == FlattenSeq([e \in DOMAIN fd |-> Parses(fd)[e].frames])

Ledger(fd) == [rx |-> Parses(fd)[Len(fd)].rx, frames |-> Given(fd),
               drops |-> Drops(Parses(fd)), bad |-> Bads(Parses(fd))]

LEMMA ParsesAppend ==
    ASSUME NEW g \in Seq(Seq(Byte)), NEW x \in Seq(Byte)
    PROVE  /\ Append(g, x) \in Seq(Seq(Byte))
           /\ Parses(g) \in Seq(Parser) /\ Parses(Append(g, x)) = Append(Parses(g), Batch(x))
           /\ Given(g) \in Seq(Seq(Byte)) /\ Given(Append(g, x)) = Given(g) \o Batch(x).frames
<1> DEFINE E == Seq(Byte)
           n == Len(g)
           z == Append(g, x)
           p == Batch(x)
<1>1. g \in Seq(E) /\ x \in E
  OBVIOUS
<1>2. p \in Parser /\ p.frames \in Seq(E)
  BY BatchIs, ParserFields
<1>3. \A y \in E : Batch(y) \in Parser /\ Batch(y).frames \in Seq(E)
  BY BatchIs, ParserFields
<1> HIDE DEF E, p
<1>4. /\ n \in Nat /\ DOMAIN g = 1 .. n /\ \A i \in 1 .. n : g[i] \in E
      /\ z \in Seq(E) /\ DOMAIN z = 1 .. n + 1 /\ Len(z) = n + 1
      /\ z[n + 1] = x /\ \A i \in 1 .. n : z[i] = g[i]
  <2>1. n \in Nat /\ DOMAIN g = 1 .. n /\ \A i \in 1 .. n : g[i] \in E
    BY <1>1, LenProperties, ElementOfSeq
  <2>2. /\ z \in Seq(E) /\ Len(z) = n + 1
        /\ z[n + 1] = x /\ \A i \in 1 .. n : z[i] = g[i]
    BY <1>1, AppendProperties
  <2> HIDE DEF z, n
  <2>3. DOMAIN z = 1 .. n + 1
    BY <2>2, LenProperties
  <2> QED BY <2>1, <2>2, <2>3
<1> HIDE DEF n, z
<1> DEFINE w == Parses(g)
           y == Parses(z)
           a == Append(w, p)
<1>5. /\ w \in Seq(Parser) /\ Len(w) = n /\ DOMAIN w = 1 .. n /\ \A i \in 1 .. n : w[i] = Batch(g[i])
      /\ y \in Seq(Parser) /\ Len(y) = n + 1 /\ DOMAIN y = 1 .. n + 1 /\ \A i \in 1 .. n + 1 : y[i] = Batch(z[i])
  <2>1. w = [i \in 1 .. n |-> Batch(g[i])] /\ \A i \in 1 .. n : Batch(g[i]) \in Parser
    BY <1>3, <1>4 DEF Parses
  <2>2. y = [i \in 1 .. n + 1 |-> Batch(z[i])] /\ \A i \in 1 .. n + 1 : Batch(z[i]) \in Parser
    <3>1. ASSUME NEW i \in 1 .. n + 1 PROVE z[i] \in E
      BY <1>4, ElementOfSeq
    <3> QED BY <1>3, <1>4, <3>1 DEF Parses
  <2> HIDE DEF w, y
  <2>3. w \in [1 .. n -> Parser] /\ y \in [1 .. n + 1 -> Parser]
    BY <2>1, <2>2
  <2>4. w \in Seq(Parser) /\ y \in Seq(Parser)
    <3> DEFINE m == n + 1
    <3>1. n \in Nat /\ m \in Nat
      BY <1>4
    <3>2. w \in [1 .. n -> Parser] /\ y \in [1 .. m -> Parser]
      BY <2>3
    <3> HIDE DEF m
    <3>3. w \in Seq(Parser)
      BY <3>1, <3>2, MadeSeq
    <3>4. y \in Seq(Parser)
      BY <3>1, <3>2, MadeSeq
    <3> QED BY <3>3, <3>4
  <2>5. Len(w) = n /\ Len(y) = n + 1
    BY <1>4, <2>3, <2>4, LenProperties
  <2> QED BY <2>1, <2>2, <2>3, <2>4, <2>5
<1> HIDE DEF w, y
<1>6. y = a
  <2>1. a \in Seq(Parser) /\ Len(a) = n + 1 /\ a[n + 1] = p /\ \A i \in 1 .. n : a[i] = w[i]
    BY <1>2, <1>5, AppendProperties
  <2> HIDE DEF a
  <2>2. ASSUME NEW i \in 1 .. n + 1 PROVE y[i] = a[i]
    <3>1. i \in 1 .. n \/ i = n + 1
      BY <1>4
    <3> QED BY <1>4, <1>5, <2>1, <3>1 DEF p
  <2> QED BY <1>5, <2>1, <2>2, SeqEqual
<1> DEFINE u == [e \in DOMAIN g |-> w[e].frames]
           v == [e \in DOMAIN z |-> y[e].frames]
           b == Append(u, p.frames)
<1>7. /\ u \in Seq(Seq(E)) /\ Len(u) = n /\ \A i \in 1 .. n : u[i] = w[i].frames
      /\ v \in Seq(Seq(E)) /\ Len(v) = n + 1 /\ \A i \in 1 .. n + 1 : v[i] = y[i].frames
  <2> DEFINE F == Seq(E)
  <2>1. \A i \in 1 .. n : w[i].frames \in F
    BY <1>3, <1>4, <1>5
  <2>2. \A i \in 1 .. n + 1 : y[i].frames \in F
    BY <1>5, ElementOfSeq, ParserFields DEF E
  <2> HIDE DEF F
  <2>3. u \in [1 .. n -> F] /\ v \in [1 .. n + 1 -> F]
    BY <1>4, <2>1, <2>2
  <2>4. \A i \in 1 .. n : u[i] = w[i].frames
    BY <1>4
  <2>5. \A i \in 1 .. n + 1 : v[i] = y[i].frames
    BY <1>4
  <2> HIDE DEF u, v
  <2>6. u \in Seq(F) /\ v \in Seq(F)
    BY <1>4, <2>3, MadeSeq
  <2>7. Len(u) = n /\ Len(v) = n + 1
    BY <1>4, <2>3, <2>6, LenProperties
  <2> QED BY <2>4, <2>5, <2>6, <2>7 DEF F
<1>8. v = b
  <2> DEFINE F == Seq(E)
  <2>0. u \in Seq(F) /\ v \in Seq(F) /\ p.frames \in F
    BY <1>2, <1>7
  <2> HIDE DEF F, u, v
  <2>1. b \in Seq(F) /\ Len(b) = n + 1 /\ b[n + 1] = p.frames /\ \A i \in 1 .. n : b[i] = u[i]
    BY <1>7, <2>0, AppendProperties
  <2> HIDE DEF b
  <2>2. ASSUME NEW i \in 1 .. n + 1 PROVE v[i] = b[i]
    <3>1. v[i] = y[i].frames
      BY <1>7
    <3>2. CASE i = n + 1
      BY <1>4, <1>5, <2>1, <3>1, <3>2 DEF p
    <3>3. CASE i \in 1 .. n
      BY <1>4, <1>5, <1>7, <2>1, <3>1, <3>3
    <3>4. i = n + 1 \/ i \in 1 .. n
      BY <1>4
    <3> QED BY <3>2, <3>3, <3>4
  <2> QED BY <1>7, <2>0, <2>1, <2>2, SeqEqual
<1>9. Given(g) = FlattenSeq(u) /\ Given(z) = FlattenSeq(v)
  BY DEF Given, w, y
<1> HIDE DEF u, v
<1>10. FlattenSeq(u) \in Seq(E) /\ FlattenSeq(b) = FlattenSeq(u) \o p.frames
  BY <1>2, <1>7, FlattenAppend
<1> QED BY <1>1, <1>4, <1>5, <1>6, <1>8, <1>9, <1>10 DEF E, z, w, y, a, p

(* The parses of all but the last sequence stand.                          *)
LEMMA LedgerIs ==
    ASSUME NEW g \in Seq(Seq(Byte)), NEW x \in Seq(Byte)
    PROVE  /\ Given(g) \in Seq(Seq(Byte)) /\ Drops(Parses(g)) \in Nat /\ Bads(Parses(g)) \in Nat
           /\ Ledger(Append(g, x)) = Ctx(Batch(x), <<>>, Given(g), Drops(Parses(g)), Bads(Parses(g)))
<1> DEFINE z == Append(g, x)
           p == Batch(x)
           w == Parses(g)
           E == Seq(Byte)
<1>1. /\ z \in Seq(E) /\ w \in Seq(Parser) /\ Parses(z) = Append(w, p)
      /\ Given(g) \in Seq(E) /\ Given(z) = Given(g) \o p.frames
  BY ParsesAppend
<1>2. p \in Parser /\ p.rx \in Seq(Byte)
  BY BatchIs, ParserFields
<1>3. Len(z) = Len(g) + 1 /\ Len(g) \in Nat /\ DOMAIN g = 1 .. Len(g)
  <2>1. g \in Seq(E) /\ x \in E
    OBVIOUS
  <2> HIDE DEF E
  <2> QED BY <2>1, AppendProperties, LenProperties
<1>4. Len(w) = Len(g)
  <2>1. DOMAIN w = 1 .. Len(g) /\ Len(w) \in Nat /\ DOMAIN w = 1 .. Len(w)
    BY <1>1, <1>3, LenProperties DEF Parses
  <2> HIDE DEF w
  <2> QED BY <1>3, <2>1
<1> HIDE DEF z, p, w, E
<1>5. Append(w, p)[Len(w) + 1] = p
  BY <1>1, <1>2, AppendProperties
<1>6. Drops(w) \in Nat /\ Drops(Append(w, p)) = Drops(w) + p.drops
      /\ Bads(w) \in Nat /\ Bads(Append(w, p)) = Bads(w) + p.bad
  BY <1>1, <1>2, CountsNext
<1>7. p.rx \o <<>> = p.rx
  BY <1>2, ConcatEmptySeq
<1>8. Ledger(z) = [rx |-> p.rx, frames |-> Given(g) \o p.frames,
                   drops |-> Drops(w) + p.drops, bad |-> Bads(w) + p.bad]
  BY <1>1, <1>3, <1>4, <1>5, <1>6 DEF Ledger
<1>9. Ctx(p, <<>>, Given(g), Drops(w), Bads(w)) = Ledger(z)
  BY <1>7, <1>8 DEF Ctx
<1> QED BY <1>1, <1>6, <1>9 DEF z, p, w, E

Fed == Seq(Seq(Byte)) \ {<<>>}

LEMMA FedParts ==
    ASSUME NEW fd \in Fed
    PROVE  \E g \in Seq(Seq(Byte)), x \in Seq(Byte) :
              /\ fd = Append(g, x)
              /\ \A y \in Seq(Byte) : Longer(fd, y) = Append(g, x \o y) /\ x \o y \in Seq(Byte)
<1> DEFINE E == Seq(Byte)
<1>1. fd \in Seq(E) /\ fd # <<>>
  BY DEF Fed
<1>2. \A x \in E, y \in E : x \o y \in E
  BY ConcatProperties
<1> HIDE DEF E
<1>3. PICK g \in Seq(E), x \in E : fd = Append(g, x)
  BY <1>1, SequenceEmptyOrAppend
<1>4. ASSUME NEW y \in E PROVE Longer(fd, y) = Append(g, x \o y)
  <2> DEFINE n == Len(g)
             z == x \o y
             a == Append(g, z)
             l == Longer(fd, y)
  <2>0. z \in E
    BY <1>2
  <2> HIDE DEF z
  <2>1. /\ n \in Nat /\ Len(fd) = n + 1 /\ fd[n + 1] = x /\ \A i \in 1 .. n : fd[i] = g[i]
        /\ a \in Seq(E) /\ Len(a) = n + 1 /\ a[n + 1] = z /\ \A i \in 1 .. n : a[i] = g[i]
    BY <1>3, <2>0, AppendProperties, LenProperties
  <2>2. fd \in [1 .. n + 1 -> E]
    BY <1>1, <2>1, LenProperties
  <2>3. l = [fd EXCEPT ![n + 1] = z]
    BY <2>1 DEF Longer, z
  <2> HIDE DEF n, l, a
  <2>4. l \in [1 .. n + 1 -> E] /\ l[n + 1] = z /\ \A i \in 1 .. n : l[i] = fd[i]
    BY <2>0, <2>1, <2>2, <2>3
  <2>5. l \in Seq(E)
    BY <2>1, <2>4, MadeSeq
  <2>6. Len(l) = n + 1
    BY <2>1, <2>4, <2>5, LenProperties
  <2>7. ASSUME NEW i \in 1 .. n + 1 PROVE l[i] = a[i]
    <3>1. i = n + 1 \/ i \in 1 .. n
      BY <2>1
    <3> QED BY <2>1, <2>4, <3>1
  <2> QED BY <2>1, <2>5, <2>6, <2>7, SeqEqual DEF l, a, z
<1> QED BY <1>2, <1>3, <1>4 DEF E

LEMMA LedgerKeeps ==
    ASSUME NEW fd \in Fed
    PROVE  /\ Ledger(fd) \in Parser
           /\ \A y \in Seq(Byte) : Longer(fd, y) \in Fed /\ Feed(Ledger(fd), y) = Ledger(Longer(fd, y))
           /\ Append(fd, <<>>) \in Fed
           /\ Ledger(Append(fd, <<>>)) = [rx |-> <<>>, frames |-> Ledger(fd).frames,
                                          drops |-> Ledger(fd).drops, bad |-> Ledger(fd).bad]
<1> DEFINE E == Seq(Byte)
           e == <<>>
<1>1. PICK g \in Seq(Seq(Byte)), x \in Seq(Byte) :
              /\ fd = Append(g, x)
              /\ \A y \in Seq(Byte) : Longer(fd, y) = Append(g, x \o y) /\ x \o y \in Seq(Byte)
  BY FedParts
<1>2. /\ Given(g) \in Seq(E) /\ Drops(Parses(g)) \in Nat /\ Bads(Parses(g)) \in Nat
      /\ Ledger(fd) = Ctx(Batch(x), e, Given(g), Drops(Parses(g)), Bads(Parses(g)))
      /\ \A y \in E : Ledger(Append(g, x \o y)) = Ctx(Batch(x \o y), e, Given(g), Drops(Parses(g)), Bads(Parses(g)))
  BY <1>1, LedgerIs
<1>3. e \in E /\ Batch(x) \in Parser
  BY EmptySeq, BatchIs
<1>4. Ledger(fd) \in Parser
  BY <1>2, <1>3, CtxType
<1>5. ASSUME NEW y \in E PROVE Longer(fd, y) \in Fed /\ Feed(Ledger(fd), y) = Ledger(Longer(fd, y))
  <2>1. Longer(fd, y) = Append(g, x \o y) /\ x \o y \in E
    BY <1>1
  <2>2. Feed(Ledger(fd), y) = Ctx(Batch(x \o y), e, Given(g), Drops(Parses(g)), Bads(Parses(g)))
    BY <1>2, FeedBatch
  <2>3. Append(g, x \o y) \in Fed
    <3> DEFINE z == x \o y
    <3>1. g \in Seq(E) /\ z \in E
      BY <2>1
    <3> HIDE DEF E, z
    <3>2. Append(g, z) \in Seq(E) /\ Append(g, z) # <<>>
      BY <3>1, AppendProperties
    <3> QED BY <3>2 DEF Fed, z, E
  <2> QED BY <1>2, <2>1, <2>2, <2>3
<1>6. fd \in Seq(E)
  BY DEF Fed
<1>7. Append(fd, e) \in Fed
  <2> HIDE DEF E, e
  <2> QED BY <1>3, <1>6, AppendProperties DEF Fed, E, e
<1> DEFINE p == Ledger(fd)
<1>8. Ledger(Append(fd, e)) = [rx |-> e, frames |-> p.frames, drops |-> p.drops, bad |-> p.bad]
  <2>1. Ledger(Append(fd, e)) = Ctx(Batch(e), e, Given(fd), Drops(Parses(fd)), Bads(Parses(fd)))
    BY <1>3, <1>6, LedgerIs
  <2>2. Batch(e) = Fresh(e)
    <3>1. Fresh(e) \in Parser /\ Batch(e) = parseAvailableFrames(Fresh(e)) /\ Fresh(e).rx = e
      BY <1>3, BatchIs DEF Fresh
    <3>2. ~CanStep(Fresh(e))
      <4>1. Len(e) = 0
        BY EmptySeq
      <4> HIDE DEF e
      <4> QED BY <3>1, <4>1, StepShrinks
    <3> QED BY <3>1, <3>2, ParseStep
  <2>3. Fresh(e) = [rx |-> e, frames |-> e, drops |-> 0, bad |-> 0]
    BY DEF Fresh
  <2>4. p.frames = Given(fd) /\ p.drops = Drops(Parses(fd)) /\ p.bad = Bads(Parses(fd))
    BY DEF Ledger
  <2>5. p.frames \in Seq(E) /\ p.drops \in Nat /\ p.bad \in Nat
    BY <1>4, ParserFields
  <2> HIDE DEF p, E, e
  <2>6. p.frames \o e = p.frames /\ e \o e = e
    BY <1>3, <2>5, ConcatEmptySeq DEF e, E
  <2>7. p.drops + 0 = p.drops /\ p.bad + 0 = p.bad
    BY <2>5
  <2>8. Ctx(Fresh(e), e, Given(fd), Drops(Parses(fd)), Bads(Parses(fd)))
        = [rx |-> e \o e, frames |-> p.frames \o e, drops |-> p.drops + 0, bad |-> p.bad + 0]
    BY <2>3, <2>4 DEF Ctx
  <2> QED BY <2>1, <2>2, <2>6, <2>7, <2>8
<1> QED BY <1>4, <1>5, <1>7, <1>8 DEF p, e, E

-----------------------------------------------------------------------------
(* What the records of a message change.                                   *)

Record == [kind : {"HELLO", "SESSION"}, session : Nat \ {0}] \cup [kind : {"DATA"}, bytes : Seq(Byte)]
Half   == [first : BOOLEAN, record : Record]
Views  == [parser : Parser, sessionId : Nat, fed : Fed]

Resyncs(v, r) == r.kind = "SESSION" \/ (r.kind = "HELLO" /\ v.sessionId \notin {Unknown, r.session})

LEMMA RecordKinds ==
    ASSUME NEW r \in Record
    PROVE  /\ r.kind \in {"DATA", "HELLO", "SESSION"}
           /\ r.kind = "DATA" => r.bytes \in Seq(Byte)
           /\ r.kind # "DATA" => r.session \in Nat \ {0}
<1>1. CASE r \in [kind : {"HELLO", "SESSION"}, session : Nat \ {0}]
  BY <1>1
<1>2. CASE r \in [kind : {"DATA"}, bytes : Seq(Byte)]
  BY <1>2
<1> QED BY <1>1, <1>2 DEF Record

LEMMA ConsumeIs ==
    ASSUME NEW v \in Views, NEW r \in Record
    PROVE  LET u == consumeBridgeRecord(v, r)
           IN /\ u \in Views
              /\ r.kind = "DATA" =>
                    u = [parser |-> Feed(v.parser, r.bytes), sessionId |-> v.sessionId,
                         fed |-> Longer(v.fed, r.bytes)]
              /\ r.kind # "DATA" /\ ~Resyncs(v, r) =>
                    u = [parser |-> v.parser, sessionId |-> r.session, fed |-> v.fed]
              /\ r.kind # "DATA" /\ Resyncs(v, r) =>
                    u = [parser |-> [rx |-> <<>>, frames |-> v.parser.frames,
                                     drops |-> v.parser.drops, bad |-> v.parser.bad],
                         sessionId |-> r.session, fed |-> Append(v.fed, <<>>)]
<1> DEFINE u == consumeBridgeRecord(v, r)
           p == v.parser
           e == <<>>
           f == v.fed
           q == [rx |-> e, frames |-> p.frames, drops |-> p.drops, bad |-> p.bad]
<1>1. /\ p \in Parser /\ v.sessionId \in Nat /\ f \in Fed
      /\ v = [parser |-> p, sessionId |-> v.sessionId, fed |-> f]
  BY DEF Views
<1>2. e \in Seq(Byte) /\ Append(f, e) \in Fed /\ \A y \in Seq(Byte) : Longer(f, y) \in Fed
  BY <1>1, LedgerKeeps, EmptySeq
<1>3. q \in Parser /\ q = [p EXCEPT !.rx = e]
  BY <1>1, <1>2, ParserFields DEF Parser
<1>4. r.kind \in {"DATA", "HELLO", "SESSION"}
  BY RecordKinds
<1> HIDE DEF u, p, e, q, f
<1>5. CASE r.kind = "DATA"
  <2> DEFINE w == Feed(p, r.bytes)
             g == Longer(f, r.bytes)
  <2>1. r.bytes \in Seq(Byte)
    BY <1>5, RecordKinds
  <2>2. w \in Parser /\ g \in Fed
    BY <1>1, <1>2, <2>1, FeedIs
  <2>3. u = Take(v, r.bytes)
    BY <1>5 DEF u, consumeBridgeRecord
  <2>4. Take(v, r.bytes) = [v EXCEPT !.parser = w, !.fed = g]
    BY DEF Take, p, f
  <2> HIDE DEF w, g
  <2>5. u = [parser |-> w, sessionId |-> v.sessionId, fed |-> g]
    BY <1>1, <2>3, <2>4
  <2>6. u \in Views
    BY <1>1, <2>2, <2>5 DEF Views
  <2> QED BY <1>5, <2>5, <2>6 DEF u, w, g, p, f
<1>6. CASE r.kind # "DATA"
  <2> DEFINE s == r.session
             o == Append(f, e)
             d == [parser |-> q, sessionId |-> v.sessionId, fed |-> o]
  <2>1. s \in Nat
    BY <1>6, RecordKinds
  <2>2. Resync(v) = d
    <3>1. Resync(v) = [v EXCEPT !.parser = q, !.fed = o]
      BY <1>3 DEF Resync, p, f, e
    <3> HIDE DEF o
    <3> QED BY <1>1, <3>1
  <2> HIDE DEF s, o
  <2>3. CASE Resyncs(v, r)
    <3>1. u = [Resync(v) EXCEPT !.sessionId = s]
      <4>1. CASE r.kind = "SESSION"
        BY <4>1 DEF u, consumeBridgeRecord, s
      <4>2. CASE r.kind = "HELLO"
        BY <2>3, <4>2 DEF u, consumeBridgeRecord, Resyncs, s
      <4> QED BY <1>4, <1>6, <4>1, <4>2
    <3>2. u = [parser |-> q, sessionId |-> s, fed |-> o]
      BY <2>2, <3>1
    <3>3. u \in Views
      BY <1>2, <1>3, <2>1, <3>2 DEF Views, o
    <3> QED BY <1>6, <2>3, <3>2, <3>3 DEF u, q, p, f, s, o, e
  <2>4. CASE ~Resyncs(v, r)
    <3>1. u = [v EXCEPT !.sessionId = s]
      BY <1>4, <1>6, <2>4 DEF u, consumeBridgeRecord, Resyncs, s
    <3>2. u = [parser |-> p, sessionId |-> s, fed |-> f]
      BY <1>1, <3>1
    <3>3. u \in Views
      BY <1>1, <2>1, <3>2 DEF Views
    <3> QED BY <1>6, <2>4, <3>2, <3>3 DEF u, p, f, s
  <2> QED BY <2>3, <2>4
<1> QED BY <1>5, <1>6 DEF u

(* The records of a message, one after the other.                          *)
Chain(h, v, rs) ==
    /\ h \in [0 .. Len(rs) -> Views] /\ h[0] = v
    /\ \A k \in 1 .. Len(rs) : h[k] = consumeBridgeRecord(h[k - 1], rs[k])

LEMMA RecordByRecord ==
    ASSUME NEW v \in Views, NEW rs \in Seq(Record)
    PROVE  \E h : Chain(h, v, rs) /\ FoldLeft(consumeBridgeRecord, v, rs) = h[Len(rs)]
<1> DEFINE n == Len(rs)
           put(u, k) == consumeBridgeRecord(u, rs[k])
           Folds(it) == it = [T \in SUBSET (DOMAIN rs) |-> IF T = {} THEN v ELSE put(it[T \ {Top(T)}], Top(T))]
           f == CHOOSE it : Folds(it)
           g == [z \in (1 .. n) \X Views |-> put(z[2], z[1])]
<1>1. n \in Nat /\ DOMAIN rs = 1 .. n /\ \A k \in 1 .. n : rs[k] \in Record
  BY LenProperties, ElementOfSeq
<1>2. FoldLeft(consumeBridgeRecord, v, rs) = f[DOMAIN rs]
  BY Zenon DEF FoldLeft, MapThenFoldSet, Max, Top
<1>3. /\ \A k \in 1 .. n, u \in Views : put(u, k) \in Views
      /\ g \in [(1 .. n) \X Views -> Views]
  <2>1. \A k \in 1 .. n, u \in Views : put(u, k) \in Views
    BY <1>1, ConsumeIs
  <2> HIDE DEF put, n
  <2> QED BY <2>1
<1> HIDE DEF n, put
<1>4. Folds(f)
  <2> HIDE DEF g
  <2>1. PICK it \in [SUBSET (1 .. n) -> Views] : IsLeftFold(it, n, v, g)
    BY <1>1, <1>3, LeftFoldExists
  <2>2. ASSUME NEW T \in SUBSET (1 .. n), T # {}
        PROVE  g[<<Top(T), it[T \ {Top(T)}]>>] = put(it[T \ {Top(T)}], Top(T))
    BY <1>1, <2>1, <2>2, TopOf DEF g
  <2>3. Folds(it)
    BY <1>1, <2>1, <2>2 DEF IsLeftFold
  <2> QED BY <2>3
<1> HIDE DEF f, g
<1> DEFINE h == [k \in 0 .. n |-> f[1 .. k]]
<1>5. h[0] = v
  <2>1. 1 .. 0 = {} /\ 0 \in 0 .. n
    BY <1>1
  <2>2. f[{}] = v
    BY <1>1, <1>4
  <2> QED BY <2>1, <2>2
<1>6. ASSUME NEW k \in 1 .. n PROVE h[k] = consumeBridgeRecord(h[k - 1], rs[k])
  <2>1. 1 .. k # {} /\ (1 .. k) \in SUBSET (1 .. n) /\ Top(1 .. k) = k /\ (1 .. k) \ {k} = 1 .. k - 1
    BY <1>1, TopInterval
  <2>2. f[1 .. k] = put(f[1 .. k - 1], k)
    BY <1>1, <1>4, <2>1
  <2>3. k \in 0 .. n /\ k - 1 \in 0 .. n
    BY <1>1
  <2> QED BY <2>2, <2>3 DEF put
<1>7. h \in [0 .. n -> Views] /\ h[n] = f[1 .. n]
  <2> DEFINE P == {k \in 0 .. n : h[k] \in Views}
  <2>1. n \in 0 .. n /\ 0 \in 0 .. n
    BY <1>1
  <2>2. h[n] = f[1 .. n]
    BY <2>1
  <2>3. h = [k \in 0 .. n |-> h[k]]
    OBVIOUS
  <2> HIDE DEF h
  <2>4. 0 \in P
    BY <1>5, <2>1
  <2>5. \A k \in 1 .. n : k - 1 \in P => k \in P
    BY <1>1, <1>3, <1>6 DEF put
  <2>6. 0 .. n \subseteq P
    <3> HIDE DEF P
    <3> QED BY <1>1, <2>4, <2>5, UpTo
  <2>7. \A k \in 0 .. n : h[k] \in Views
    BY <2>6
  <2> QED BY <2>2, <2>3, <2>7
<1> HIDE DEF h
<1>8. Chain(h, v, rs)
  BY <1>5, <1>6, <1>7 DEF Chain, n
<1> QED BY <1>1, <1>2, <1>7, <1>8 DEF n

(* The books are balanced after a message when they were before.           *)
Balanced == {v \in Views : v.parser = Ledger(v.fed)}

LEMMA ConsumeBalances ==
    ASSUME NEW v \in Balanced, NEW r \in Record
    PROVE  consumeBridgeRecord(v, r) \in Balanced
<1> DEFINE u == consumeBridgeRecord(v, r)
           f == v.fed
           p == v.parser
           e == <<>>
<1>1. v \in Views /\ p = Ledger(f) /\ f \in Fed
  BY DEF Balanced, Views
<1>2. u \in Views
  BY <1>1, ConsumeIs
<1> HIDE DEF u
<1>3. CASE r.kind = "DATA"
  <2>1. u.parser = Feed(p, r.bytes) /\ u.fed = Longer(f, r.bytes)
    BY <1>1, <1>3, ConsumeIs DEF u
  <2>2. r.bytes \in Seq(Byte)
    BY <1>3, RecordKinds
  <2> QED BY <1>1, <1>2, <2>1, <2>2, LedgerKeeps DEF Balanced, u
<1>4. CASE r.kind # "DATA" /\ ~Resyncs(v, r)
  <2>1. u.parser = p /\ u.fed = f
    BY <1>1, <1>4, ConsumeIs DEF u
  <2> QED BY <1>1, <1>2, <2>1 DEF Balanced, u
<1>5. CASE r.kind # "DATA" /\ Resyncs(v, r)
  <2>1. /\ u.parser = [rx |-> e, frames |-> p.frames, drops |-> p.drops, bad |-> p.bad]
        /\ u.fed = Append(f, e)
    BY <1>1, <1>5, ConsumeIs DEF u
  <2>2. u.parser = Ledger(u.fed)
    BY <1>1, <2>1, LedgerKeeps
  <2> QED BY <1>2, <2>2 DEF Balanced, u
<1> QED BY <1>3, <1>4, <1>5

LEMMA MessageBalances ==
    ASSUME NEW v \in Balanced, NEW rs \in Seq(Record)
    PROVE  FoldLeft(consumeBridgeRecord, v, rs) \in Balanced
<1> DEFINE n == Len(rs)
<1>1. v \in Views
  BY DEF Balanced
<1>2. PICK h : Chain(h, v, rs) /\ FoldLeft(consumeBridgeRecord, v, rs) = h[n]
  BY <1>1, RecordByRecord
<1>3. n \in Nat /\ \A k \in 1 .. n : rs[k] \in Record
  BY LenProperties, ElementOfSeq
<1> DEFINE P == {k \in 0 .. n : h[k] \in Balanced}
<1>4. 0 \in P
  BY <1>2, <1>3 DEF Chain
<1>5. \A k \in 1 .. n : k - 1 \in P => k \in P
  BY <1>2, <1>3, ConsumeBalances DEF Chain
<1>6. n \in P
  <2> HIDE DEF P, n
  <2>1. 0 .. n \subseteq P
    BY <1>3, <1>4, <1>5, UpTo
  <2> QED BY <1>3, <2>1
<1> QED BY <1>2, <1>6

LEMMA ScriptBytes ==
    ASSUME NEW s \in DOMAIN Script
    PROVE  /\ s \in Nat \ {0} /\ Script[s] \in Seq(Seq(Nat)) /\ Flat(Script[s]) \in Seq(Nat)
           /\ Len(Flat(Script[s])) \in Nat /\ \A i \in 1 .. Len(Flat(Script[s])) : Flat(Script[s])[i] \in Nat
           /\ HASTY_BYTES <= Len(Flat(Script[s]))
<1> DEFINE E == Seq(Seq(Nat))
<1>1. Script \in Seq(E) /\ HASTY_BYTES <= Len(Flat(Script[s]))
  BY StreamAssumption
<1> HIDE DEF E
<1>2. s \in 1 .. Len(Script) /\ Len(Script) \in Nat
  BY <1>1, LenProperties
<1>3. Script[s] \in E
  BY <1>1, <1>2, ElementOfSeq
<1>4. Flat(Script[s]) \in Seq(Nat)
  <2> DEFINE e == <<>>
             N == Nat
  <2>1. Script[s] \in Seq(Seq(N)) /\ e \in Seq(N)
    BY <1>3, EmptySeq DEF E
  <2> HIDE DEF N, e
  <2>2. FlattenSeq(Script[s]) \in Seq(N)
    BY <2>1, FlattenAppend
  <2> QED BY <2>2 DEF N, Flat
<1>5. /\ Len(Flat(Script[s])) \in Nat
      /\ \A i \in 1 .. Len(Flat(Script[s])) : Flat(Script[s])[i] \in Nat
  BY <1>4, LenProperties, ElementOfSeq
<1> QED BY <1>1, <1>2, <1>3, <1>4, <1>5 DEF E

Burst(s, n, k) == [i \in 1 .. k |-> Tagged(s, n + i)]

LEMMA SentBytes ==
    ASSUME NEW s \in DOMAIN Script, NEW n \in Nat, NEW k \in Nat, n + k <= Len(Flat(Script[s]))
    PROVE  /\ Burst(s, n, k) \in Seq(Byte) /\ Len(Burst(s, n, k)) = k /\ Data(Burst(s, n, k)) \in Record
           /\ \A i \in 1 .. k : /\ Burst(s, n, k)[i].s = s /\ Burst(s, n, k)[i].n = n + i
                               /\ Burst(s, n, k)[i].v = Flat(Script[s])[n + i]
<1> DEFINE b == [i \in 1 .. k |-> Tagged(s, n + i)]
           l == Len(Flat(Script[s]))
<1>0. Burst(s, n, k) = b
  BY DEF Burst
<1>1. /\ s \in Nat \ {0} /\ l \in Nat /\ \A i \in 1 .. l : Flat(Script[s])[i] \in Nat
  BY ScriptBytes
<1>2. ASSUME NEW i \in 1 .. k
      PROVE  /\ Tagged(s, n + i) \in Byte
             /\ b[i].s = s /\ b[i].n = n + i /\ b[i].v = Flat(Script[s])[n + i]
  <2>1. n + i \in 1 .. l
    BY <1>1
  <2>2. Flat(Script[s])[n + i] \in Nat
    BY <1>1, <2>1
  <2> QED BY <1>1, <2>1, <2>2 DEF Tagged, Byte, Scripted
<1>3. b \in [1 .. k -> Byte]
  BY <1>2
<1> HIDE DEF b
<1>4. b \in Seq(Byte) /\ Len(b) = k
  BY <1>3, MadeSeq
<1>5. Data(b) \in Record
  BY <1>4 DEF Data, Record
<1>6. \A i \in 1 .. k : b[i].s = s /\ b[i].n = n + i /\ b[i].v = Flat(Script[s])[n + i]
  BY <1>2
<1> QED BY <1>0, <1>4, <1>5, <1>6

LEMMA SessionTyped ==
    ASSUME NEW s \in DOMAIN Script
    PROVE  Hello(s) \in Record /\ Session(s) \in Record
  BY ScriptBytes DEF Hello, Session, Record

LEMMA ForeignTyped ==
    ASSUME NEW values \in Seq(Nat), chunks \in Nat
    PROVE  /\ Foreign(values) \in Seq(Byte) /\ \A i \in DOMAIN Foreign(values) : Foreign(values)[i].s = 0
<1> DEFINE b == Foreign(values)
           n == Len(values)
<1>1. n \in Nat /\ DOMAIN values = 1 .. n /\ \A i \in 1 .. n : values[i] \in Nat
  BY LenProperties, ElementOfSeq
<1> HIDE DEF n
<1>2. b = [i \in 1 .. n |-> [v |-> values[i], s |-> 0, n |-> chunks * 16 + i]]
  BY <1>1 DEF Foreign
<1>3. ASSUME NEW i \in 1 .. n PROVE [v |-> values[i], s |-> 0, n |-> chunks * 16 + i] \in Byte
  <2>1. chunks * 16 + i \in Nat
    BY <1>1
  <2> QED BY <1>1, <2>1 DEF Byte
<1> HIDE DEF b
<1>4. b \in [1 .. n -> Byte] /\ \A i \in 1 .. n : b[i].s = 0
  BY <1>2, <1>3
<1>5. b \in Seq(Byte) /\ DOMAIN b = 1 .. n
  BY <1>1, <1>4, MadeSeq
<1> QED BY <1>4, <1>5 DEF b

LEMMA HalvesAre ==
    ASSUME NEW r \in Record
    PROVE  /\ Halves(r) \in Seq(Half) /\ Len(Halves(r)) = 2
           /\ Halves(r)[1] = [first |-> TRUE, record |-> r] /\ Halves(r)[2] = [first |-> FALSE, record |-> r]
<1> DEFINE a == [first |-> TRUE, record |-> r]
           b == [first |-> FALSE, record |-> r]
<1>1. a \in Half /\ b \in Half
  BY DEF Half
<1> HIDE DEF a, b
<1>2. <<a, b>> \in Seq(Half) /\ Len(<<a, b>>) = 2 /\ <<a, b>>[1] = a /\ <<a, b>>[2] = b
  BY <1>1
<1> QED BY <1>2 DEF Halves, a, b

LEMMA RecordsAre ==
    ASSUME NEW m \in Seq(Half)
    PROVE  /\ Records(m) \in Seq(Record) /\ Len(Records(m)) = Len(m) \div 2
           /\ Len(m) \in Nat /\ Len(m) \div 2 \in Nat /\ 2 * (Len(m) \div 2) <= Len(m)
           /\ Len(m) <= 2 * (Len(m) \div 2) + 1
           /\ \A i \in 1 .. Len(m) \div 2 : Records(m)[i] = m[2 * i].record /\ 2 * i \in 1 .. Len(m)
           /\ Left(m) \in Seq(Half) /\ Len(Left(m)) = Len(m) - 2 * (Len(m) \div 2)
           /\ \A i \in 1 .. Len(Left(m)) : Left(m)[i] = m[2 * (Len(m) \div 2) + i]
<1> DEFINE l == Len(m)
           h == l \div 2
<1>1. l \in Nat /\ \A i \in 1 .. l : m[i] \in Half
  BY LenProperties, ElementOfSeq
<1>2. h \in Nat /\ 2 * h <= l /\ l <= 2 * h + 1
  BY <1>1
<1> HIDE DEF l, h
<1>3. \A i \in 1 .. h : m[2 * i].record \in Record /\ 2 * i \in 1 .. l
  <2> SUFFICES ASSUME NEW i \in 1 .. h PROVE m[2 * i].record \in Record /\ 2 * i \in 1 .. l
    OBVIOUS
  <2>1. 2 * i \in 1 .. l
    BY <1>1, <1>2
  <2> QED BY <1>1, <2>1 DEF Half
<1>4. Records(m) = [i \in 1 .. h |-> m[2 * i].record]
  BY DEF Records, h, l
<1>5. Records(m) \in [1 .. h -> Record] /\ \A i \in 1 .. h : Records(m)[i] = m[2 * i].record
  BY <1>3, <1>4
<1>6. Records(m) \in Seq(Record) /\ Len(Records(m)) = h
  BY <1>2, <1>5, MadeSeq
<1> DEFINE t == 2 * h
<1>7. t \in 0 .. l
  BY <1>1, <1>2
<1> HIDE DEF t
<1>8. /\ SubSeq(m, t + 1, l) \in Seq(Half) /\ Len(SubSeq(m, t + 1, l)) = l - t
      /\ \A i \in 1 .. l - t : SubSeq(m, t + 1, l)[i] = m[t + i]
  BY <1>7, CutParts DEF l
<1>9. Left(m) = SubSeq(m, t + 1, l)
  BY DEF Left, t, h, l
<1> QED BY <1>1, <1>2, <1>3, <1>5, <1>6, <1>8, <1>9 DEF t, h, l

LEMMA WireCut ==
    ASSUME NEW r \in Seq(Half), NEW w \in Seq(Half), NEW k \in Nat, k <= Len(w)
    PROVE  r \o SubSeq(w, 1, k) \in Seq(Half) /\ SubSeq(w, k + 1, Len(w)) \in Seq(Half)
<1>1. k \in 0 .. Len(w)
  BY LenProperties
<1> DEFINE a == SubSeq(w, 1, k)
           b == SubSeq(w, k + 1, Len(w))
<1>2. a \in Seq(Half) /\ b \in Seq(Half)
  BY <1>1, CutParts
<1> HIDE DEF a, b
<1>3. r \o a \in Seq(Half)
  BY <1>2, ConcatProperties
<1> QED BY <1>2, <1>3 DEF a, b

-----------------------------------------------------------------------------
(* The stream is one parse of each uninterrupted sequence.                 *)

Sending == session \in DOMAIN Script /\ sent \in 0 .. Len(Flat(Script[session]))

Typed == /\ Sending /\ chunks \in Nat /\ hasty \in BOOLEAN
         /\ wire \in [Sockets -> Seq(Half)] /\ recordRx \in Seq(Half)

StreamInv == Typed /\ View \in Balanced

LEMMA TakeBalances ==
    ASSUME NEW v \in Balanced, NEW bytes \in Seq(Byte)
    PROVE  Take(v, bytes) \in Balanced /\ Take(v, bytes).fed = Longer(v.fed, bytes)
           /\ Take(v, bytes).sessionId = v.sessionId
           /\ Take(v, bytes).parser = Feed(v.parser, bytes)
<1>1. Data(bytes) \in Record /\ Data(bytes).kind = "DATA" /\ Data(bytes).bytes = bytes
  BY DEF Data, Record
<1>2. consumeBridgeRecord(v, Data(bytes)) = Take(v, bytes)
  BY <1>1 DEF consumeBridgeRecord
<1>3. v \in Views
  BY DEF Balanced
<1> QED BY <1>1, <1>2, <1>3, ConsumeBalances, ConsumeIs

LEMMA Shown ==
    ASSUME NEW v \in Views, Show(v)
    PROVE  View' = v
<1>1. v = [parser |-> v.parser, sessionId |-> v.sessionId, fed |-> v.fed]
  BY DEF Views
<1> QED BY <1>1 DEF Show, View

LEMMA ToAllTyped ==
    ASSUME Typed, NEW r \in Record, ToAll(r)
    PROVE  wire' \in [Sockets -> Seq(Half)]
<1>1. \A c \in Sockets : wire[c] \in Seq(Half) /\ wire[c] \o Halves(r) \in Seq(Half)
  BY HalvesAre, ConcatProperties DEF Typed
<1> QED BY <1>1 DEF ToAll

LEMMA MessageTyped ==
    ASSUME Typed, NEW c \in Sockets, NEW k \in HalfCounts, onmessage(c, k)
    PROVE  LET m == recordRx \o SubSeq(wire[c], 1, k)
           IN /\ k \in Nat /\ k <= Len(wire[c]) /\ wire[c] \in Seq(Half)
              /\ m \in Seq(Half) /\ Records(m) \in Seq(Record) /\ Left(m) \in Seq(Half)
              /\ SubSeq(wire[c], k + 1, Len(wire[c])) \in Seq(Half)
<1>1. k \in Nat /\ k <= Len(wire[c]) /\ wire[c] \in Seq(Half) /\ recordRx \in Seq(Half)
  BY StreamAssumption DEF onmessage, Typed
<1> QED BY <1>1, WireCut, RecordsAre

LEMMA StreamInit ==
    ASSUME Init
    PROVE  StreamInv
<1>1. session \in DOMAIN Script /\ sent \in 0 .. Len(Flat(Script[session]))
  <2> DEFINE E == Seq(Seq(Nat))
  <2>1. Script \in Seq(E) /\ Script # <<>>
    BY StreamAssumption
  <2> HIDE DEF E
  <2>2. Len(Script) \in Nat /\ DOMAIN Script = 1 .. Len(Script) /\ Len(Script) # 0
    BY <2>1, LenProperties, EmptySeq
  <2>3. session \in DOMAIN Script
    BY <2>2 DEF Init
  <2> QED BY <2>3, ScriptBytes DEF Init
<1>2. wire \in [Sockets -> Seq(Half)] /\ recordRx \in Seq(Half) /\ chunks \in Nat /\ hasty \in BOOLEAN
  <2> DEFINE e == <<>>
  <2>1. e \in Seq(Half)
    BY EmptySeq
  <2>2. wire = [c \in Sockets |-> e] /\ recordRx = e /\ chunks = 0 /\ hasty = FALSE
    BY DEF Init
  <2> HIDE DEF e
  <2> QED BY <2>1, <2>2
<1>3. View \in Balanced
  <2> DEFINE e == <<>>
             E == Seq(Byte)
             o == <<e>>
             p == Fresh(e)
  <2>1. e \in E /\ e \in Seq(E)
    BY EmptySeq
  <2>2. p \in Parser /\ Batch(e) = p
    <3>1. p \in Parser /\ Batch(e) = parseAvailableFrames(p) /\ p.rx = e
      BY <2>1, BatchIs DEF Fresh
    <3>2. Len(e) = 0
      BY EmptySeq
    <3> HIDE DEF e, p
    <3>3. ~CanStep(p)
      BY <3>1, <3>2, StepShrinks
    <3> QED BY <3>1, <3>3, ParseStep
  <2> HIDE DEF E
  <2>3. o \in Fed
    <3>1. o \in Seq(E) /\ o # <<>>
      BY <2>1
    <3> QED BY <3>1 DEF Fed, E
  <2>4. Parses(o) = <<p>>
    <3>1. DOMAIN o = 1 .. 1 /\ o[1] = e
      OBVIOUS
    <3> HIDE DEF o, p, e
    <3>2. Parses(o) = [i \in 1 .. 1 |-> p]
      BY <2>2, <3>1 DEF Parses
    <3> QED BY <3>2
  <2>5. Ledger(o) = p
    <3> DEFINE g == <<>>
    <3>1. g \in Seq(Seq(Byte)) /\ Append(g, e) = o
      BY EmptySeq
    <3>2. Ledger(o) = Ctx(p, e, Given(g), Drops(Parses(g)), Bads(Parses(g)))
      <4> HIDE DEF g
      <4> QED BY <2>1, <2>2, <3>1, LedgerIs DEF E
    <3>3. DOMAIN g = {} /\ Len(g) = 0
      OBVIOUS
    <3>4. Parses(g) = <<>>
      BY DEF Parses
    <3>5. Given(g) = e
      <4>1. Given(g) = FlattenSeq(<<>>)
        BY DEF Given
      <4>2. FlattenSeq(<<>>) = <<>>
        BY EmptySeq, FlattenAppend
      <4> QED BY <4>1, <4>2
    <3>6. Drops(<<>>) = 0 /\ Bads(<<>>) = 0
      <4> DEFINE w == <<>>
                 d == [i \in 1 .. 0 |-> w[i].drops]
                 b == [i \in 1 .. 0 |-> w[i].bad]
      <4>1. w \in Seq(Parser) /\ Len(w) = 0
        OBVIOUS
      <4> HIDE DEF w
      <4>2. Drops(w) = Total(d, 0) /\ Bads(w) = Total(b, 0)
        BY <4>1, CountsAre
      <4> HIDE DEF d, b
      <4>3. Total(d, 0) = 0 /\ Total(b, 0) = 0
        <5>1. ASSUME NEW x PROVE Total(x, 0) = 0
          <6>1. 1 .. 0 = {}
            OBVIOUS
          <6>2. (CHOOSE it : Adds(it, x, 0))[{}] = 0
            BY <6>1, SumKnown
          <6> QED BY <6>1, <6>2 DEF Total
        <5> QED BY <5>1
      <4> QED BY <4>2, <4>3 DEF w
    <3>7. p = [rx |-> e, frames |-> e, drops |-> 0, bad |-> 0]
      BY DEF Fresh
    <3> HIDE DEF p, o, g
    <3>8. Drops(Parses(g)) = 0 /\ Bads(Parses(g)) = 0
      BY <3>4, <3>6
    <3> HIDE DEF e
    <3>9. e \o e = e
      BY <2>1, ConcatEmptySeq DEF e
    <3>10. Ctx(p, e, e, 0, 0) = [rx |-> e \o e, frames |-> e \o e, drops |-> 0 + 0, bad |-> 0 + 0]
      BY <3>7 DEF Ctx
    <3>11. Ctx(p, e, Given(g), Drops(Parses(g)), Bads(Parses(g))) = Ctx(p, e, e, 0, 0)
      BY <3>5, <3>8
    <3> QED BY <3>2, <3>7, <3>9, <3>10, <3>11
  <2> HIDE DEF p, o, e
  <2>6. View = [parser |-> p, sessionId |-> 0, fed |-> o]
    BY DEF Init, View, Unknown, p, o, e
  <2> QED BY <2>2, <2>3, <2>5, <2>6 DEF Balanced, Views
<1> QED BY <1>1, <1>2, <1>3 DEF StreamInv, Typed, Sending

LEMMA StreamStep ==
    ASSUME StreamInv, [Next]_vars
    PROVE  StreamInv'
<1> USE DEF StreamInv, Typed, Sending
<1>1. ASSUME NEW k \in DataSizes, Broadcast(k) PROVE StreamInv'
  <2> DEFINE b == [i \in 1 .. k |-> Tagged(session, sent + i)]
             l == Len(Flat(Script[session]))
  <2>1. k \in Nat /\ session \in DOMAIN Script /\ sent \in 0 .. l
    BY StreamAssumption
  <2>2. l \in Nat /\ HASTY_BYTES <= l /\ HASTY_BYTES \in Nat
    BY <2>1, ScriptBytes, StreamAssumption
  <2> HIDE DEF l
  <2>3. sent + k <= l
    <3>1. sent + k <= IF hasty THEN HASTY_BYTES ELSE l
      BY <1>1 DEF Broadcast, l
    <3>2. sent + k \in Nat
      BY <2>1, <2>2
    <3> QED BY <2>2, <3>1, <3>2
  <2>4. Data(b) \in Record
    <3>1. b = Burst(session, sent, k)
      BY DEF Burst
    <3>2. sent \in Nat /\ sent + k <= Len(Flat(Script[session]))
      BY <2>1, <2>2, <2>3 DEF l
    <3>3. Data(Burst(session, sent, k)) \in Record
      BY <2>1, <3>2, SentBytes
    <3> QED BY <3>1, <3>3
  <2>5. ToAll(Data(b))
    BY <1>1 DEF Broadcast
  <2> HIDE DEF b
  <2>6. wire' \in [Sockets -> Seq(Half)]
    BY <2>4, <2>5, ToAllTyped
  <2>7. sent' \in 0 .. l /\ UNCHANGED <<session, recordRx, chunks, hasty, parser, sessionId, fed>>
    BY <1>1, <2>1, <2>2, <2>3 DEF Broadcast, Rx
  <2>8. View' = View
    BY <2>7 DEF View
  <2>9. Len(Flat(Script[session']))= l
    BY <2>7 DEF l
  <2> QED BY <2>6, <2>7, <2>8, <2>9
<1>2. CASE NewSession
  <2>1. session + 1 \in DOMAIN Script
    <3> DEFINE E == Seq(Seq(Nat))
    <3>1. Script \in Seq(E)
      BY StreamAssumption
    <3> HIDE DEF E
    <3>2. Len(Script) \in Nat /\ DOMAIN Script = 1 .. Len(Script)
      BY <3>1, LenProperties
    <3> QED BY <1>2, <3>2 DEF NewSession
  <2>2. session' = session + 1 /\ sent' = 0 /\ ToAll(Session(session + 1))
        /\ UNCHANGED <<recordRx, chunks, hasty, parser, sessionId, fed>>
    BY <1>2 DEF NewSession, Rx
  <2>3. wire' \in [Sockets -> Seq(Half)]
    BY <2>1, <2>2, SessionTyped, ToAllTyped
  <2>4. sent' \in 0 .. Len(Flat(Script[session + 1]))
    BY <2>1, <2>2, ScriptBytes
  <2>5. View' = View
    BY <2>2 DEF View
  <2> QED BY <2>1, <2>2, <2>3, <2>4, <2>5
<1>3. ASSUME NEW c \in Sockets, connectJtag(c) \/ onopen(c) \/ onerror(c) \/ onclose(c) PROVE StreamInv'
  <2>1. recordRx' \in Seq(Half) /\ hasty' \in BOOLEAN /\ UNCHANGED <<session, sent, chunks, parser, sessionId, fed>>
    <3>1. CASE connectJtag(c)
      BY <3>1 DEF connectJtag, Target
    <3>2. CASE onopen(c) \/ onerror(c) \/ onclose(c)
      BY <3>2 DEF onopen, onerror, onclose, Target, Rx
    <3> QED BY <1>3, <3>1, <3>2
  <2>2. wire' \in [Sockets -> Seq(Half)]
    <3>1. CASE connectJtag(c) \/ onerror(c)
      BY <3>1 DEF connectJtag, onerror
    <3>2. CASE onopen(c)
      <4>1. Halves(Hello(session)) \in Seq(Half)
        BY SessionTyped, HalvesAre
      <4>2. wire' = [wire EXCEPT ![c] = Halves(Hello(session))]
        BY <3>2 DEF onopen
      <4> QED BY <4>1, <4>2
    <3>3. CASE onclose(c)
      BY <3>3 DEF onclose
    <3> QED BY <1>3, <3>1, <3>2, <3>3
  <2>3. View' = View
    BY <2>1 DEF View
  <2> QED BY <2>1, <2>2, <2>3
<1>4. ASSUME NEW c \in Sockets, NEW k \in HalfCounts, onmessage(c, k) PROVE StreamInv'
  <2> DEFINE m == recordRx \o SubSeq(wire[c], 1, k)
             w == SubSeq(wire[c], k + 1, Len(wire[c]))
             v == FoldLeft(consumeBridgeRecord, View, Records(m))
  <2>1. m \in Seq(Half) /\ Records(m) \in Seq(Record) /\ Left(m) \in Seq(Half) /\ w \in Seq(Half)
    BY <1>4, MessageTyped
  <2>2. v \in Balanced
    BY <2>1, MessageBalances
  <2>3. recordRx' = Left(m) /\ Show(v) /\ wire' = [wire EXCEPT ![c] = w]
        /\ UNCHANGED <<session, sent, chunks, hasty>>
    BY <1>4 DEF onmessage, consumeBridgeBytes, Target
  <2> HIDE DEF v, w
  <2>4. View' = v
    BY <2>2, <2>3, Shown DEF Balanced
  <2>5. wire' \in [Sockets -> Seq(Half)]
    BY <2>1, <2>3
  <2> QED BY <2>1, <2>2, <2>3, <2>4, <2>5
<1>5. CASE connectSerial \/ readLoopEnds \/ disconnect \/ portCloses
  <2>1. hasty' \in BOOLEAN /\ UNCHANGED <<session, sent, wire, recordRx, chunks, parser, sessionId, fed>>
    BY <1>5 DEF connectSerial, readLoopEnds, disconnect, portCloses, Target, Rx
  <2>2. View' = View
    BY <2>1 DEF View
  <2> QED BY <2>1, <2>2
<1>6. ASSUME NEW values \in Files \cup SerialBytes, FeedForeign(values) PROVE StreamInv'
  <2> DEFINE v == Take(View, Foreign(values))
  <2>1. values \in Seq(Nat)
    BY StreamAssumption
  <2>2. v \in Balanced
    BY <2>1, ForeignTyped, TakeBalances
  <2>3. Show(v) /\ chunks' = chunks + 1 /\ UNCHANGED <<session, sent, wire, recordRx, hasty>>
    BY <1>6 DEF FeedForeign, Target
  <2> HIDE DEF v
  <2>4. View' = v
    BY <2>2, <2>3, Shown DEF Balanced
  <2> QED BY <2>2, <2>3, <2>4
<1>7. CASE UNCHANGED vars
  <2>1. UNCHANGED <<session, sent, wire, recordRx, chunks, hasty, parser, sessionId, fed>>
    BY <1>7 DEF vars
  <2>2. View' = View
    BY <2>1 DEF View
  <2> QED BY <2>1, <2>2
<1> QED BY <1>1, <1>2, <1>3, <1>4, <1>5, <1>6, <1>7 DEF Next, readLoop, replayRawCapture

LEMMA BalancedIsBatch ==
    ASSUME StreamInv
    PROVE  StreamIsBatch
<1> DEFINE whole == [e \in DOMAIN fed |-> Batch(fed[e])]
<1>1. parser = Ledger(fed)
  BY DEF StreamInv, Balanced, View
<1>2. /\ Frames = FlattenSeq([e \in DOMAIN fed |-> whole[e].frames])
      /\ parser.rx = whole[Len(fed)].rx
      /\ parser.drops = Drops(whole)
      /\ parser.bad = Bads(whole)
  <2>1. whole = Parses(fed)
    BY DEF Parses
  <2> HIDE DEF whole
  <2> QED BY <1>1, <2>1 DEF Ledger, Given, Frames
<1> QED BY <1>2, Zenon DEF StreamIsBatch, Drops, Bads

(* StreamIsBatch, of every script, every cut of it into reads, records and *)
(* messages, and every order of connections, sessions and replays.         *)
THEOREM ParsedAsAWhole == Spec => []StreamIsBatch
<1>1. Init => StreamInv
  BY StreamInit
<1>2. StreamInv /\ [Next]_vars => StreamInv'
  BY StreamStep
<1>3. StreamInv => StreamIsBatch
  BY BalancedIsBatch
<1> QED BY <1>1, <1>2, <1>3, PTL DEF Spec

-----------------------------------------------------------------------------
(* The frames of a session, one behind the other.                          *)

Part(w, n) == FlattenSeq(SubSeq(w, 1, n))

LEMMA PartNext ==
    ASSUME NEW S, NEW w \in Seq(Seq(S))
    PROVE  /\ Len(w) \in Nat /\ Part(w, 0) = <<>> /\ Part(w, Len(w)) = FlattenSeq(w)
           /\ \A n \in 0 .. Len(w) : Part(w, n) \in Seq(S) /\ Len(Part(w, n)) \in Nat
           /\ \A n \in 1 .. Len(w) : w[n] \in Seq(S) /\ Part(w, n) = Part(w, n - 1) \o w[n]
<1> DEFINE A == Seq(S)
           N == Len(w)
           e == <<>>
<1>1. w \in Seq(A) /\ N \in Nat /\ \A n \in 1 .. N : w[n] \in A
  <2>1. w \in Seq(A)
    OBVIOUS
  <2> HIDE DEF A
  <2> QED BY <2>1, LenProperties, ElementOfSeq
<1> HIDE DEF A
<1>2. ASSUME NEW n \in 0 .. N PROVE SubSeq(w, 1, n) \in Seq(A) /\ Len(SubSeq(w, 1, n)) = n
                                    /\ \A i \in 1 .. n : SubSeq(w, 1, n)[i] = w[i]
  BY <1>1, CutParts
<1>3. Part(w, N) = FlattenSeq(w)
  <2> DEFINE a == SubSeq(w, 1, N)
  <2>1. a \in Seq(A) /\ Len(a) = N /\ \A i \in 1 .. N : a[i] = w[i]
    BY <1>1, <1>2
  <2> HIDE DEF a
  <2>2. a = w
    BY <1>1, <2>1, SeqEqual
  <2> QED BY <2>2 DEF Part, a
<1>4. Part(w, 0) = e
  <2>1. SubSeq(w, 1, 0) = e
    BY <1>1, SubSeqEmpty
  <2>2. FlattenSeq(e) = e
    BY EmptySeq, FlattenAppend
  <2> QED BY <2>1, <2>2 DEF Part
<1>5. ASSUME NEW n \in 0 .. N PROVE Part(w, n) \in Seq(S) /\ Len(Part(w, n)) \in Nat
  <2>1. SubSeq(w, 1, n) \in Seq(Seq(S)) /\ e \in Seq(S)
    BY <1>2, EmptySeq DEF A
  <2>2. Part(w, n) \in Seq(S)
    BY <2>1, FlattenAppend DEF Part
  <2> QED BY <2>2, LenProperties
<1>6. ASSUME NEW n \in 1 .. N PROVE Part(w, n) = Part(w, n - 1) \o w[n]
  <2> DEFINE a == SubSeq(w, 1, n - 1)
             b == SubSeq(w, 1, n)
             c == Append(a, w[n])
  <2>0. n - 1 \in 0 .. N /\ n \in 0 .. N /\ n - 1 \in Nat
    BY <1>1
  <2>1. /\ a \in Seq(A) /\ Len(a) = n - 1 /\ \A i \in 1 .. n - 1 : a[i] = w[i]
        /\ b \in Seq(A) /\ Len(b) = n /\ \A i \in 1 .. n : b[i] = w[i]
    BY <1>2, <2>0
  <2> HIDE DEF a, b
  <2>2. c \in Seq(A) /\ Len(c) = n /\ c[n] = w[n] /\ \A i \in 1 .. n - 1 : c[i] = a[i]
    <3>1. c \in Seq(A) /\ Len(c) = Len(a) + 1 /\ c[Len(a) + 1] = w[n] /\ \A i \in 1 .. Len(a) : c[i] = a[i]
      BY <1>1, <2>1, AppendProperties
    <3>2. Len(a) + 1 = n
      BY <2>0, <2>1
    <3> HIDE DEF c
    <3> QED BY <2>1, <3>1, <3>2
  <2> HIDE DEF c
  <2>3. b = c
    <3>1. \A i \in 1 .. n : b[i] = c[i]
      <4> SUFFICES ASSUME NEW i \in 1 .. n PROVE b[i] = c[i]
        OBVIOUS
      <4>1. i = n \/ i \in 1 .. n - 1
        BY <2>0
      <4> QED BY <2>1, <2>2, <4>1
    <3> QED BY <2>1, <2>2, <3>1, SeqEqual
  <2>4. FlattenSeq(c) = FlattenSeq(a) \o w[n]
    <3>1. a \in Seq(Seq(S)) /\ w[n] \in Seq(S)
      BY <1>1, <2>1 DEF A
    <3> QED BY <3>1, FlattenAppend DEF c
  <2> QED BY <2>3, <2>4 DEF Part, a, b
<1> QED BY <1>1, <1>3, <1>4, <1>5, <1>6 DEF A

(* Each frame stands where those before it end.                            *)
LEMMA FrameStands ==
    ASSUME NEW S, NEW w \in Seq(Seq(S)), NEW n \in 1 .. Len(w)
    PROVE  /\ Len(Part(w, n - 1)) \in Nat /\ Len(Part(w, n)) = Len(Part(w, n - 1)) + Len(w[n])
           /\ Len(w[n]) \in Nat /\ Len(FlattenSeq(w)) \in Nat
           /\ Len(Part(w, n)) <= Len(FlattenSeq(w))
           /\ \A i \in 1 .. Len(w[n]) : FlattenSeq(w)[Len(Part(w, n - 1)) + i] = w[n][i]
<1> DEFINE N == Len(w)
           q(k) == Part(w, k)
           P == {k \in 0 .. N : k < n \/ /\ Len(q(n)) <= Len(q(k))
                                         /\ \A i \in 1 .. Len(q(n)) : q(k)[i] = q(n)[i]}
<1>1. /\ N \in Nat /\ q(N) = FlattenSeq(w)
      /\ \A k \in 0 .. N : q(k) \in Seq(S) /\ Len(q(k)) \in Nat
      /\ \A k \in 1 .. N : w[k] \in Seq(S) /\ q(k) = q(k - 1) \o w[k]
  BY PartNext
<1>2. 0 \in P
  BY <1>1
<1> HIDE DEF q
<1>3. ASSUME NEW k \in 1 .. N PROVE /\ q(k - 1) \in Seq(S) /\ Len(q(k - 1)) \in Nat /\ Len(w[k]) \in Nat
                                    /\ Len(q(k)) = Len(q(k - 1)) + Len(w[k])
                                    /\ \A i \in 1 .. Len(q(k)) :
                                          q(k)[i] = IF i <= Len(q(k - 1)) THEN q(k - 1)[i] ELSE w[k][i - Len(q(k - 1))]
  <2>1. k - 1 \in 0 .. N
    BY <1>1
  <2>2. q(k - 1) \in Seq(S) /\ w[k] \in Seq(S) /\ q(k) = q(k - 1) \o w[k]
    BY <1>1, <2>1
  <2> DEFINE a == q(k - 1)
             b == w[k]
             c == q(k)
  <2>3. a \in Seq(S) /\ b \in Seq(S) /\ c = a \o b
    BY <2>2
  <2> HIDE DEF a, b, c
  <2>4. /\ Len(a) \in Nat /\ Len(b) \in Nat /\ Len(c) = Len(a) + Len(b)
        /\ \A i \in 1 .. Len(a) + Len(b) : c[i] = IF i <= Len(a) THEN a[i] ELSE b[i - Len(a)]
    BY <2>3, ConcatProperties, LenProperties
  <2> QED BY <2>3, <2>4 DEF a, b, c
<1>4. \A k \in 1 .. N : k - 1 \in P => k \in P
  <2> SUFFICES ASSUME NEW k \in 1 .. N, k - 1 \in P, k >= n
               PROVE  Len(q(n)) <= Len(q(k)) /\ \A i \in 1 .. Len(q(n)) : q(k)[i] = q(n)[i]
    BY <1>1
  <2>1. CASE k = n
    BY <1>1, <2>1
  <2>2. CASE k # n
    <3>1. k - 1 >= n /\ n \in 0 .. N
      BY <1>1, <2>2
    <3>2. Len(q(n)) <= Len(q(k - 1)) /\ \A i \in 1 .. Len(q(n)) : q(k - 1)[i] = q(n)[i]
      BY <3>1
    <3>3. Len(q(n)) \in Nat
      BY <1>1, <3>1
    <3>4. /\ Len(q(k - 1)) \in Nat /\ Len(w[k]) \in Nat /\ Len(q(k)) = Len(q(k - 1)) + Len(w[k])
          /\ \A i \in 1 .. Len(q(k)) : i <= Len(q(k - 1)) => q(k)[i] = q(k - 1)[i]
      BY <1>3
    <3> DEFINE a == Len(q(n))
               b == Len(q(k - 1))
               c == Len(q(k))
    <3>5. a \in Nat /\ b \in Nat /\ a <= b
      BY <3>2, <3>3, <3>4
    <3>6. c = b + Len(w[k]) /\ Len(w[k]) \in Nat
      BY <3>4
    <3> HIDE DEF a, b, c
    <3>7. a <= c /\ b <= c
      BY <3>5, <3>6
    <3>8. ASSUME NEW i \in 1 .. a PROVE q(k)[i] = q(n)[i]
      <4>1. i \in 1 .. c /\ i <= b
        BY <3>5, <3>6
      <4>2. q(k)[i] = q(k - 1)[i]
        BY <3>4, <4>1 DEF b, c
      <4>3. q(k - 1)[i] = q(n)[i]
        BY <3>2 DEF a
      <4> QED BY <4>2, <4>3
    <3> QED BY <3>7, <3>8 DEF a, c
  <2> QED BY <2>1, <2>2
<1>5. N \in P
  <2>0. N \in Nat
    BY <1>1
  <2> HIDE DEF P, N
  <2>1. 0 .. N \subseteq P
    BY <1>2, <1>4, <2>0, UpTo
  <2> QED BY <2>0, <2>1
<1>6. Len(q(n)) <= Len(q(N)) /\ \A i \in 1 .. Len(q(n)) : q(N)[i] = q(n)[i]
  BY <1>1, <1>5
<1>7. /\ Len(q(n - 1)) \in Nat /\ Len(w[n]) \in Nat /\ Len(q(n)) = Len(q(n - 1)) + Len(w[n])
      /\ \A i \in 1 .. Len(q(n)) : q(n)[i] = IF i <= Len(q(n - 1)) THEN q(n - 1)[i] ELSE w[n][i - Len(q(n - 1))]
  BY <1>3
<1>8. ASSUME NEW i \in 1 .. Len(w[n]) PROVE q(N)[Len(q(n - 1)) + i] = w[n][i]
  <2> DEFINE j == Len(q(n - 1)) + i
  <2>1. j \in 1 .. Len(q(n)) /\ ~(j <= Len(q(n - 1))) /\ j - Len(q(n - 1)) = i
    BY <1>7
  <2> HIDE DEF j
  <2>2. q(N)[j] = w[n][i]
    BY <1>6, <1>7, <2>1
  <2> QED BY <2>2 DEF j
<1>9. Len(q(N)) \in Nat
  BY <1>1
<1> QED BY <1>1, <1>6, <1>7, <1>8, <1>9 DEF q

(* The first bytes of session s, in their order.                           *)
Begins(x, s) == \A i \in 1 .. Len(x) : x[i].s = s /\ x[i].n = i

(* Parsed so far: n frames of the session.                                 *)
Stage(p, x, s, n) ==
    /\ p \in Parser /\ parseAvailableFrames(p) = Batch(x)
    /\ p.rx = SubSeq(x, Len(Part(Script[s], n)) + 1, Len(x))
    /\ Len(p.frames) = n /\ \A i \in 1 .. n : Values(p.frames[i]) = Script[s][i]

LEMMA ValuesCut ==
    ASSUME NEW x \in Seq(Byte), NEW f \in Seq(Nat), Len(f) = Len(x), \A i \in 1 .. Len(f) : x[i].v = f[i]
    PROVE  /\ Values(x) = f
           /\ Len(x) >= 1 => Values(SubSeq(x, 2, Len(x) - 1)) = SubSeq(f, 2, Len(f) - 1)
<1> DEFINE n == Len(x)
           two == 2
           m == n - 1
           a == SubSeq(x, two, m)
           b == SubSeq(f, two, m)
           u == Values(x)
           v == Values(a)
<1>1. n \in Nat /\ DOMAIN x = 1 .. n /\ (\A i \in 1 .. n : x[i] \in Byte) /\ \A i \in 1 .. n : f[i] \in Nat
  BY LenProperties, ElementOfSeq
<1>2. u = [i \in 1 .. n |-> x[i].v]
  BY <1>1 DEF Values
<1> HIDE DEF u
<1>3. u = f
  <2>1. u \in [1 .. n -> Nat] /\ \A i \in 1 .. n : u[i] = f[i]
    BY <1>1, <1>2
  <2>2. u \in Seq(Nat) /\ Len(u) = n
    BY <1>1, <2>1, MadeSeq
  <2> QED BY <2>1, <2>2, SeqEqual
<1>4. ASSUME n >= 1 PROVE v = b
  <2>1. two = 2 /\ two \in Int /\ m \in Int /\ m = n - 1
    BY <1>1
  <2> HIDE DEF two, m
  <2>2. (\A i \in two .. m : x[i] \in Byte) /\ (\A i \in two .. m : f[i] \in Nat)
    BY <1>1, <2>1
  <2>3. /\ a \in Seq(Byte) /\ Len(a) = IF two <= m THEN m - two + 1 ELSE 0
        /\ \A i \in 1 .. m - two + 1 : a[i] = x[two + i - 1]
    BY <2>1, <2>2, SubSeqProperties
  <2>4. /\ b \in Seq(Nat) /\ Len(b) = IF two <= m THEN m - two + 1 ELSE 0
        /\ \A i \in 1 .. m - two + 1 : b[i] = f[two + i - 1]
    BY <2>1, <2>2, SubSeqProperties
  <2> DEFINE l == Len(a)
  <2>5. l \in Nat /\ DOMAIN a = 1 .. l /\ Len(b) = l
    BY <2>3, <2>4, LenProperties
  <2>6. \A i \in 1 .. l : i \in 1 .. m - two + 1 /\ two + i - 1 \in 1 .. n
    BY <1>1, <2>1, <2>3
  <2> HIDE DEF a, b, l
  <2>7. \A i \in 1 .. l : a[i].v = b[i] /\ b[i] \in Nat
    BY <1>1, <2>3, <2>4, <2>6
  <2>8. v = [i \in 1 .. l |-> a[i].v]
    BY <2>5 DEF Values
  <2> HIDE DEF v
  <2>9. v \in [1 .. l -> Nat] /\ \A i \in 1 .. l : v[i] = b[i]
    BY <2>7, <2>8
  <2>10. v \in Seq(Nat) /\ Len(v) = l
    BY <2>5, <2>9, MadeSeq
  <2> QED BY <2>4, <2>5, <2>9, <2>10, SeqEqual
<1> QED BY <1>3, <1>4 DEF u, v, a, b, two, m

LEMMA SessionBytes ==
    ASSUME NEW s \in DOMAIN Script, NEW x \in Seq(Byte), Begins(x, s)
    PROVE  /\ Len(x) \in Nat /\ Script[s] \in Seq(Seq(Nat))
           /\ \A i \in 1 .. Len(x) : x[i].v = Flat(Script[s])[i]
           /\ Len(x) <= Len(Flat(Script[s])) /\ Len(Flat(Script[s])) \in Nat
<1>1. s # 0 /\ Script[s] \in Seq(Seq(Nat)) /\ Len(Flat(Script[s])) \in Nat
  BY ScriptBytes
<1>2. Len(x) \in Nat /\ \A i \in 1 .. Len(x) : x[i] \in Byte
  BY LenProperties, ElementOfSeq
<1>3. ASSUME NEW i \in 1 .. Len(x)
      PROVE  x[i].v = Flat(Script[s])[i] /\ i \in 1 .. Len(Flat(Script[s]))
  BY <1>1, <1>2 DEF Begins, Byte, Scripted
<1>4. Len(x) <= Len(Flat(Script[s]))
  <2>1. CASE Len(x) = 0
    BY <1>1, <2>1
  <2>2. CASE Len(x) # 0
    <3>1. Len(x) \in 1 .. Len(x)
      BY <1>2, <2>2
    <3> QED BY <1>1, <1>3, <3>1
  <2> QED BY <2>1, <2>2
<1> QED BY <1>1, <1>2, <1>3, <1>4

(* What is left of the bytes after n - 1 frames begins with the n-th.      *)
LEMMA RestIs ==
    ASSUME NEW s \in DOMAIN Script, NEW x \in Seq(Byte), Begins(x, s), NEW n \in 1 .. Len(Script[s]),
           Len(Part(Script[s], n - 1)) <= Len(x)
    PROVE  LET f == Script[s][n]
               y == SubSeq(x, Len(Part(Script[s], n - 1)) + 1, Len(x))
           IN /\ f \in Seq(Nat) /\ IsFrame(f) /\ Len(f) \in Nat
              /\ y \in Seq(Byte) /\ Len(y) \in Nat /\ Len(y) = Len(x) - Len(Part(Script[s], n - 1))
              /\ \A i \in 1 .. Len(y) : i <= Len(f) => y[i].v = f[i]
<1> DEFINE w == Script[s]
           f == w[n]
           o == Len(Part(w, n - 1))
           l == Len(x)
           y == SubSeq(x, o + 1, l)
           F == Flat(w)
<1>1. l \in Nat /\ w \in Seq(Seq(Nat)) /\ \A i \in 1 .. l : x[i].v = F[i]
  BY SessionBytes
<1>2. /\ o \in Nat /\ Len(f) \in Nat /\ \A i \in 1 .. Len(f) : F[o + i] = f[i]
  BY <1>1, FrameStands DEF Flat
<1>3. f \in Seq(Nat)
  BY <1>1, PartNext
<1>4. IsFrame(f)
  <2>1. n \in DOMAIN w
    <3> DEFINE E == Seq(Nat)
    <3>1. w \in Seq(E)
      BY <1>1
    <3> HIDE DEF E, w
    <3>2. DOMAIN w = 1 .. Len(w)
      BY <3>1, LenProperties
    <3> QED BY <3>2 DEF w
  <2> QED BY <2>1, StreamAssumption
<1>5. o \in 0 .. l
  BY <1>1, <1>2
<1> HIDE DEF w, f, o, l, F
<1>6. y \in Seq(Byte) /\ Len(y) = l - o /\ \A i \in 1 .. l - o : y[i] = x[o + i]
  BY <1>5, CutParts DEF l
<1> HIDE DEF y
<1>7. ASSUME NEW i \in 1 .. Len(y), i <= Len(f) PROVE y[i].v = f[i]
  <2>1. i \in 1 .. l - o /\ o + i \in 1 .. l /\ i \in 1 .. Len(f)
    BY <1>1, <1>2, <1>5, <1>6, <1>7
  <2> QED BY <1>1, <1>2, <1>6, <2>1
<1>8. Len(y) \in Nat
  BY <1>6, LenProperties
<1> QED BY <1>2, <1>3, <1>4, <1>6, <1>7, <1>8 DEF w, f, o, l, y

LEMMA NextFrame ==
    ASSUME NEW s \in DOMAIN Script, NEW x \in Seq(Byte), Begins(x, s), NEW n \in 1 .. Len(Script[s]),
           Len(Part(Script[s], n)) <= Len(x), NEW p, Stage(p, x, s, n - 1)
    PROVE  Stage(Step(p), x, s, n)
<1> DEFINE w == Script[s]
           f == w[n]
           o == Len(Part(w, n - 1))
           l == Len(x)
           y == SubSeq(x, o + 1, l)
           t == Takes(y)
           raw == SubSeq(y, 1, t)
           q == Step(p)
           F == p.frames
<1>1. /\ p \in Parser /\ parseAvailableFrames(p) = Batch(x) /\ p.rx = y
      /\ Len(F) = n - 1 /\ \A i \in 1 .. n - 1 : Values(F[i]) = w[i]
  BY DEF Stage
<1>2. l \in Nat /\ w \in Seq(Seq(Nat))
  BY SessionBytes
<1>3. o \in Nat /\ Len(f) \in Nat /\ Len(Part(w, n)) = o + Len(f)
  BY <1>2, FrameStands
<1>4. o <= l /\ o + Len(f) <= l
  <2> DEFINE c == Len(Part(w, n))
  <2>1. c <= l
    OBVIOUS
  <2> HIDE DEF c, o, l, f
  <2> QED BY <1>2, <1>3, <2>1 DEF c
<1>5. /\ f \in Seq(Nat) /\ IsFrame(f)
      /\ y \in Seq(Byte) /\ Len(y) \in Nat /\ Len(y) = l - o
      /\ \A i \in 1 .. Len(y) : i <= Len(f) => y[i].v = f[i]
  BY <1>4, RestIs
<1>6. n \in Nat /\ n >= 1
  OBVIOUS
<1> HIDE DEF f, o, l, y, w, q, F
<1>7. Len(f) <= Len(y)
  <2>1. Len(y) = l - o
    BY <1>5
  <2> QED BY <1>2, <1>3, <1>4, <2>1
<1>8. Len(f) >= 5 /\ f[1] = SOF /\ f[4] <= MAX_PAYLOAD /\ Len(f) = HEADER + f[4]
      /\ checksum(SubSeq(f, 2, Len(f) - 1)) = f[Len(f)]
  BY <1>5 DEF IsFrame, HEADER
<1>9. y[1].v = SOF /\ y[4].v = f[4] /\ t = Len(f) /\ \A i \in 1 .. t : y[i].v = f[i]
  <2>1. y[1].v = f[1] /\ y[4].v = f[4] /\ \A i \in 1 .. Len(f) : y[i].v = f[i]
    <3>1. Len(f) \in Nat /\ Len(y) \in Nat /\ 5 <= Len(f) /\ Len(f) <= Len(y)
      BY <1>3, <1>5, <1>7, <1>8
    <3>2. 1 \in 1 .. Len(y) /\ 4 \in 1 .. Len(y) /\ \A i \in 1 .. Len(f) : i \in 1 .. Len(y) /\ i <= Len(f)
      BY <3>1
    <3>3. 1 <= Len(f) /\ 4 <= Len(f)
      BY <3>1
    <3> QED BY <1>5, <3>2, <3>3
  <2> QED BY <1>8, <2>1 DEF Takes
<1>10. t \in 0 .. Len(y) /\ t \in Nat /\ t >= 5
  BY <1>3, <1>5, <1>7, <1>8, <1>9
<1> HIDE DEF t
<1>11. /\ raw \in Seq(Byte) /\ Len(raw) = t /\ \A i \in 1 .. t : raw[i] = y[i]
       /\ SubSeq(y, t + 1, Len(y)) \in Seq(Byte) /\ Len(SubSeq(y, t + 1, Len(y))) = Len(y) - t
       /\ \A i \in 1 .. Len(y) - t : SubSeq(y, t + 1, Len(y))[i] = y[t + i]
  BY <1>5, <1>10, CutParts
<1> HIDE DEF raw
<1>12. Values(raw) = f /\ Values(SubSeq(raw, 2, Len(raw) - 1)) = SubSeq(f, 2, Len(f) - 1)
       /\ raw[Len(raw)].v = f[Len(f)]
  <2>1. Len(f) = Len(raw) /\ \A i \in 1 .. Len(f) : raw[i].v = f[i]
    BY <1>9, <1>11
  <2>2. Len(raw) >= 1 /\ Len(raw) \in 1 .. Len(f)
    BY <1>10, <1>11, <2>1
  <2> QED BY <1>5, <1>11, <2>1, <2>2, ValuesCut
<1>13. Holds(y) /\ Enough(y)
  <2>1. ChecksumHolds(raw)
    BY <1>8, <1>12 DEF ChecksumHolds
  <2>2. Enough(y)
    BY <1>5, <1>7, <1>8, <1>9, <1>10 DEF Enough, t, HEADER
  <2>3. y[4].v <= MAX_PAYLOAD
    BY <1>8, <1>9
  <2> QED BY <1>9, <2>1, <2>2, <2>3 DEF Holds, raw, t
<1>14. CanStep(p) /\ q \in Parser /\ q.rx = SubSeq(y, t + 1, Len(y)) /\ q.frames = Append(F, raw)
  <2>1. CanStep(p)
    BY <1>1, <1>13, StepIs
  <2>2. /\ Step(p) \in Parser /\ Step(p).rx = SubSeq(p.rx, Takes(p.rx) + 1, Len(p.rx))
        /\ Step(p).frames = IF Holds(p.rx) THEN Append(p.frames, SubSeq(p.rx, 1, Takes(p.rx))) ELSE p.frames
    <3> DEFINE X == p.rx
               T == Takes(X)
               D == p.drops + (IF X[1].v = SOF /\ X[4].v <= MAX_PAYLOAD THEN 0 ELSE 1)
               B == p.bad + (IF X[1].v = SOF /\ X[4].v <= MAX_PAYLOAD /\ ~Holds(X) THEN T ELSE 0)
    <3>1. /\ Step(p) \in Parser
          /\ Step(p) = [rx |-> SubSeq(X, T + 1, Len(X)),
                        frames |-> IF Holds(X) THEN Append(p.frames, SubSeq(X, 1, T)) ELSE p.frames,
                        drops |-> D, bad |-> B]
      BY <1>1, <2>1, StepIs
    <3> DEFINE turned == Step(p)
               R == SubSeq(X, T + 1, Len(X))
               G == IF Holds(X) THEN Append(p.frames, SubSeq(X, 1, T)) ELSE p.frames
    <3>2. turned = [rx |-> R, frames |-> G, drops |-> D, bad |-> B] /\ turned \in Parser
      BY <3>1
    <3> HIDE DEF D, B, R, G, turned
    <3>3. turned \in Parser /\ turned.rx = R /\ turned.frames = G
      BY <3>2
    <3> QED BY <3>3 DEF R, G, turned
  <2> QED BY <1>1, <1>13, <2>1, <2>2 DEF q, F, raw, t
<1>15. parseAvailableFrames(q) = Batch(x)
  BY <1>1, <1>14, ParseStep DEF q
<1>16. q.rx = SubSeq(x, Len(Part(w, n)) + 1, Len(x))
  <2> DEFINE r == SubSeq(y, t + 1, Len(y))
             c == Len(Part(w, n))
             z == SubSeq(x, c + 1, l)
  <2>1. c = o + t /\ c \in 0 .. l
    BY <1>2, <1>3, <1>4, <1>5, <1>7, <1>9
  <2> HIDE DEF c
  <2>2. z \in Seq(Byte) /\ Len(z) = l - c /\ \A i \in 1 .. l - c : z[i] = x[c + i]
    BY <2>1, CutParts DEF l
  <2>3. o \in 0 .. l
    BY <1>2, <1>3, <1>4
  <2>4. \A i \in 1 .. l - o : y[i] = x[o + i]
    BY <2>3, CutParts DEF l, y
  <2>5. r \in Seq(Byte) /\ Len(r) = Len(y) - t /\ \A i \in 1 .. Len(y) - t : r[i] = y[t + i]
    BY <1>11
  <2> HIDE DEF r, z
  <2>6. Len(r) = l - c /\ Len(y) - t = l - c /\ l - c \in Nat
    BY <1>2, <1>3, <1>5, <1>10, <2>1, <2>5
  <2>7. ASSUME NEW i \in 1 .. l - c PROVE r[i] = z[i]
    <3>1. t + i \in 1 .. l - o /\ o + (t + i) = c + i
      BY <1>2, <1>3, <1>10, <2>1
    <3>2. r[i] = y[t + i]
      BY <2>5, <2>6
    <3>3. y[t + i] = x[o + (t + i)]
      BY <2>4, <3>1
    <3> QED BY <2>2, <3>1, <3>2, <3>3
  <2>8. r = z
    BY <2>2, <2>5, <2>6, <2>7, SeqEqual
  <2> QED BY <1>14, <2>8 DEF r, z, c, l
<1>17. Len(q.frames) = n /\ \A i \in 1 .. n : Values(q.frames[i]) = w[i]
  <2> DEFINE E == Seq(Byte)
             G == Append(F, raw)
  <2>1. F \in Seq(E) /\ raw \in E
    BY <1>1, <1>11, ParserFields DEF F
  <2> HIDE DEF E
  <2>2. Len(G) = Len(F) + 1 /\ G[Len(F) + 1] = raw /\ \A i \in 1 .. Len(F) : G[i] = F[i]
    BY <2>1, AppendProperties
  <2> HIDE DEF G
  <2>3. Len(G) = n /\ G[n] = raw /\ \A i \in 1 .. n - 1 : G[i] = F[i]
    BY <1>1, <1>6, <2>2
  <2>4. ASSUME NEW i \in 1 .. n PROVE Values(G[i]) = w[i]
    <3>1. CASE i = n
      BY <1>12, <2>3, <3>1 DEF f
    <3>2. CASE i \in 1 .. n - 1
      BY <1>1, <2>3, <3>2
    <3>3. i = n \/ i \in 1 .. n - 1
      BY <1>6
    <3> QED BY <3>1, <3>2, <3>3
  <2> QED BY <1>14, <2>3, <2>4 DEF G
<1> QED BY <1>14, <1>15, <1>16, <1>17 DEF Stage, q, w

(* After the last frame the bytes hold whole, the loop is over.            *)
LEMMA LastFrame ==
    ASSUME NEW s \in DOMAIN Script, NEW x \in Seq(Byte), Begins(x, s), NEW n \in 0 .. Len(Script[s]),
           Len(Part(Script[s], n)) <= Len(x), NEW p, Stage(p, x, s, n),
           n < Len(Script[s]) => Len(x) < Len(Part(Script[s], n + 1))
    PROVE  ~CanStep(p)
<1> DEFINE w == Script[s]
           o == Len(Part(w, n))
           l == Len(x)
           y == SubSeq(x, o + 1, l)
<1>1. p \in Parser /\ p.rx = y
  BY DEF Stage
<1>2. l \in Nat /\ w \in Seq(Seq(Nat)) /\ l <= Len(Flat(w)) /\ Len(Flat(w)) \in Nat
  BY SessionBytes
<1>3. Len(w) \in Nat /\ o \in Nat /\ Part(w, Len(w)) = Flat(w)
  BY <1>2, PartNext DEF Flat
<1>4. CASE n = Len(w)
  <2>1. o = l
    <3>1. o = Len(Flat(w)) /\ o <= l
      BY <1>3, <1>4
    <3> HIDE DEF o, l
    <3> QED BY <1>2, <1>3, <3>1
  <2>2. Len(y) = 0
    <3> HIDE DEF y
    <3>1. o \in 0 .. Len(x)
      BY <1>2, <2>1
    <3> HIDE DEF o
    <3>2. Len(SubSeq(x, o + 1, Len(x))) = Len(x) - o
      BY <3>1, CutParts
    <3> QED BY <1>2, <2>1, <3>2 DEF y
  <2> QED BY <1>1, <2>2, StepShrinks
<1>5. CASE n # Len(w)
  <2> DEFINE f == w[n + 1]
             c == Len(Part(w, n + 1))
  <2>0. n + 1 \in 1 .. Len(w) /\ (n + 1) - 1 = n /\ n < Len(w)
    BY <1>3, <1>5
  <2>1. l < c
    BY <2>0
  <2>2. /\ f \in Seq(Nat) /\ IsFrame(f) /\ Len(f) \in Nat
        /\ y \in Seq(Byte) /\ Len(y) \in Nat /\ Len(y) = l - o
        /\ \A i \in 1 .. Len(y) : i <= Len(f) => y[i].v = f[i]
    <3> DEFINE m == n + 1
    <3>1. m \in 1 .. Len(w) /\ m - 1 = n
      BY <2>0
    <3> HIDE DEF m
    <3>2. Len(Part(w, m - 1)) <= Len(x)
      BY <3>1
    <3>3. LET g == w[m]
              z == SubSeq(x, Len(Part(w, m - 1)) + 1, Len(x))
          IN /\ g \in Seq(Nat) /\ IsFrame(g) /\ Len(g) \in Nat
             /\ z \in Seq(Byte) /\ Len(z) \in Nat /\ Len(z) = Len(x) - Len(Part(w, m - 1))
             /\ \A i \in 1 .. Len(z) : i <= Len(g) => z[i].v = g[i]
      BY <3>1, <3>2, RestIs
    <3> QED BY <3>1, <3>3 DEF m
  <2>3. c = o + Len(f)
    <3> DEFINE m == n + 1
    <3>1. m \in 1 .. Len(w) /\ m - 1 = n
      BY <2>0
    <3> HIDE DEF m
    <3>2. Len(Part(w, m)) = Len(Part(w, m - 1)) + Len(w[m])
      BY <1>2, <3>1, FrameStands
    <3> QED BY <3>1, <3>2 DEF m
  <2> HIDE DEF f, o, l, y, w, c
  <2>4. Len(y) < Len(f)
    <3>1. Len(y) = l - o /\ Len(f) \in Nat
      BY <2>2
    <3> QED BY <1>2, <1>3, <2>1, <2>3, <3>1
  <2>5. Len(f) >= 5 /\ f[1] = SOF /\ f[4] <= MAX_PAYLOAD /\ Len(f) = HEADER + f[4]
    BY <2>2 DEF IsFrame, HEADER
  <2>6. ~Enough(y)
    <3> SUFFICES ASSUME Enough(y) PROVE FALSE
      OBVIOUS
    <3>1. Len(y) >= 5 /\ Len(y) >= Takes(y)
      BY DEF Enough, HEADER
    <3>2. Len(f) \in Nat /\ Len(y) \in Nat
      BY <2>2
    <3>3. 1 \in 1 .. Len(y) /\ 4 \in 1 .. Len(y) /\ 1 <= Len(f) /\ 4 <= Len(f)
      BY <2>4, <3>1, <3>2
    <3>4. y[1].v = f[1] /\ y[4].v = f[4]
      BY <2>2, <3>3
    <3>5. Takes(y) = Len(f)
      BY <2>5, <3>4 DEF Takes
    <3> QED BY <2>4, <3>1, <3>2, <3>5
  <2> QED BY <1>1, <2>6, StepIs
<1> QED BY <1>4, <1>5

(* What bytes that begin a session give: the frames they hold whole.       *)
LEMMA SessionParses ==
    ASSUME NEW s \in DOMAIN Script, NEW x \in Seq(Byte), Begins(x, s)
    PROVE  LET got  == Batch(x).frames
               held == {n \in 0 .. Len(Script[s]) : Len(Flat(SubSeq(Script[s], 1, n))) <= Len(x)}
           IN [i \in DOMAIN got |-> Values(got[i])] = SubSeq(Script[s], 1, Cardinality(held) - 1)
<1> DEFINE w == Script[s]
           N == Len(w)
           l == Len(x)
           off(n) == Len(Part(w, n))
           got  == Batch(x).frames
           held == {n \in 0 .. N : Len(Flat(SubSeq(w, 1, n))) <= l}
           P == {n \in 0 .. N : off(n) <= l => \E p : Stage(p, x, s, n)}
<1>1. l \in Nat /\ w \in Seq(Seq(Nat))
  BY SessionBytes
<1>2. N \in Nat /\ \A n \in 0 .. N : off(n) \in Nat
  BY <1>1, PartNext
<1>3. \A n \in 1 .. N : off(n - 1) <= off(n)
  <2> SUFFICES ASSUME NEW n \in 1 .. N PROVE off(n - 1) <= off(n)
    OBVIOUS
  <2>1. off(n - 1) \in Nat /\ off(n) = off(n - 1) + Len(w[n]) /\ Len(w[n]) \in Nat
    BY <1>1, FrameStands
  <2> HIDE DEF off
  <2> QED BY <2>1
<1>4. held = {n \in 0 .. N : off(n) <= l}
  BY DEF Part, Flat
<1>5. 0 \in P
  <2> DEFINE p == Fresh(x)
             e == <<>>
  <2>1. p \in Parser /\ parseAvailableFrames(p) = Batch(x) /\ p.rx = x /\ p.frames = e
    BY BatchIs DEF Fresh
  <2>2. off(0) = 0
    <3>1. Part(w, 0) = <<>>
      BY <1>1, PartNext
    <3> QED BY <3>1
  <2>3. SubSeq(x, 0 + 1, l) = x
    <3>1. /\ SubSeq(x, 0 + 1, l) \in Seq(Byte) /\ Len(SubSeq(x, 0 + 1, l)) = l - 0
          /\ \A i \in 1 .. l - 0 : SubSeq(x, 0 + 1, l)[i] = x[0 + i]
      <4> DEFINE nil == 0
      <4>1. nil \in 0 .. l
        BY <1>1
      <4> HIDE DEF nil
      <4>2. /\ SubSeq(x, nil + 1, l) \in Seq(Byte) /\ Len(SubSeq(x, nil + 1, l)) = l - nil
            /\ \A i \in 1 .. l - nil : SubSeq(x, nil + 1, l)[i] = x[nil + i]
        BY <4>1, CutParts
      <4> QED BY <4>2 DEF nil
    <3> DEFINE z == SubSeq(x, 0 + 1, l)
    <3>2. l - 0 = l /\ \A i \in 1 .. l : 0 + i = i
      BY <1>1
    <3> HIDE DEF z
    <3>3. z \in Seq(Byte) /\ Len(z) = l /\ \A i \in 1 .. l : z[i] = x[i]
      BY <3>1, <3>2 DEF z
    <3>4. z = x
      BY <3>3, SeqEqual
    <3> QED BY <3>4 DEF z
  <2>4. Len(e) = 0
    BY EmptySeq
  <2> HIDE DEF p, e
  <2>5. Stage(p, x, s, 0)
    BY <2>1, <2>2, <2>3, <2>4 DEF Stage
  <2> QED BY <1>2, <2>5
<1>6. \A n \in 1 .. N : n - 1 \in P => n \in P
  <2> SUFFICES ASSUME NEW n \in 1 .. N, n - 1 \in P, off(n) <= l PROVE \E p : Stage(p, x, s, n)
    BY <1>2
  <2>1. off(n - 1) <= l
    <3>1. off(n - 1) <= off(n) /\ off(n - 1) \in Nat /\ off(n) \in Nat
      BY <1>2, <1>3
    <3> HIDE DEF off
    <3> QED BY <1>1, <3>1
  <2>2. PICK p : Stage(p, x, s, n - 1)
    BY <2>1
  <2> QED BY <2>2, NextFrame
<1> HIDE DEF off
<1> DEFINE Q == {n \in 0 .. N : (\A k \in 0 .. n : off(k) <= l)
                                \/ \E m \in 0 .. n - 1 : (\A k \in 0 .. m : off(k) <= l) /\ l < off(m + 1)}
<1>7. 0 \in P /\ 0 .. N \subseteq P
  <2> HIDE DEF P
  <2> QED BY <1>2, <1>5, <1>6, UpTo
<1>8. off(0) <= l
  <2>1. off(0) = 0
    <3>1. Part(w, 0) = <<>>
      BY <1>1, PartNext
    <3> QED BY <3>1 DEF off
  <2> QED BY <1>1, <2>1
<1>9. PICK m \in 0 .. N : (\A k \in 0 .. m : off(k) <= l) /\ (m < N => l < off(m + 1))
  <2>1. 0 \in Q
    BY <1>2, <1>8
  <2>2. \A n \in 1 .. N : n - 1 \in Q => n \in Q
    <3> SUFFICES ASSUME NEW n \in 1 .. N, n - 1 \in Q PROVE n \in Q
      OBVIOUS
    <3>1. CASE \A k \in 0 .. n - 1 : off(k) <= l
      <4>1. CASE off(n) <= l
        <5>1. \A k \in 0 .. n : k = n \/ k \in 0 .. n - 1
          BY <1>2
        <5> QED BY <1>2, <3>1, <4>1, <5>1
      <4>2. CASE ~(off(n) <= l)
        <5>1. off(n) \in Nat /\ n - 1 \in 0 .. n - 1 /\ (n - 1) + 1 = n
          BY <1>2
        <5>2. l < off((n - 1) + 1)
          BY <1>1, <4>2, <5>1
        <5>3. \E k \in 0 .. n - 1 : (\A j \in 0 .. k : off(j) <= l) /\ l < off(k + 1)
          BY <3>1, <5>1, <5>2
        <5>4. n \in 0 .. N
          BY <1>2
        <5> QED BY <5>3, <5>4
      <4> QED BY <4>1, <4>2
    <3>2. CASE \E k \in 0 .. (n - 1) - 1 : (\A j \in 0 .. k : off(j) <= l) /\ l < off(k + 1)
      <4>1. PICK k \in 0 .. (n - 1) - 1 : (\A j \in 0 .. k : off(j) <= l) /\ l < off(k + 1)
        BY <3>2
      <4>2. k \in 0 .. n - 1
        BY <1>2
      <4> QED BY <1>2, <4>1, <4>2
    <3> QED BY <3>1, <3>2
  <2>3. N \in Q
    <3> HIDE DEF Q, N
    <3>1. 0 .. N \subseteq Q
      BY <1>2, <2>1, <2>2, UpTo
    <3> QED BY <1>2, <3>1
  <2>4. CASE \A k \in 0 .. N : off(k) <= l
    BY <1>2, <2>4
  <2>5. CASE \E k \in 0 .. N - 1 : (\A j \in 0 .. k : off(j) <= l) /\ l < off(k + 1)
    <3>1. PICK k \in 0 .. N - 1 : (\A j \in 0 .. k : off(j) <= l) /\ l < off(k + 1)
      BY <2>5
    <3>2. k \in 0 .. N
      BY <1>2
    <3> QED BY <3>1, <3>2
  <2> QED BY <2>3, <2>4, <2>5
<1>10. held = 0 .. m
  <2> DEFINE B == {n \in 0 .. N : m < n => l < off(n)}
  <2>1. 0 \in B
    BY <1>2
  <2>2. \A n \in 1 .. N : n - 1 \in B => n \in B
    <3> SUFFICES ASSUME NEW n \in 1 .. N, n - 1 \in B, m < n PROVE l < off(n)
      BY <1>2
    <3>1. CASE n = m + 1
      BY <1>2, <1>9, <3>1
    <3>2. CASE n # m + 1
      <4>1. l < off(n - 1) /\ off(n - 1) <= off(n) /\ off(n - 1) \in Nat /\ off(n) \in Nat
        BY <1>2, <1>3, <3>2
      <4> QED BY <1>1, <4>1
    <3> QED BY <3>1, <3>2
  <2>3. 0 .. N \subseteq B
    <3> HIDE DEF B, N
    <3> QED BY <1>2, <2>1, <2>2, UpTo
  <2>4. ASSUME NEW n \in 0 .. N PROVE (off(n) <= l) <=> n \in 0 .. m
    <3>1. off(n) \in Nat /\ (m < n => l < off(n))
      BY <1>2, <2>3
    <3>2. CASE n \in 0 .. m
      BY <1>9, <3>2
    <3>3. CASE n \notin 0 .. m
      BY <1>1, <1>2, <3>1, <3>3
    <3> QED BY <3>2, <3>3
  <2>5. 0 .. m \subseteq 0 .. N
    BY <1>2
  <2> QED BY <1>4, <2>4, <2>5
<1>11. Cardinality(held) - 1 = m
  <2>1. Cardinality(0 .. m) = m - 0 + 1
    <3> DEFINE nil == 0
    <3>1. nil \in Int /\ m \in Int /\ nil <= m
      BY <1>2
    <3> HIDE DEF nil
    <3>2. Cardinality(nil .. m) = IF nil > m THEN 0 ELSE m - nil + 1
      BY <3>1, FS_Interval
    <3>3. ~(nil > m)
      BY <3>1
    <3> QED BY <3>2, <3>3 DEF nil
  <2> HIDE DEF held
  <2> QED BY <1>2, <1>10, <2>1
<1>12. off(m) <= l
  BY <1>2, <1>9
<1>13. PICK p : Stage(p, x, s, m)
  <2>1. m \in P
    BY <1>7
  <2> QED BY <1>12, <2>1
<1>14. ~CanStep(p)
  <2>1. off(m) = Len(Part(w, m)) /\ off(m + 1) = Len(Part(w, m + 1))
    BY DEF off
  <2> QED BY <1>9, <1>12, <1>13, <2>1, LastFrame
<1>15. Batch(x) = p
  BY <1>13, <1>14, ParseStep DEF Stage
<1>16. [i \in DOMAIN got |-> Values(got[i])] = SubSeq(w, 1, m)
  <2> DEFINE E == Seq(Nat)
             D == Seq(Byte)
             a == [i \in DOMAIN got |-> Values(got[i])]
             b == SubSeq(w, 1, m)
  <2>1. Len(got) = m /\ (\A i \in 1 .. m : Values(got[i]) = w[i]) /\ got \in Seq(D)
    BY <1>13, <1>15, ParserFields DEF Stage
  <2>2. w \in Seq(E)
    BY <1>1
  <2> HIDE DEF E, D, got
  <2>3. DOMAIN got = 1 .. m
    BY <2>1, LenProperties
  <2>4. b \in Seq(E) /\ Len(b) = m /\ \A i \in 1 .. m : b[i] = w[i] /\ w[i] \in E
    <3>1. \A i \in 1 .. N : w[i] \in E
      BY <2>2, ElementOfSeq
    <3>2. b \in Seq(E) /\ Len(b) = m /\ \A i \in 1 .. m : b[i] = w[i]
      BY <2>2, CutParts
    <3> QED BY <1>2, <3>1, <3>2
  <2> HIDE DEF w, b
  <2>5. \A i \in 1 .. m : a[i] = b[i] /\ b[i] \in E
    BY <2>1, <2>3, <2>4
  <2>6. a = [i \in 1 .. m |-> a[i]]
    BY <2>3
  <2> HIDE DEF a
  <2>7. a \in [1 .. m -> E]
    BY <2>5, <2>6
  <2>8. a \in Seq(E) /\ Len(a) = m
    BY <1>2, <2>7, MadeSeq
  <2> QED BY <2>4, <2>5, <2>8, SeqEqual DEF a, b
<1> HIDE DEF held, got, w
<1>17. [i \in DOMAIN got |-> Values(got[i])] = SubSeq(w, 1, Cardinality(held) - 1)
  BY <1>11, <1>16
<1> QED BY <1>17 DEF held, got, w, N, l

LEMMA BytesAreScripted ==
    ASSUME StreamInv
    PROVE  FramesAreTheTargets
<1> SUFFICES ASSUME NEW e \in DOMAIN fed, fed[e] # <<>>, fed[e][1].s # 0,
                    \A i \in DOMAIN fed[e] : fed[e][i].s = fed[e][1].s /\ fed[e][i].n = i
             PROVE  LET got   == Batch(fed[e]).frames
                        whole == Script[fed[e][1].s]
                        held  == {n \in 0..Len(whole) : Len(Flat(SubSeq(whole, 1, n))) <= Len(fed[e])}
                    IN [i \in DOMAIN got |-> Values(got[i])] = SubSeq(whole, 1, Cardinality(held) - 1)
  BY DEF FramesAreTheTargets
<1> DEFINE x == fed[e]
           s == x[1].s
<1>1. x \in Seq(Byte)
  <2> DEFINE E == Seq(Byte)
  <2>1. fed \in Seq(E)
    BY DEF StreamInv, Balanced, Views, View, Fed
  <2> HIDE DEF E
  <2>2. e \in 1 .. Len(fed)
    BY <2>1, LenProperties
  <2>3. fed[e] \in E
    BY <2>1, <2>2, ElementOfSeq
  <2> QED BY <2>3 DEF E
<1>2. DOMAIN x = 1 .. Len(x) /\ Len(x) \in Nat /\ Len(x) # 0
  BY <1>1, LenProperties, EmptySeq
<1>3. s \in DOMAIN Script
  <2>1. x[1] \in Byte /\ s # 0
    BY <1>1, <1>2, ElementOfSeq
  <2> QED BY <2>1 DEF Byte, Scripted
<1>4. \A i \in 1 .. Len(x) : x[i].s = s /\ x[i].n = i
  BY <1>2
<1> HIDE DEF x
<1>5. Begins(x, s)
  BY <1>4 DEF Begins
<1> HIDE DEF s
<1>6. LET got  == Batch(x).frames
          held == {n \in 0 .. Len(Script[s]) : Len(Flat(SubSeq(Script[s], 1, n))) <= Len(x)}
      IN [i \in DOMAIN got |-> Values(got[i])] = SubSeq(Script[s], 1, Cardinality(held) - 1)
  BY <1>1, <1>3, <1>5, SessionParses
<1> QED BY <1>6 DEF x, s

(* FramesAreTheTargets, of every script whose frames are the packetizer's: *)
(* a reader that has a session from its start has the frames of the target.*)
THEOREM FramesAreFound == Spec => []FramesAreTheTargets
<1>1. Init => StreamInv
  BY StreamInit
<1>2. StreamInv /\ [Next]_vars => StreamInv'
  BY StreamStep
<1>3. StreamInv => FramesAreTheTargets
  BY BytesAreScripted
<1> QED BY <1>1, <1>2, <1>3, PTL DEF Spec

-----------------------------------------------------------------------------
(* How far the reader has come in what the target sends.                   *)

Position     == [s : Nat, n : Nat]
AtMost(a, b) == a.s < b.s \/ (a.s = b.s /\ a.n <= b.n)
Before(a, b) == a.s < b.s \/ (a.s = b.s /\ a.n < b.n)

LEMMA AtMostLinks ==
    ASSUME NEW a \in Position, NEW b \in Position, NEW c \in Position
    PROVE  /\ AtMost(a, a) /\ (AtMost(a, b) /\ AtMost(b, c) => AtMost(a, c))
           /\ (AtMost(a, b) /\ Before(b, c) => Before(a, c))
  BY DEF Position, AtMost, Before

(* Bytes of one session of the target and of no other.                     *)
OneSession(f)  == \A j, k \in DOMAIN f : f[j].s # 0 /\ f[k].s # 0 => f[j].s = f[k].s
OnlyOf(x, s)   == \A i \in DOMAIN x : x[i].s # 0 => x[i].s = s
Unmixed(p, s)  == OnlyOf(p.rx, s) /\ \A i \in DOMAIN p.frames : OneSession(p.frames[i])

LEMMA CutOf ==
    ASSUME NEW x \in Seq(Byte), NEW s, OnlyOf(x, s), NEW t \in 0 .. Len(x)
    PROVE  OnlyOf(SubSeq(x, 1, t), s) /\ OnlyOf(SubSeq(x, t + 1, Len(x)), s) /\ OneSession(SubSeq(x, 1, t))
<1> DEFINE a == SubSeq(x, 1, t)
           b == SubSeq(x, t + 1, Len(x))
           l == Len(x)
<1>1. l \in Nat /\ DOMAIN x = 1 .. l
  BY LenProperties
<1>2. /\ a \in Seq(Byte) /\ Len(a) = t /\ \A i \in 1 .. t : a[i] = x[i]
      /\ b \in Seq(Byte) /\ Len(b) = l - t /\ \A i \in 1 .. l - t : b[i] = x[t + i]
  BY CutParts
<1> HIDE DEF a, b, l
<1>3. DOMAIN a = 1 .. t /\ DOMAIN b = 1 .. l - t
  BY <1>2, LenProperties
<1>4. t \in 0 .. l
  BY DEF l
<1>5. OnlyOf(a, s)
  <2>1. \A i \in 1 .. t : i \in 1 .. l
    BY <1>1, <1>4
  <2> QED BY <1>1, <1>2, <1>3, <2>1 DEF OnlyOf
<1>6. OnlyOf(b, s)
  <2> SUFFICES ASSUME NEW i \in 1 .. l - t, b[i].s # 0 PROVE b[i].s = s
    BY <1>3 DEF OnlyOf
  <2>1. t + i \in DOMAIN x
    BY <1>1, <1>4
  <2>2. b[i] = x[t + i]
    BY <1>2
  <2> QED BY <2>1, <2>2 DEF OnlyOf
<1>7. OneSession(a)
  BY <1>5 DEF OnlyOf, OneSession
<1> QED BY <1>5, <1>6, <1>7 DEF a, b, l

LEMMA StepUnmixed ==
    ASSUME NEW p \in Parser, CanStep(p), NEW s, Unmixed(p, s)
    PROVE  Unmixed(Step(p), s)
<1> DEFINE x == p.rx
           t == Takes(x)
           q == Step(p)
           F == p.frames
           E == Seq(Byte)
           raw == SubSeq(x, 1, t)
           R == SubSeq(x, t + 1, Len(x))
           D == p.drops + (IF x[1].v = SOF /\ x[4].v <= MAX_PAYLOAD THEN 0 ELSE 1)
           B == p.bad + (IF x[1].v = SOF /\ x[4].v <= MAX_PAYLOAD /\ ~Holds(x) THEN t ELSE 0)
           G == IF Holds(x) THEN Append(F, raw) ELSE F
<1>1. t \in 1 .. Len(x) /\ q = [rx |-> R, frames |-> G, drops |-> D, bad |-> B]
  BY StepIs
<1>2. x \in Seq(Byte) /\ F \in Seq(E) /\ Len(x) \in Nat
  BY ParserFields
<1>3. OnlyOf(x, s) /\ \A i \in DOMAIN F : OneSession(F[i])
  BY DEF Unmixed
<1> HIDE DEF x, t, q, F, D, B, E
<1>4. q.rx = R /\ q.frames = G
  <2> HIDE DEF R, G
  <2> QED BY <1>1
<1>5. OnlyOf(R, s) /\ OneSession(raw) /\ raw \in E
  <2>1. t \in 0 .. Len(x)
    BY <1>1, <1>2
  <2> QED BY <1>2, <1>3, <2>1, CutOf, CutParts DEF E
<1> HIDE DEF R, raw
<1>6. \A i \in DOMAIN G : OneSession(G[i])
  <2>1. CASE ~Holds(x)
    BY <1>3, <2>1
  <2>2. CASE Holds(x)
    <3> DEFINE A == Append(F, raw)
    <3>1. /\ A \in Seq(E) /\ Len(A) = Len(F) + 1 /\ A[Len(F) + 1] = raw /\ \A i \in 1 .. Len(F) : A[i] = F[i]
          /\ Len(F) \in Nat /\ DOMAIN F = 1 .. Len(F)
      BY <1>2, <1>5, AppendProperties, LenProperties
    <3> HIDE DEF A
    <3>2. DOMAIN A = 1 .. Len(F) + 1
      BY <3>1, LenProperties
    <3>3. ASSUME NEW i \in DOMAIN A PROVE OneSession(A[i])
      <4>1. i = Len(F) + 1 \/ i \in 1 .. Len(F)
        BY <3>1, <3>2
      <4>2. CASE i = Len(F) + 1
        BY <1>5, <3>1, <4>2
      <4>3. CASE i \in 1 .. Len(F)
        BY <1>3, <3>1, <4>3
      <4> QED BY <4>1, <4>2, <4>3
    <3>4. G = A
      BY <2>2 DEF A
    <3> QED BY <3>3, <3>4
  <2> QED BY <2>1, <2>2
<1> QED BY <1>4, <1>5, <1>6 DEF Unmixed, q

LEMMA ParseUnmixed ==
    ASSUME NEW p \in Parser, NEW s, Unmixed(p, s)
    PROVE  Unmixed(parseAvailableFrames(p), s)
<1> DEFINE G == {q \in Parser : Unmixed(q, s) => Unmixed(parseAvailableFrames(q), s)}
<1>1. ASSUME NEW q \in Parser, CanStep(q) => Step(q) \in G PROVE q \in G
  <2> SUFFICES ASSUME Unmixed(q, s) PROVE Unmixed(parseAvailableFrames(q), s)
    OBVIOUS
  <2>1. CASE CanStep(q)
    <3>1. Unmixed(Step(q), s)
      BY <2>1, StepUnmixed
    <3>2. parseAvailableFrames(q) = parseAvailableFrames(Step(q))
      BY <2>1, ParseStep
    <3> QED BY <1>1, <2>1, <3>1, <3>2
  <2>2. CASE ~CanStep(q)
    BY <2>2, ParseStep
  <2> QED BY <2>1, <2>2
<1> HIDE DEF G
<1>2. p \in G
  BY <1>1, EveryParser
<1> QED BY <1>2 DEF G

LEMMA FeedUnmixed ==
    ASSUME NEW p \in Parser, NEW y \in Seq(Byte), NEW s, Unmixed(p, s), OnlyOf(y, s)
    PROVE  Unmixed(Feed(p, y), s)
<1> DEFINE x == p.rx
           z == x \o y
           q == Ctx(p, y, <<>>, 0, 0)
<1>1. x \in Seq(Byte) /\ OnlyOf(x, s) /\ \A i \in DOMAIN p.frames : OneSession(p.frames[i])
  BY ParserFields DEF Unmixed
<1>2. /\ z \in Seq(Byte) /\ Len(z) = Len(x) + Len(y) /\ Len(x) \in Nat /\ Len(y) \in Nat
      /\ DOMAIN x = 1 .. Len(x) /\ DOMAIN y = 1 .. Len(y)
      /\ \A i \in 1 .. Len(x) + Len(y) : z[i] = IF i <= Len(x) THEN x[i] ELSE y[i - Len(x)]
  BY <1>1, ConcatProperties, LenProperties
<1>3. /\ q = [rx |-> z, frames |-> p.frames, drops |-> p.drops, bad |-> p.bad]
      /\ q \in Parser /\ Feed(p, y) = parseAvailableFrames(q)
  BY FeedIs
<1> HIDE DEF z, x, q
<1>4. OnlyOf(z, s)
  <2> SUFFICES ASSUME NEW i \in DOMAIN z, z[i].s # 0 PROVE z[i].s = s
    BY DEF OnlyOf
  <2>1. i \in 1 .. Len(x) + Len(y)
    BY <1>2, LenProperties
  <2>2. CASE i <= Len(x)
    <3>1. i \in DOMAIN x /\ z[i] = x[i]
      BY <1>2, <2>1, <2>2
    <3> QED BY <1>1, <3>1 DEF OnlyOf
  <2>3. CASE ~(i <= Len(x))
    <3>1. i - Len(x) \in DOMAIN y /\ z[i] = y[i - Len(x)]
      BY <1>2, <2>1, <2>3
    <3> QED BY <3>1 DEF OnlyOf
  <2> QED BY <2>2, <2>3
<1>5. Unmixed(q, s)
  BY <1>1, <1>3, <1>4 DEF Unmixed
<1> QED BY <1>3, <1>5, ParseUnmixed

-----------------------------------------------------------------------------
(* The bytes fed so far, all together.                                     *)

LEMMA AllLonger ==
    ASSUME NEW fd \in Fed, NEW y \in Seq(Byte)
    PROVE  /\ FlattenSeq(fd) \in Seq(Byte)
           /\ FlattenSeq(Longer(fd, y)) = FlattenSeq(fd) \o y
           /\ FlattenSeq(Append(fd, <<>>)) = FlattenSeq(fd)
<1> DEFINE e == <<>>
<1>1. PICK g \in Seq(Seq(Byte)), x \in Seq(Byte) :
              /\ fd = Append(g, x)
              /\ \A z \in Seq(Byte) : Longer(fd, z) = Append(g, x \o z) /\ x \o z \in Seq(Byte)
  BY FedParts
<1>2. Longer(fd, y) = Append(g, x \o y) /\ x \o y \in Seq(Byte)
  BY <1>1
<1>3. fd \in Seq(Seq(Byte)) /\ e \in Seq(Byte)
  BY EmptySeq DEF Fed
<1>4. FlattenSeq(fd) \in Seq(Byte) /\ FlattenSeq(g) \in Seq(Byte) /\ FlattenSeq(fd) = FlattenSeq(g) \o x
  BY <1>1, <1>3, FlattenAppend
<1> DEFINE z == x \o y
<1>5. FlattenSeq(Append(g, z)) = FlattenSeq(g) \o z
  <2> HIDE DEF z
  <2> QED BY <1>2, FlattenAppend DEF z
<1>6. FlattenSeq(g) \o (x \o y) = (FlattenSeq(g) \o x) \o y
  BY <1>4, ConcatAssociative
<1>7. FlattenSeq(Append(fd, e)) = FlattenSeq(fd) \o e
  <2> HIDE DEF e
  <2> QED BY <1>3, FlattenAppend
<1>8. FlattenSeq(fd) \o e = FlattenSeq(fd)
  BY <1>4, ConcatEmptySeq
<1> QED BY <1>2, <1>4, <1>5, <1>6, <1>7, <1>8

(* Bytes of the target in the order they were sent, up to a position.      *)
Onward(x) == \A i, j \in DOMAIN x : i < j /\ x[i].s # 0 /\ x[j].s # 0 => Before(x[i], x[j])
Until(x, a) == \A i \in DOMAIN x : x[i].s # 0 => AtMost(x[i], a)

(* What a record holds, for a reader at position a: b is the position      *)
(* behind it.                                                              *)
Follows(y, a, b) ==
    \A j \in DOMAIN y : /\ y[j].s = a.s /\ a.n < y[j].n /\ y[j].n <= b.n
                        /\ \A i \in DOMAIN y : i < j => y[i].n < y[j].n

Carries(r, a, b) ==
    /\ AtMost(a, b)
    /\ r.kind # "DATA" => b.s = r.session
    /\ r.kind = "DATA" => b.s = a.s /\ Follows(r.bytes, a, b)

LEMMA OnwardLonger ==
    ASSUME NEW x \in Seq(Byte), NEW y \in Seq(Byte), NEW a \in Position, NEW b \in Position,
           Onward(x), Until(x, a), AtMost(a, b),
           (b.s = a.s /\ Follows(y, a, b)) \/ OnlyOf(y, 0)
    PROVE  Onward(x \o y) /\ Until(x \o y, b)
<1> DEFINE z == x \o y
           l == Len(x)
<1>1. /\ z \in Seq(Byte) /\ Len(z) = l + Len(y) /\ l \in Nat /\ Len(y) \in Nat
      /\ DOMAIN x = 1 .. l /\ DOMAIN y = 1 .. Len(y)
      /\ (\A i \in 1 .. l : x[i] \in Byte) /\ \A i \in 1 .. Len(y) : y[i] \in Byte
      /\ \A i \in 1 .. l + Len(y) : z[i] = IF i <= l THEN x[i] ELSE y[i - l]
  BY ConcatProperties, LenProperties, ElementOfSeq
<1> HIDE DEF z, l
<1>2. DOMAIN z = 1 .. l + Len(y)
  BY <1>1, LenProperties
<1>3. ASSUME NEW i \in DOMAIN z, z[i].s # 0
      PROVE  \/ i <= l /\ i \in DOMAIN x /\ z[i] = x[i] /\ AtMost(z[i], a)
             \/ /\ i > l /\ i - l \in DOMAIN y /\ z[i] = y[i - l]
                /\ b.s = a.s /\ Follows(y, a, b)
  <2>1. CASE i <= l
    <3>1. i \in DOMAIN x /\ z[i] = x[i]
      BY <1>1, <1>2, <2>1
    <3> QED BY <1>3, <2>1, <3>1 DEF Until
  <2>2. CASE ~(i <= l)
    <3>1. i - l \in DOMAIN y /\ z[i] = y[i - l] /\ i > l
      BY <1>1, <1>2, <2>2
    <3>2. ~OnlyOf(y, 0)
      BY <1>3, <3>1 DEF OnlyOf
    <3> QED BY <3>1, <3>2
  <2> QED BY <2>1, <2>2
<1>4. \A i \in DOMAIN z : z[i] \in Byte /\ z[i].s \in Nat /\ z[i].n \in Nat
  <2>1. \A i \in DOMAIN z : z[i] \in Byte
    BY <1>1, <1>2, ElementOfSeq
  <2> QED BY <2>1 DEF Byte
<1>5. a.s \in Nat /\ a.n \in Nat /\ b.s \in Nat /\ b.n \in Nat
  BY DEF Position
<1>6. Until(z, b)
  <2> SUFFICES ASSUME NEW i \in DOMAIN z, z[i].s # 0 PROVE AtMost(z[i], b)
    BY DEF Until
  <2>1. CASE AtMost(z[i], a)
    BY <1>4, <1>5, <2>1 DEF AtMost
  <2>2. CASE i > l /\ i - l \in DOMAIN y /\ z[i] = y[i - l] /\ b.s = a.s /\ Follows(y, a, b)
    BY <2>2 DEF AtMost, Follows
  <2> QED BY <1>3, <2>1, <2>2
<1>7. Onward(z)
  <2> SUFFICES ASSUME NEW i \in DOMAIN z, NEW j \in DOMAIN z, i < j, z[i].s # 0, z[j].s # 0
               PROVE  Before(z[i], z[j])
    BY DEF Onward
  <2>0. i \in Nat /\ j \in Nat
    BY <1>1, <1>2
  <2>1. CASE i <= l /\ i \in DOMAIN x /\ z[i] = x[i] /\ AtMost(z[i], a)
    <3>1. CASE j <= l /\ j \in DOMAIN x /\ z[j] = x[j] /\ AtMost(z[j], a)
      BY <2>1, <3>1 DEF Onward
    <3>2. CASE j > l /\ j - l \in DOMAIN y /\ z[j] = y[j - l] /\ b.s = a.s /\ Follows(y, a, b)
      <4>1. z[j].s = a.s /\ a.n < z[j].n
        BY <3>2 DEF Follows
      <4> QED BY <1>4, <1>5, <2>1, <4>1 DEF AtMost, Before
    <3> QED BY <1>3, <3>1, <3>2
  <2>2. CASE i > l /\ i - l \in DOMAIN y /\ z[i] = y[i - l] /\ b.s = a.s /\ Follows(y, a, b)
    <3>1. j > l
      BY <1>1, <2>0, <2>2
    <3>2. j - l \in DOMAIN y /\ z[j] = y[j - l]
      BY <1>1, <1>3, <2>0, <3>1
    <3>3. i - l < j - l
      BY <1>1, <2>0
    <3>4. z[i].s = a.s /\ z[j].s = a.s /\ z[i].n < z[j].n
      BY <2>2, <3>2, <3>3 DEF Follows
    <3> QED BY <3>4 DEF Before
  <2> QED BY <1>3, <2>1, <2>2
<1> QED BY <1>6, <1>7 DEF z

(* A reader at position a: the session it knows is that of a, what is left *)
(* in the parser and every frame are of one session, and the bytes fed to  *)
(* it came in order and no further than a.                                 *)
Reader(v, a) ==
    /\ a.s = v.sessionId
    /\ Unmixed(v.parser, v.sessionId)
    /\ Onward(FlattenSeq(v.fed)) /\ Until(FlattenSeq(v.fed), a)

LEMMA TakeReads ==
    ASSUME NEW v \in Views, NEW y \in Seq(Byte), NEW a \in Position, NEW b \in Position,
           Reader(v, a), AtMost(a, b), b.s = a.s, Follows(y, a, b) \/ OnlyOf(y, 0)
    PROVE  LET u == [parser |-> Feed(v.parser, y), sessionId |-> v.sessionId, fed |-> Longer(v.fed, y)]
           IN Reader(u, b)
<1> DEFINE p == Feed(v.parser, y)
           f == Longer(v.fed, y)
           s == v.sessionId
           u == [parser |-> p, sessionId |-> s, fed |-> f]
           x == FlattenSeq(v.fed)
<1>1. v.parser \in Parser /\ v.fed \in Fed
  BY DEF Views
<1>2. x \in Seq(Byte) /\ FlattenSeq(f) = x \o y
  BY <1>1, AllLonger
<1>3. Onward(x) /\ Until(x, a) /\ a.s = s /\ Unmixed(v.parser, s)
  BY DEF Reader
<1>4. OnlyOf(y, s)
  BY <1>3 DEF OnlyOf, Follows
<1>5. Unmixed(p, s)
  BY <1>1, <1>3, <1>4, FeedUnmixed
<1> HIDE DEF p, f, s, x
<1>6. Onward(x \o y) /\ Until(x \o y, b)
  BY <1>2, <1>3, OnwardLonger
<1>7. u.parser = p /\ u.sessionId = s /\ u.fed = f
  OBVIOUS
<1> HIDE DEF u
<1>8. Reader(u, b)
  BY <1>2, <1>3, <1>5, <1>6, <1>7 DEF Reader
<1> QED BY <1>8 DEF u, p, f, s

LEMMA ConsumeReads ==
    ASSUME NEW v \in Views, NEW r \in Record, NEW a \in Position, NEW b \in Position,
           Reader(v, a), Carries(r, a, b)
    PROVE  Reader(consumeBridgeRecord(v, r), b)
<1> DEFINE u == consumeBridgeRecord(v, r)
           p == v.parser
           x == FlattenSeq(v.fed)
           e == <<>>
<1>1. p \in Parser /\ v.fed \in Fed /\ v.sessionId \in Nat
  BY DEF Views
<1>2. x \in Seq(Byte) /\ FlattenSeq(Append(v.fed, e)) = x
  <2>1. e \in Seq(Byte)
    BY EmptySeq
  <2> QED BY <1>1, <2>1, AllLonger
<1>3. Onward(x) /\ Until(x, a) /\ a.s = v.sessionId /\ Unmixed(p, v.sessionId)
  BY DEF Reader
<1>4. AtMost(a, b)
  BY DEF Carries
<1>5. Until(x, b)
  <2> SUFFICES ASSUME NEW i \in DOMAIN x, x[i].s # 0 PROVE AtMost(x[i], b)
    BY DEF Until
  <2>1. x[i] \in Byte
    <3> HIDE DEF x
    <3>1. i \in 1 .. Len(x)
      BY <1>2, LenProperties
    <3> QED BY <1>2, <3>1, ElementOfSeq
  <2>2. x[i].s \in Nat /\ x[i].n \in Nat /\ AtMost(x[i], a)
    BY <1>3, <2>1 DEF Byte, Until
  <2> HIDE DEF x
  <2> QED BY <1>4, <2>2 DEF AtMost, Position
<1> HIDE DEF u
<1>6. CASE r.kind = "DATA"
  <2>1. u = [parser |-> Feed(v.parser, r.bytes), sessionId |-> v.sessionId, fed |-> Longer(v.fed, r.bytes)]
    BY <1>6, ConsumeIs DEF u
  <2>2. r.bytes \in Seq(Byte) /\ b.s = a.s /\ Follows(r.bytes, a, b)
    BY <1>6, RecordKinds DEF Carries
  <2> QED BY <1>4, <2>1, <2>2, TakeReads DEF u
<1>7. CASE r.kind # "DATA" /\ ~Resyncs(v, r)
  <2>1. u.parser = p /\ u.sessionId = r.session /\ u.fed = v.fed
    BY <1>7, ConsumeIs DEF u
  <2>2. b.s = r.session
    BY <1>7 DEF Carries
  <2>3. v.sessionId \in {0, r.session}
    BY <1>7, RecordKinds DEF Resyncs, Unknown
  <2>4. Unmixed(p, r.session)
    BY <1>3, <2>3 DEF Unmixed, OnlyOf
  <2> QED BY <1>3, <1>5, <2>1, <2>2, <2>4 DEF Reader, u
<1>8. CASE r.kind # "DATA" /\ Resyncs(v, r)
  <2> DEFINE q == [rx |-> e, frames |-> p.frames, drops |-> p.drops, bad |-> p.bad]
             g == Append(v.fed, e)
  <2>1. u = [parser |-> q, sessionId |-> r.session, fed |-> g]
    BY <1>8, ConsumeIs DEF u
  <2>2. b.s = r.session
    BY <1>8 DEF Carries
  <2>3. OnlyOf(e, r.session) /\ q.rx = e /\ q.frames = p.frames
    BY DEF OnlyOf
  <2> HIDE DEF q, g
  <2>4. Unmixed(q, r.session)
    BY <1>3, <2>3 DEF Unmixed
  <2>5. u.parser = q /\ u.sessionId = r.session /\ u.fed = g
    BY <2>1
  <2>6. FlattenSeq(u.fed) = x
    BY <1>2, <2>5 DEF g
  <2>7. Reader(u, b)
    BY <1>3, <1>5, <2>2, <2>4, <2>5, <2>6 DEF Reader
  <2> QED BY <2>7 DEF u
<1> QED BY <1>6, <1>7, <1>8 DEF u

-----------------------------------------------------------------------------
(* Records that take a reader from one position to another.                *)

Path(tr, recs, z) ==
    /\ tr \in [0 .. Len(recs) -> Position] /\ tr[Len(recs)] = z
    /\ \A i \in 1 .. Len(recs) : Carries(recs[i], tr[i - 1], tr[i])
    /\ \A i \in 0 .. Len(recs) : AtMost(tr[i], z)

Even(m)       == \E n \in Nat : Len(m) = 2 * n
Onto(a, m, z) == Even(m) /\ \E tr : tr[0] = a /\ Path(tr, Records(m), z)

LEMMA PathReads ==
    ASSUME NEW v \in Views, NEW recs \in Seq(Record), NEW rs \in Seq(Record), Len(rs) <= Len(recs),
           \A i \in 1 .. Len(rs) : rs[i] = recs[i],
           NEW z, NEW tr, Path(tr, recs, z), Reader(v, tr[0])
    PROVE  Reader(FoldLeft(consumeBridgeRecord, v, rs), tr[Len(rs)])
<1> DEFINE n == Len(rs)
           N == Len(recs)
<1>1. PICK h : Chain(h, v, rs) /\ FoldLeft(consumeBridgeRecord, v, rs) = h[n]
  BY RecordByRecord
<1>2. n \in Nat /\ N \in Nat /\ n <= N /\ \A k \in 1 .. n : rs[k] \in Record
  BY LenProperties, ElementOfSeq
<1> DEFINE P == {k \in 0 .. n : Reader(h[k], tr[k])}
<1>3. 0 \in P
  BY <1>1, <1>2 DEF Chain
<1>4. \A k \in 1 .. n : k - 1 \in P => k \in P
  <2> SUFFICES ASSUME NEW k \in 1 .. n, Reader(h[k - 1], tr[k - 1]) PROVE Reader(h[k], tr[k])
    BY <1>2
  <2>1. k - 1 \in 0 .. n /\ k \in 1 .. N /\ k - 1 \in 0 .. N /\ k \in 0 .. N
    BY <1>2
  <2>2. h[k - 1] \in Views /\ h[k] = consumeBridgeRecord(h[k - 1], rs[k])
    BY <1>1, <2>1 DEF Chain
  <2>3. Carries(rs[k], tr[k - 1], tr[k]) /\ tr[k - 1] \in Position /\ tr[k] \in Position
    BY <2>1 DEF Path
  <2> QED BY <1>2, <2>2, <2>3, ConsumeReads
<1>5. n \in P
  <2> HIDE DEF P, n
  <2>1. 0 .. n \subseteq P
    BY <1>2, <1>3, <1>4, UpTo
  <2> QED BY <1>2, <2>1
<1> QED BY <1>1, <1>5

LEMMA NoRecords ==
    ASSUME NEW a \in Position
    PROVE  Onto(a, <<>>, a)
<1> DEFINE m == <<>>
           tr == [i \in 0 .. 0 |-> a]
<1>1. m \in Seq(Half) /\ Len(m) = 0
  BY EmptySeq
<1> HIDE DEF m
<1>2. Len(Records(m)) = 0
  <2>1. Len(m) \div 2 = 0
    BY <1>1
  <2> QED BY <1>1, <2>1, RecordsAre
<1>3. tr \in [0 .. 0 -> Position] /\ tr[0] = a /\ AtMost(a, a)
  BY AtMostLinks
<1> HIDE DEF tr
<1>4. Path(tr, Records(m), a)
  BY <1>2, <1>3 DEF Path
<1>5. Even(m)
  BY <1>1 DEF Even
<1> QED BY <1>3, <1>4, <1>5 DEF Onto, m

LEMMA OneMore ==
    ASSUME NEW m \in Seq(Half), NEW a, NEW z \in Position, NEW y \in Position, NEW r \in Record,
           Onto(a, m, z), Carries(r, z, y)
    PROVE  Onto(a, m \o Halves(r), y)
<1> DEFINE w == m \o Halves(r)
           two == Halves(r)
           R == Records(m)
           S == Records(w)
<1>0. PICK n \in Nat : Len(m) = 2 * n /\ \E tr : tr[0] = a /\ Path(tr, R, z)
  BY DEF Onto, Even
<1>1. PICK tr : Len(m) = 2 * n /\ tr[0] = a /\ Path(tr, R, z)
  BY <1>0
<1>2. two \in Seq(Half) /\ Len(two) = 2 /\ two[2].record = r
  <2>1. /\ Halves(r) \in Seq(Half) /\ Len(Halves(r)) = 2
        /\ Halves(r)[2] = [first |-> FALSE, record |-> r]
    BY HalvesAre
  <2> HIDE DEF two
  <2>2. two = Halves(r)
    BY DEF two
  <2> QED BY <2>1, <2>2
<1> HIDE DEF two
<1>3. /\ w \in Seq(Half) /\ Len(w) = 2 * n + 2
      /\ \A i \in 1 .. 2 * n : w[i] = m[i]
      /\ w[2 * n + 2] = two[2]
  <2> DEFINE c == m \o two
  <2>1. /\ c \in Seq(Half) /\ Len(c) = Len(m) + 2
        /\ \A i \in 1 .. Len(m) + 2 : c[i] = IF i <= Len(m) THEN m[i] ELSE two[i - Len(m)]
    <3>1. /\ c \in Seq(Half) /\ Len(c) = Len(m) + Len(two)
          /\ \A i \in 1 .. Len(m) + Len(two) : c[i] = IF i <= Len(m) THEN m[i] ELSE two[i - Len(m)]
      BY <1>2, ConcatProperties
    <3> HIDE DEF c
    <3> QED BY <1>2, <3>1
  <2>2. w = c
    BY DEF two
  <2> HIDE DEF c, w
  <2>3. Len(m) = 2 * n
    BY <1>1
  <2> DEFINE d == 2 * n
  <2>4. d \in Nat
    OBVIOUS
  <2>5. Len(c) = d + 2 /\ \A i \in 1 .. d + 2 : c[i] = IF i <= d THEN m[i] ELSE two[i - d]
    BY <2>1, <2>3
  <2> HIDE DEF d
  <2>6. (\A i \in 1 .. d : c[i] = m[i]) /\ c[d + 2] = two[2]
    <3>1. d + 2 \in 1 .. d + 2 /\ ~(d + 2 <= d) /\ (d + 2) - d = 2
      BY <2>4
    <3>2. \A i \in 1 .. d : i \in 1 .. d + 2 /\ i <= d
      BY <2>4
    <3> QED BY <2>5, <3>1, <3>2
  <2> QED BY <2>1, <2>2, <2>5, <2>6 DEF d
<1> HIDE DEF w
<1>4. Len(m) \div 2 = n /\ Len(w) \div 2 = n + 1 /\ Len(w) = 2 * (n + 1)
  <2>1. Len(m) = 2 * n /\ Len(w) = 2 * n + 2
    BY <1>1, <1>3
  <2>2. (2 * n) \div 2 = n /\ (2 * n + 2) \div 2 = n + 1 /\ 2 * n + 2 = 2 * (n + 1)
    OBVIOUS
  <2> QED BY <2>1, <2>2
<1>5. /\ R \in Seq(Record) /\ Len(R) = n /\ \A i \in 1 .. n : R[i] = m[2 * i].record
      /\ S \in Seq(Record) /\ Len(S) = n + 1 /\ \A i \in 1 .. n + 1 : S[i] = w[2 * i].record
  BY <1>3, <1>4, RecordsAre
<1> HIDE DEF R, S
<1>6. (\A i \in 1 .. n : S[i] = R[i]) /\ S[n + 1] = r
  <2>1. \A i \in 1 .. n : 2 * i \in 1 .. 2 * n /\ i \in 1 .. n + 1
    OBVIOUS
  <2>2. n + 1 \in 1 .. n + 1 /\ 2 * (n + 1) = 2 * n + 2
    OBVIOUS
  <2>3. ASSUME NEW i \in 1 .. n PROVE S[i] = R[i]
    BY <1>3, <1>5, <2>1
  <2>4. S[n + 1] = r
    <3>1. S[n + 1] = w[2 * (n + 1)].record
      BY <1>5, <2>2
    <3> QED BY <1>2, <1>3, <2>2, <3>1
  <2> QED BY <2>3, <2>4
<1> DEFINE t == [i \in 0 .. n + 1 |-> IF i <= n THEN tr[i] ELSE y]
<1>7. /\ tr \in [0 .. n -> Position] /\ tr[n] = z
      /\ \A i \in 1 .. n : Carries(R[i], tr[i - 1], tr[i])
      /\ \A i \in 0 .. n : AtMost(tr[i], z)
  BY <1>1, <1>5 DEF Path
<1>8. /\ t \in [0 .. n + 1 -> Position] /\ t[n + 1] = y /\ \A i \in 0 .. n : t[i] = tr[i]
  <2>1. \A i \in 0 .. n + 1 : i <= n => i \in 0 .. n
    OBVIOUS
  <2>2. n + 1 \in 0 .. n + 1 /\ ~(n + 1 <= n) /\ \A i \in 0 .. n : i \in 0 .. n + 1 /\ i <= n
    OBVIOUS
  <2>3. t[n + 1] = y /\ \A i \in 0 .. n : t[i] = tr[i]
    BY <2>2
  <2> QED BY <1>7, <2>1, <2>3
<1> HIDE DEF t
<1>9. AtMost(z, y)
  BY DEF Carries
<1>10. ASSUME NEW i \in 1 .. n + 1 PROVE Carries(S[i], t[i - 1], t[i])
  <2>1. CASE i \in 1 .. n
    <3>1. i - 1 \in 0 .. n /\ i \in 0 .. n
      BY <2>1
    <3> QED BY <1>6, <1>7, <1>8, <2>1, <3>1
  <2>2. CASE i = n + 1
    <3>1. i - 1 = n /\ n \in 0 .. n
      BY <2>2
    <3> QED BY <1>6, <1>7, <1>8, <2>2, <3>1
  <2> QED BY <2>1, <2>2
<1>11. ASSUME NEW i \in 0 .. n + 1 PROVE AtMost(t[i], y)
  <2>1. CASE i \in 0 .. n
    <3>1. t[i] = tr[i] /\ tr[i] \in Position /\ AtMost(tr[i], z)
      BY <1>7, <1>8, <2>1
    <3> QED BY <1>9, <3>1, AtMostLinks
  <2>2. CASE i = n + 1
    BY <1>8, <2>2, AtMostLinks
  <2> QED BY <2>1, <2>2
<1>12. Path(t, S, y)
  BY <1>5, <1>8, <1>10, <1>11 DEF Path
<1>13. t[0] = a /\ Even(w)
  <2>1. 0 \in 0 .. n /\ n + 1 \in Nat
    OBVIOUS
  <2> QED BY <1>1, <1>4, <1>8, <2>1 DEF Even
<1> QED BY <1>12, <1>13 DEF Onto, S, w

-----------------------------------------------------------------------------
(* A message read from the front of what is on the way.                    *)

LEMMA CutRecords ==
    ASSUME NEW g \in Seq(Half), NEW y \in Seq(Half), NEW N \in Nat, Len(g \o y) = 2 * N
    PROVE  LET m == g \o y
               u == Left(g) \o y
               h == Len(g) \div 2
           IN /\ h \in 0 .. N /\ Records(g) \in Seq(Record) /\ Records(m) \in Seq(Record)
              /\ Len(Records(g)) = h /\ Len(Records(m)) = N
              /\ \A i \in 1 .. h : Records(g)[i] = Records(m)[i]
              /\ Len(u) = 2 * (N - h) /\ Len(Records(u)) = N - h
              /\ \A i \in 1 .. N - h : Records(u)[i] = Records(m)[h + i]
<1> DEFINE m == g \o y
           u == Left(g) \o y
           l == Len(g)
           h == l \div 2
           t == 2 * h
<1>1. /\ m \in Seq(Half) /\ Len(m) = l + Len(y) /\ l \in Nat /\ Len(y) \in Nat
      /\ \A i \in 1 .. l + Len(y) : m[i] = IF i <= l THEN g[i] ELSE y[i - l]
  BY ConcatProperties, LenProperties
<1>2. Len(m) = 2 * N
  OBVIOUS
<1>3. u = SubSeq(m, t + 1, Len(m)) /\ h \in Nat /\ t \in 0 .. l
  <2>1. h \in Nat /\ t \in 0 .. l
    BY RecordsAre
  <2>2. Left(g) = SubSeq(g, t + 1, l)
    BY DEF Left
  <2> HIDE DEF t, l
  <2>3. SubSeq(g \o y, t + 1, Len(g \o y)) = SubSeq(g, t + 1, Len(g)) \o y
    BY <2>1, CutBeyond DEF l
  <2> QED BY <2>1, <2>2, <2>3 DEF l
<1>4. /\ Records(g) \in Seq(Record) /\ Len(Records(g)) = h
      /\ \A i \in 1 .. h : Records(g)[i] = g[2 * i].record /\ 2 * i \in 1 .. l
  BY RecordsAre
<1> HIDE DEF m, u, l
<1>5. h \in 0 .. N /\ t \in 0 .. Len(m)
  BY <1>1, <1>2, <1>3
<1>6. /\ u \in Seq(Half) /\ Len(u) = Len(m) - t /\ \A i \in 1 .. Len(m) - t : u[i] = m[t + i]
  <2> HIDE DEF t
  <2> QED BY <1>1, <1>3, <1>5, CutParts
<1>7. Len(m) \div 2 = N /\ Len(u) = 2 * (N - h) /\ Len(u) \div 2 = N - h /\ N - h \in Nat
  <2>1. Len(u) = 2 * (N - h) /\ N - h \in Nat
    <3> HIDE DEF h
    <3> QED BY <1>2, <1>5, <1>6
  <2> DEFINE d == N - h
  <2> HIDE DEF d
  <2>2. d \in Nat /\ Len(u) = 2 * d
    BY <2>1 DEF d
  <2>3. Len(u) \div 2 = d
    BY <2>2
  <2>4. Len(m) \div 2 = N
    BY <1>2
  <2> QED BY <2>1, <2>3, <2>4 DEF d
<1>8. /\ Records(m) \in Seq(Record) /\ Len(Records(m)) = N
      /\ \A i \in 1 .. N : Records(m)[i] = m[2 * i].record
  BY <1>1, <1>7, RecordsAre
<1>9. /\ Len(Records(u)) = N - h /\ \A i \in 1 .. N - h : Records(u)[i] = u[2 * i].record
  <2> HIDE DEF h
  <2>1. /\ Len(Records(u)) = Len(u) \div 2
        /\ \A i \in 1 .. Len(u) \div 2 : Records(u)[i] = u[2 * i].record
    BY <1>6, RecordsAre
  <2> QED BY <1>7, <2>1
<1>10. ASSUME NEW i \in 1 .. h PROVE Records(g)[i] = Records(m)[i]
  <2>1. 2 * i \in 1 .. l /\ 2 * i \in 1 .. l + Len(y) /\ i \in 1 .. N
    BY <1>1, <1>4, <1>5
  <2>2. m[2 * i] = g[2 * i]
    BY <1>1, <2>1
  <2> QED BY <1>4, <1>8, <2>1, <2>2
<1>11. ASSUME NEW i \in 1 .. N - h PROVE Records(u)[i] = Records(m)[h + i]
  <2> HIDE DEF h
  <2>1. 2 * i \in 1 .. Len(m) - t /\ t + 2 * i = 2 * (h + i) /\ h + i \in 1 .. N
    BY <1>2, <1>5
  <2>2. u[2 * i] = m[2 * (h + i)]
    BY <1>6, <2>1
  <2> QED BY <1>8, <1>9, <2>1, <2>2
<1> QED BY <1>4, <1>5, <1>7, <1>8, <1>9, <1>10, <1>11 DEF m, u, l

LEMMA ReadOnto ==
    ASSUME NEW v \in Views, NEW a \in Position, NEW z \in Position, Reader(v, a),
           NEW g \in Seq(Half), NEW y \in Seq(Half), Onto(a, g \o y, z)
    PROVE  \E b \in Position : /\ AtMost(b, z) /\ Onto(b, Left(g) \o y, z)
                               /\ Reader(FoldLeft(consumeBridgeRecord, v, Records(g)), b)
<1> DEFINE m == g \o y
           u == Left(g) \o y
           h == Len(g) \div 2
           R == Records(g)
           M == Records(m)
           U == Records(u)
<1>0. PICK N \in Nat : Len(m) = 2 * N /\ \E tr : tr[0] = a /\ Path(tr, M, z)
  BY DEF Onto, Even
<1>1. PICK tr : Len(m) = 2 * N /\ tr[0] = a /\ Path(tr, M, z)
  BY <1>0
<1>2. /\ h \in 0 .. N /\ R \in Seq(Record) /\ M \in Seq(Record) /\ Len(R) = h /\ Len(M) = N
      /\ \A i \in 1 .. h : R[i] = M[i]
      /\ Len(u) = 2 * (N - h) /\ Len(U) = N - h /\ \A i \in 1 .. N - h : U[i] = M[h + i]
  <2>1. Len(g \o y) = 2 * N
    BY <1>1
  <2>2. /\ h \in 0 .. N /\ Records(g) \in Seq(Record) /\ Records(m) \in Seq(Record)
        /\ Len(Records(g)) = h /\ Len(Records(m)) = N
        /\ \A i \in 1 .. h : Records(g)[i] = Records(m)[i]
        /\ Len(u) = 2 * (N - h) /\ Len(Records(u)) = N - h
        /\ \A i \in 1 .. N - h : Records(u)[i] = Records(m)[h + i]
    <3> HIDE DEF R, M, U
    <3> QED BY <2>1, CutRecords, Zenon
  <2> QED BY <2>2
<1> HIDE DEF m, u, h, R, M, U
<1>3. /\ tr \in [0 .. N -> Position] /\ tr[N] = z
      /\ \A i \in 1 .. N : Carries(M[i], tr[i - 1], tr[i])
      /\ \A i \in 0 .. N : AtMost(tr[i], z)
  BY <1>1, <1>2 DEF Path
<1>4. tr[h] \in Position /\ AtMost(tr[h], z)
  BY <1>2, <1>3
<1>5. Reader(FoldLeft(consumeBridgeRecord, v, R), tr[h])
  <2>1. Len(R) <= Len(M) /\ \A i \in 1 .. Len(R) : R[i] = M[i]
    BY <1>2
  <2>2. Reader(v, tr[0])
    BY <1>1
  <2>3. Reader(FoldLeft(consumeBridgeRecord, v, R), tr[Len(R)])
    BY <1>1, <1>2, <2>1, <2>2, PathReads
  <2> QED BY <1>2, <2>3
<1> DEFINE d == N - h
           s == [i \in 0 .. d |-> tr[h + i]]
<1>6. d \in Nat /\ \A i \in 0 .. d : h + i \in 0 .. N
  BY <1>2
<1>7. /\ s \in [0 .. d -> Position] /\ \A i \in 0 .. d : s[i] = tr[h + i]
  BY <1>3, <1>6
<1> HIDE DEF s
<1>8. s[0] = tr[h] /\ s[d] = z
  <2>1. 0 \in 0 .. d /\ d \in 0 .. d /\ h + 0 = h /\ h + d = N
    BY <1>2, <1>6
  <2> QED BY <1>3, <1>7, <2>1
<1>9. Len(U) = d /\ \A i \in 1 .. d : U[i] = M[h + i]
  BY <1>2
<1>10. ASSUME NEW i \in 1 .. d PROVE Carries(U[i], s[i - 1], s[i])
  <2>1. i \in 0 .. d /\ i - 1 \in 0 .. d /\ h + i \in 1 .. N /\ h + (i - 1) = (h + i) - 1
    BY <1>2, <1>6
  <2>2. s[i] = tr[h + i] /\ s[i - 1] = tr[(h + i) - 1] /\ U[i] = M[h + i]
    BY <1>7, <1>9, <2>1
  <2>3. Carries(M[h + i], tr[(h + i) - 1], tr[h + i])
    BY <1>3, <2>1
  <2> QED BY <2>2, <2>3
<1>11. \A i \in 0 .. d : AtMost(s[i], z)
  BY <1>3, <1>6, <1>7
<1> HIDE DEF d
<1>12. Path(s, U, z)
  BY <1>7, <1>8, <1>9, <1>10, <1>11 DEF Path
<1>13. Even(u)
  BY <1>2, <1>6 DEF Even, d
<1>14. Onto(tr[h], u, z)
  BY <1>8, <1>12, <1>13 DEF Onto, U
<1> QED BY <1>4, <1>5, <1>14 DEF R, u

-----------------------------------------------------------------------------
(* As long as no Connect is hasty, one source feeds the parser at a time.  *)

Here     == [s |-> session, n |-> sent]
States   == {"none", "connecting", "open", "closing", "closed"}
Live(c)  == ready[c] \in {"connecting", "open", "closing"}

OneSource ==
    /\ \A c, d \in Sockets : Live(c) /\ Live(d) => c = d
    /\ \A c \in Sockets :
         /\ Live(c) => serial # "reading"
         /\ ready[c] \in {"connecting", "open"} => serial # "closing"
         /\ ready[c] \in {"connecting", "open"} => socket = c
         /\ ready[c] = "open" => connection = "connected"
         /\ ready[c] = "connecting" => connection = "connecting" /\ recordRx = <<>>
    /\ serial = "reading" => connection = "connected"

SourceInv == ready \in [Sockets -> States] /\ (~hasty => OneSource)

LEMMA SourceStep ==
    ASSUME SourceInv, [Next]_vars
    PROVE  SourceInv'
<1> USE DEF SourceInv, OneSource, Live, States
<1>1. ASSUME UNCHANGED <<ready, socket, connection, serial, recordRx, hasty>> PROVE SourceInv'
  BY <1>1
<1>2. ASSUME NEW k \in DataSizes, Broadcast(k) PROVE SourceInv'
  BY <1>1, <1>2 DEF Broadcast, Rx
<1>3. CASE NewSession
  BY <1>1, <1>3 DEF NewSession, Rx
<1>4. ASSUME NEW c \in Sockets, connectJtag(c) PROVE SourceInv'
  <2>1. /\ ready[c] = "none" /\ connection # "connected" /\ hasty' = (hasty \/ ~Settled)
        /\ recordRx' = <<>> /\ socket' = c /\ ready' = [ready EXCEPT ![c] = "connecting"]
        /\ connection' = "connecting" /\ serial' = serial
    BY <1>4 DEF connectJtag, ConnectEnabled
  <2>2. ready' \in [Sockets -> States]
    BY <2>1
  <2>3. ASSUME ~hasty' PROVE OneSource'
    <3>1. ~hasty /\ serial # "closing" /\ \A d \in Sockets : ready[d] \notin {"connecting", "closing"}
      BY <2>1, <2>3 DEF Settled
    <3>2. \A d \in Sockets : ~Live(d)
      BY <2>1, <3>1
    <3>3. serial # "reading"
      BY <2>1, <3>1
    <3>4. ready'[c] = "connecting" /\ \A d \in Sockets : d # c => ready'[d] \notin {"connecting", "open", "closing"}
      BY <2>1, <3>2
    <3> QED BY <2>1, <3>1, <3>3, <3>4
  <2> QED BY <2>2, <2>3
<1>5. ASSUME NEW c \in Sockets, onopen(c) PROVE SourceInv'
  <2>1. /\ ready[c] = "connecting" /\ ready' = [ready EXCEPT ![c] = "open"] /\ connection' = "connected"
        /\ UNCHANGED <<socket, recordRx, serial, hasty>>
    BY <1>5 DEF onopen, setConnected, Rx
  <2> QED BY <2>1
<1>6. ASSUME NEW c \in Sockets, onerror(c) PROVE SourceInv'
  <2>1. /\ ready[c] \in {"connecting", "open"} /\ ready' = [ready EXCEPT ![c] = "closing"]
        /\ connection' = "disconnected" /\ UNCHANGED <<socket, recordRx, serial, hasty>>
    BY <1>6 DEF onerror, setConnected, Rx
  <2> QED BY <2>1
<1>7. ASSUME NEW c \in Sockets, onclose(c) PROVE SourceInv'
  <2>1. /\ ready[c] \in {"open", "closing"} /\ ready' = [ready EXCEPT ![c] = "closed"]
        /\ connection' = "disconnected" /\ UNCHANGED <<recordRx, serial, hasty>>
    BY <1>7 DEF onclose, setConnected, Rx
  <2>2. ASSUME ~hasty PROVE \A d \in Sockets : ready'[d] \notin {"connecting", "open", "closing"}
    BY <2>1, <2>2
  <2> QED BY <2>1, <2>2
<1>8. ASSUME NEW c \in Sockets, NEW k \in HalfCounts, onmessage(c, k) PROVE SourceInv'
  <2>1. ready[c] = "open" /\ UNCHANGED <<ready, socket, connection, serial, hasty>>
    BY <1>8 DEF onmessage
  <2>2. ~hasty => \A d \in Sockets : ready[d] # "connecting"
    BY <2>1
  <2> QED BY <2>1, <2>2
<1>9. CASE connectSerial
  <2>1. /\ connection # "connected" /\ serial = "closed" /\ hasty' = (hasty \/ ~Settled)
        /\ serial' = "reading" /\ connection' = "connected" /\ UNCHANGED <<ready, socket, recordRx>>
    BY <1>9 DEF connectSerial, ConnectEnabled, setConnected, Rx
  <2>2. ASSUME ~hasty' PROVE \A d \in Sockets : ~Live(d)
    <3>1. ~hasty /\ \A d \in Sockets : ready[d] \notin {"connecting", "closing"}
      BY <2>1, <2>2 DEF Settled
    <3> QED BY <2>1, <3>1
  <2> QED BY <2>1, <2>2
<1>10. CASE readLoopEnds
  <2>1. /\ serial = "reading" /\ serial' = "ended" /\ connection' = "disconnected"
        /\ UNCHANGED <<ready, socket, recordRx, hasty>>
    BY <1>10 DEF readLoopEnds, setConnected, Rx
  <2> QED BY <2>1
<1>11. CASE disconnect
  <2>1. /\ connection = "connected"
        /\ ready' = [c \in Sockets |-> IF c = socket /\ ready[c] \in {"connecting", "open"}
                                       THEN "closing" ELSE ready[c]]
        /\ serial' # "reading" /\ UNCHANGED <<recordRx, hasty>>
    BY <1>11 DEF disconnect, DisconnectEnabled, Rx
  <2>2. ready' \in [Sockets -> States]
    BY <2>1
  <2>3. ASSUME ~hasty, NEW c \in Sockets
        PROVE  ready'[c] \notin {"connecting", "open"} /\ (ready'[c] = "closing" => Live(c))
    BY <2>1, <2>3
  <2> QED BY <2>1, <2>2, <2>3
<1>12. CASE portCloses
  <2>1. /\ serial = "closing" /\ serial' = "closed" /\ connection' = "disconnected"
        /\ UNCHANGED <<ready, socket, recordRx, hasty>>
    BY <1>12 DEF portCloses, setConnected, Rx
  <2> QED BY <2>1
<1>13. ASSUME NEW values, FeedForeign(values) PROVE SourceInv'
  BY <1>1, <1>13 DEF FeedForeign
<1>14. CASE UNCHANGED vars
  BY <1>1, <1>14 DEF vars
<1> QED BY <1>2, <1>3, <1>4, <1>5, <1>6, <1>7, <1>8, <1>9, <1>10, <1>11, <1>12, <1>13, <1>14
        DEF Next, readLoop, replayRawCapture

(* What has been fed and what is on the way to the open socket are, one    *)
(* after the other, part of what the target sent.                          *)
InOrder ==
    \E a \in Position :
        /\ Reader(View, a) /\ AtMost(a, Here)
        /\ \A c \in Sockets : ready[c] = "open" => Onto(a, recordRx \o wire[c], Here)

FlowInv == StreamInv /\ SourceInv /\ (~hasty => InOrder)

LEMMA HereIs ==
    ASSUME Sending
    PROVE  Here \in Position /\ Here.s = session /\ Here.n = sent /\ session \in Nat \ {0} /\ sent \in Nat
<1>1. session \in Nat \ {0} /\ Len(Flat(Script[session])) \in Nat
  BY ScriptBytes DEF Sending
<1>2. sent \in Nat
  BY <1>1 DEF Sending
<1> QED BY <1>1, <1>2 DEF Here, Position

LEMMA StillInOrder ==
    ASSUME InOrder, UNCHANGED <<View, Here>>,
           \A c \in Sockets : ready'[c] = "open" =>
               ready[c] = "open" /\ recordRx' = recordRx /\ wire'[c] = wire[c]
    PROVE  InOrder'
  BY DEF InOrder

LEMMA SentInOrder ==
    ASSUME Typed, InOrder, NEW r \in Record, ToAll(r), UNCHANGED <<View, ready, recordRx>>,
           Here' \in Position, Carries(r, Here, Here')
    PROVE  InOrder'
<1>1. PICK a \in Position : /\ Reader(View, a) /\ AtMost(a, Here)
                            /\ \A c \in Sockets : ready[c] = "open" => Onto(a, recordRx \o wire[c], Here)
  BY DEF InOrder
<1>2. Here \in Position
  BY HereIs DEF Typed
<1>3. AtMost(a, Here')
  <2>1. AtMost(Here, Here')
    BY DEF Carries
  <2> QED BY <1>1, <1>2, <2>1, AtMostLinks
<1>4. ASSUME NEW c \in Sockets, ready'[c] = "open" PROVE Onto(a, recordRx' \o wire'[c], Here')
  <2> DEFINE w == wire[c]
             two == Halves(r)
  <2>1. recordRx \in Seq(Half) /\ w \in Seq(Half) /\ two \in Seq(Half)
    BY HalvesAre DEF Typed
  <2>2. recordRx \o w \in Seq(Half)
    BY <2>1, ConcatProperties
  <2>3. Onto(a, recordRx \o w, Here)
    BY <1>1, <1>4
  <2>4. Onto(a, (recordRx \o w) \o two, Here')
    BY <1>2, <2>2, <2>3, OneMore
  <2>5. wire'[c] = w \o two /\ recordRx' = recordRx
    BY <1>4 DEF ToAll
  <2>6. (recordRx \o w) \o two = recordRx \o (w \o two)
    <3> HIDE DEF w, two
    <3> QED BY <2>1, ConcatAssociative
  <2> QED BY <2>4, <2>5, <2>6
<1> QED BY <1>1, <1>3, <1>4 DEF InOrder

LEMMA FlowInit ==
    ASSUME Init
    PROVE  FlowInv
<1>1. StreamInv
  BY StreamInit
<1>2. SourceInv
  BY DEF Init, SourceInv, OneSource, Live, States
<1> DEFINE e == <<>>
           p == Fresh(e)
           o == <<e>>
           a == [s |-> 0, n |-> 0]
           v == [parser |-> p, sessionId |-> 0, fed |-> o]
<1>3. View = v
  BY DEF Init, View, Unknown
<1>4. e \in Seq(Byte) /\ DOMAIN e = {}
  BY EmptySeq
<1>5. FlattenSeq(o) = e
  <2> DEFINE g == <<>>
  <2>1. g \in Seq(Seq(Byte)) /\ Append(g, e) = o
    BY EmptySeq
  <2> HIDE DEF g, e, o
  <2>2. FlattenSeq(<<>>) = <<>> /\ FlattenSeq(Append(g, e)) = FlattenSeq(g) \o e
    BY <1>4, <2>1, FlattenAppend
  <2>3. g = <<>> /\ e = <<>>
    BY DEF g, e
  <2>4. e \o e = e
    BY <1>4, <2>3, ConcatEmptySeq
  <2> QED BY <2>1, <2>2, <2>3, <2>4
<1>6. p.rx = e /\ p.frames = e
  BY DEF Fresh
<1> HIDE DEF e, p, o
<1>7. Unmixed(p, 0)
  BY <1>4, <1>6 DEF Unmixed, OnlyOf
<1>8. Onward(e) /\ Until(e, a)
  BY <1>4 DEF Onward, Until
<1>9. v.parser = p /\ v.sessionId = 0 /\ v.fed = o /\ a.s = 0
  OBVIOUS
<1> HIDE DEF v
<1>10. a \in Position
  BY DEF Position
<1>11. AtMost(a, Here)
  BY DEF Init, Here, AtMost
<1> HIDE DEF a
<1>12. Reader(v, a)
  BY <1>5, <1>7, <1>8, <1>9 DEF Reader
<1>13. \A c \in Sockets : ready[c] # "open"
  BY DEF Init
<1>14. InOrder
  BY <1>3, <1>10, <1>11, <1>12, <1>13 DEF InOrder
<1> QED BY <1>1, <1>2, <1>14 DEF FlowInv

LEMMA FlowStep ==
    ASSUME FlowInv, [Next]_vars
    PROVE  FlowInv'
<1>1. StreamInv' /\ SourceInv'
  BY StreamStep, SourceStep DEF FlowInv
<1> SUFFICES ASSUME ~hasty' PROVE InOrder'
  BY <1>1 DEF FlowInv
<1>2. /\ Typed /\ Sending /\ View \in Views /\ SourceInv
      /\ Typed' /\ Sending'
  BY <1>1 DEF FlowInv, StreamInv, Typed, Balanced
<1>3. ~hasty
  <2>1. CASE UNCHANGED hasty
    BY <2>1
  <2>2. CASE hasty' = (hasty \/ ~Settled)
    BY <2>2
  <2>3. UNCHANGED hasty \/ hasty' = (hasty \/ ~Settled)
    BY DEF Next, Broadcast, NewSession, connectJtag, onopen, onerror, onclose, onmessage, connectSerial,
           readLoop, readLoopEnds, replayRawCapture, FeedForeign, disconnect, portCloses, vars
  <2> QED BY <2>1, <2>2, <2>3
<1>4. InOrder /\ OneSource
  BY <1>2, <1>3 DEF FlowInv, SourceInv
<1>5. /\ Here \in Position /\ Here.s = session /\ Here.n = sent /\ session \in Nat \ {0} /\ sent \in Nat
  BY <1>2, HereIs
<1>6. ASSUME NEW k \in DataSizes, Broadcast(k) PROVE InOrder'
  <2> DEFINE b == [i \in 1 .. k |-> Tagged(session, sent + i)]
             y == [s |-> session, n |-> sent + k]
             l == Len(Flat(Script[session]))
             r == Data(b)
  <2>1. /\ k \in Nat /\ sent' = sent + k /\ ToAll(Data(b)) /\ session' = session
        /\ UNCHANGED <<ready, recordRx, parser, sessionId, fed>> /\ sent + k <= l
    <3>1. k \in Nat
      BY StreamAssumption
    <3>2. sent + k <= l
      <4>1. sent + k <= IF hasty THEN HASTY_BYTES ELSE l
        BY <1>6 DEF Broadcast
      <4> QED BY <1>3, <4>1
    <3> QED BY <1>6, <3>1, <3>2 DEF Broadcast, Rx
  <2>2. View' = View /\ Here' = y /\ y \in Position
    BY <1>5, <2>1 DEF View, Here, Position
  <2>3. r \in Record /\ b \in Seq(Byte) /\ Len(b) = k /\ \A i \in 1 .. k : b[i].s = session /\ b[i].n = sent + i
    <3>1. session \in DOMAIN Script /\ k \in Nat /\ sent \in Nat /\ sent + k <= l
      BY <1>2, <1>5, <2>1 DEF Sending
    <3> HIDE DEF b, r, l
    <3>2. b = Burst(session, sent, k) /\ r = Data(Burst(session, sent, k))
      BY DEF b, r, Burst
    <3>3. sent + k <= Len(Flat(Script[session]))
      BY <3>1 DEF l
    <3>4. /\ Burst(session, sent, k) \in Seq(Byte) /\ Len(Burst(session, sent, k)) = k
          /\ Data(Burst(session, sent, k)) \in Record
      BY <3>1, <3>3, SentBytes
    <3>5. \A i \in 1 .. k : Burst(session, sent, k)[i].s = session /\ Burst(session, sent, k)[i].n = sent + i
      BY <3>1, <3>3, SentBytes
    <3> QED BY <3>2, <3>4, <3>5
  <2>4. r.kind = "DATA" /\ r.bytes = b
    BY DEF Data
  <2>5. ToAll(r)
    BY <2>1
  <2> HIDE DEF b, r
  <2>6. Follows(b, Here, y)
    <3>1. DOMAIN b = 1 .. k
      BY <2>3, LenProperties
    <3> QED BY <1>5, <2>1, <2>3, <3>1 DEF Follows
  <2>7. Carries(r, Here, y)
    BY <1>5, <2>1, <2>4, <2>6 DEF Carries, AtMost
  <2> QED BY <1>2, <1>4, <2>1, <2>2, <2>3, <2>5, <2>7, SentInOrder
<1>7. CASE NewSession
  <2> DEFINE r == Session(session + 1)
             y == [s |-> session + 1, n |-> 0]
  <2>1. /\ session' = session + 1 /\ sent' = 0 /\ ToAll(r)
        /\ UNCHANGED <<ready, recordRx, parser, sessionId, fed>>
    BY <1>7 DEF NewSession, Rx
  <2>2. View' = View /\ Here' = y /\ y \in Position
    BY <1>5, <2>1 DEF View, Here, Position
  <2>3. r \in Record
    BY <1>2, <2>1, SessionTyped DEF Sending
  <2>4. r.kind = "SESSION" /\ r.session = session + 1
    BY DEF Session
  <2> HIDE DEF r
  <2>5. Carries(r, Here, y)
    BY <1>5, <2>4 DEF Carries, AtMost
  <2> QED BY <1>2, <1>4, <2>1, <2>2, <2>3, <2>5, SentInOrder
<1>8. ASSUME NEW c \in Sockets, connectJtag(c) PROVE InOrder'
  <2>1. /\ UNCHANGED <<session, sent, parser, sessionId, fed>> /\ hasty' = (hasty \/ ~Settled)
        /\ ready[c] = "none" /\ ready' = [ready EXCEPT ![c] = "connecting"] /\ connection # "connected"
    BY <1>8 DEF connectJtag, Target, ConnectEnabled
  <2>2. \A d \in Sockets : ready[d] # "open"
    BY <1>4, <2>1 DEF OneSource
  <2>3. \A d \in Sockets : ready'[d] # "open"
    BY <1>2, <2>1, <2>2 DEF SourceInv
  <2>4. View' = View /\ Here' = Here
    BY <2>1 DEF View, Here
  <2> QED BY <1>4, <2>3, <2>4, StillInOrder
<1>9. ASSUME NEW c \in Sockets, onopen(c) PROVE InOrder'
  <2> DEFINE r == Hello(session)
             e == <<>>
             two == Halves(r)
  <2>1. /\ UNCHANGED <<session, sent, parser, sessionId, fed, recordRx>> /\ ready[c] = "connecting"
        /\ ready' = [ready EXCEPT ![c] = "open"] /\ wire' = [wire EXCEPT ![c] = two]
    BY <1>9 DEF onopen, Target, Rx
  <2>2. recordRx = e /\ \A d \in Sockets : d # c => ready[d] # "open"
    BY <1>4, <2>1 DEF OneSource, Live
  <2>3. \A d \in Sockets : d # c => ready'[d] # "open"
    BY <1>2, <2>1, <2>2 DEF SourceInv
  <2>4. wire'[c] = two
    BY <1>2, <2>1 DEF Typed
  <2>5. View' = View /\ Here' = Here
    BY <2>1 DEF View, Here
  <2>6. r \in Record /\ r.kind = "HELLO" /\ r.session = session
    BY <1>2, SessionTyped DEF Sending, Hello
  <2>7. PICK a \in Position : Reader(View, a) /\ AtMost(a, Here)
    BY <1>4 DEF InOrder
  <2> HIDE DEF r
  <2>8. Carries(r, a, Here)
    BY <1>5, <2>6, <2>7 DEF Carries
  <2>9. e \in Seq(Half) /\ Onto(a, e, a)
    BY EmptySeq, NoRecords
  <2> HIDE DEF e
  <2>10. Onto(a, e \o two, Here)
    BY <1>5, <2>6, <2>8, <2>9, OneMore
  <2> HIDE DEF two
  <2>11. Onto(a, recordRx' \o wire'[c], Here')
    BY <2>1, <2>2, <2>4, <2>5, <2>10
  <2> QED BY <2>3, <2>5, <2>7, <2>11 DEF InOrder
<1>10. ASSUME NEW c \in Sockets, onerror(c) \/ onclose(c) PROVE InOrder'
  <2>1. UNCHANGED <<session, sent, parser, sessionId, fed, recordRx>>
    BY <1>10 DEF onerror, onclose, Target, Rx
  <2>2. \A d \in Sockets : ready'[d] = "open" => ready[d] = "open" /\ wire'[d] = wire[d]
    <3>1. CASE onerror(c)
      BY <1>2, <3>1 DEF onerror, SourceInv
    <3>2. CASE onclose(c)
      BY <1>2, <3>2 DEF onclose, SourceInv, Typed
    <3> QED BY <1>10, <3>1, <3>2
  <2>3. View' = View /\ Here' = Here
    BY <2>1 DEF View, Here
  <2> QED BY <1>4, <2>1, <2>2, <2>3, StillInOrder
<1>11. ASSUME NEW c \in Sockets, NEW k \in HalfCounts, onmessage(c, k) PROVE InOrder'
  <2> DEFINE w == wire[c]
             x == SubSeq(w, 1, k)
             y == SubSeq(w, k + 1, Len(w))
             m == recordRx \o x
             v == FoldLeft(consumeBridgeRecord, View, Records(m))
  <2>1. /\ k \in Nat /\ k <= Len(w) /\ w \in Seq(Half) /\ m \in Seq(Half) /\ Records(m) \in Seq(Record)
        /\ y \in Seq(Half)
    BY <1>2, <1>11, MessageTyped
  <2>2. recordRx' = Left(m) /\ Show(v) /\ wire' = [wire EXCEPT ![c] = y]
        /\ UNCHANGED <<session, sent, ready>> /\ ready[c] = "open"
    BY <1>11 DEF onmessage, consumeBridgeBytes, Target
  <2>3. m \o y = recordRx \o w
    <3>1. recordRx \in Seq(Half) /\ k \in 0 .. Len(w) /\ Len(w) \in Nat
      BY <1>2, <2>1, LenProperties DEF Typed
    <3> HIDE DEF w
    <3>2. x \in Seq(Half) /\ y \in Seq(Half)
      BY <2>1, <3>1, CutParts
    <3>3. x \o y = w
      <4> DEFINE one == 1
      <4>1. one \in 1 .. Len(w) + 1 /\ k \in one - 1 .. Len(w) /\ Len(w) \in k .. Len(w)
        BY <3>1
      <4> HIDE DEF one
      <4>2. SubSeq(w, one, k) \o SubSeq(w, k + 1, Len(w)) = SubSeq(w, one, Len(w))
        BY <2>1, <4>1, ConcatAdjacentSubSeq
      <4>3. SubSeq(w, 1, Len(w)) = w
        BY <2>1, SubSeqFull
      <4> QED BY <4>2, <4>3 DEF one
    <3> HIDE DEF x, y
    <3>4. (recordRx \o x) \o y = recordRx \o (x \o y)
      BY <3>1, <3>2, ConcatAssociative
    <3> QED BY <3>3, <3>4
  <2> HIDE DEF m, y
  <2>4. v \in Views
    <3>1. View \in Balanced
      BY DEF FlowInv, StreamInv
    <3>2. v \in Balanced
      BY <2>1, <3>1, MessageBalances
    <3> QED BY <3>2 DEF Balanced
  <2>5. View' = v
    BY <2>2, <2>4, Shown
  <2>6. PICK a \in Position : Reader(View, a) /\ Onto(a, recordRx \o w, Here)
    BY <1>4, <2>2 DEF InOrder
  <2>7. PICK b \in Position : AtMost(b, Here) /\ Onto(b, Left(m) \o y, Here) /\ Reader(v, b)
    BY <1>2, <1>5, <2>1, <2>3, <2>6, ReadOnto
  <2> HIDE DEF v
  <2>8. Here' = Here
    BY <2>2 DEF Here
  <2>9. ASSUME NEW d \in Sockets, ready'[d] = "open" PROVE Onto(b, recordRx' \o wire'[d], Here')
    <3>1. d = c
      BY <1>4, <2>2, <2>9 DEF OneSource, Live
    <3>2. wire'[c] = y
      BY <1>2, <2>2 DEF Typed
    <3> QED BY <2>2, <2>7, <2>8, <3>1, <3>2
  <2> QED BY <2>5, <2>7, <2>8, <2>9 DEF InOrder
<1>12. CASE connectSerial \/ readLoopEnds \/ disconnect \/ portCloses \/ UNCHANGED vars
  <2>1. UNCHANGED <<session, sent, wire, parser, sessionId, fed, recordRx>>
    BY <1>12 DEF connectSerial, readLoopEnds, disconnect, portCloses, Target, Rx, vars
  <2>2. \A d \in Sockets : ready'[d] = "open" => ready[d] = "open"
    BY <1>12 DEF connectSerial, readLoopEnds, disconnect, portCloses, vars
  <2>3. View' = View /\ Here' = Here
    BY <2>1 DEF View, Here
  <2> QED BY <1>4, <2>1, <2>2, <2>3, StillInOrder
<1>13. ASSUME NEW values \in Files \cup SerialBytes, FeedForeign(values) PROVE InOrder'
  <2> DEFINE bytes == Foreign(values)
             v == Take(View, bytes)
             f == Longer(fed, bytes)
             p == Feed(parser, bytes)
             u == [parser |-> p, sessionId |-> sessionId, fed |-> f]
  <2>1. /\ UNCHANGED <<session, sent, wire, ready, recordRx>> /\ Show(v)
    BY <1>13 DEF FeedForeign, Target
  <2>2. bytes \in Seq(Byte) /\ OnlyOf(bytes, 0)
    <3>1. values \in Seq(Nat)
      BY StreamAssumption
    <3> QED BY <1>2, <3>1, ForeignTyped DEF Typed, OnlyOf
  <2> HIDE DEF bytes
  <2>3. PICK a \in Position : /\ Reader(View, a) /\ AtMost(a, Here)
                              /\ \A c \in Sockets : ready[c] = "open" => Onto(a, recordRx \o wire[c], Here)
    BY <1>4 DEF InOrder
  <2>4. View.parser = parser /\ View.sessionId = sessionId /\ View.fed = fed
    BY DEF View
  <2>5. Reader(u, a)
    <3>1. Reader([parser |-> Feed(View.parser, bytes), sessionId |-> View.sessionId,
                  fed |-> Longer(View.fed, bytes)], a)
      BY <1>2, <2>2, <2>3, AtMostLinks, TakeReads
    <3> QED BY <2>4, <3>1
  <2>6. View \in Balanced
    BY DEF FlowInv, StreamInv
  <2>7. v.parser = p /\ v.fed = f /\ v.sessionId = sessionId /\ v \in Views
    BY <2>2, <2>4, <2>6, TakeBalances DEF Balanced
  <2> HIDE DEF v, p, f
  <2>8. View' = u
    BY <2>1, <2>7 DEF Show, View
  <2> HIDE DEF u
  <2>9. Here' = Here
    BY <2>1 DEF Here
  <2> QED BY <2>1, <2>3, <2>5, <2>8, <2>9 DEF InOrder
<1> QED BY <1>6, <1>7, <1>8, <1>9, <1>10, <1>11, <1>12, <1>13 DEF Next, readLoop, replayRawCapture

(* NoGlue, for every script, and every order of connections, sessions,     *)
(* serial chunks and replays: HELLO and SESSION throw away what is left of *)
(* the session before.                                                     *)
THEOREM NothingIsGlued == Spec => []NoGlue
<1>1. Init => FlowInv
  BY FlowInit
<1>2. FlowInv /\ [Next]_vars => FlowInv'
  BY FlowStep
<1>3. FlowInv => NoGlue
  <2> SUFFICES ASSUME FlowInv, ~hasty PROVE \A i \in DOMAIN Frames : OneSession(Frames[i])
    BY DEF NoGlue, OneSession
  <2>1. PICK a \in Position : Reader(View, a)
    BY DEF FlowInv, InOrder
  <2> QED BY <2>1 DEF Reader, Unmixed, View, Frames
<1> QED BY <1>1, <1>2, <1>3, PTL DEF Spec

(* RecordsOnce: what reaches the parser of the target's bytes comes in the *)
(* order they were sent, over every disconnection and every new session.   *)
THEOREM NothingIsFedTwice == Spec => []RecordsOnce
<1>1. Init => FlowInv
  BY FlowInit
<1>2. FlowInv /\ [Next]_vars => FlowInv'
  BY FlowStep
<1>3. FlowInv => RecordsOnce
  <2> SUFFICES ASSUME FlowInv, ~hasty PROVE Onward(AllFed)
    BY DEF RecordsOnce, Onward, Before
  <2>1. PICK a \in Position : Reader(View, a)
    BY DEF FlowInv, InOrder
  <2> QED BY <2>1 DEF Reader, View, AllFed
<1> QED BY <1>1, <1>2, <1>3, PTL DEF Spec
=============================================================================
