-------------------------- MODULE LaReadoutProofs --------------------------
(***************************************************************************)
(* The readout of a capture for every depth, chunk size and order of       *)
(* stalls, commands and restarts.  The ledger of a readout counts what the *)
(* consumer took; at most one message is between the adapter and it, so    *)
(* that a chunk is in the ledger, at the output, or being filled.          *)
(***************************************************************************)
EXTENDS LaReadout, SequenceTheorems, FiniteSetTheorems, BasicFacts

Own(s) == {s[i] : i \in DOMAIN s}

(* The samples of the data messages of s, one after the other.             *)
Running(s, n, g) ==
    g = [k \in 0 .. n |-> IF k = 0 THEN <<>>
                          ELSE IF s[k].type = "data" THEN g[k - 1] \o s[k].samples
                          ELSE g[k - 1]]

ItemsOf(s) == LET g == CHOOSE g : Running(s, Len(s), g) IN g[Len(s)]

(* What the module counts as sent, as a function of a sequence.            *)
LEMMA SentItemsAre == SentItems = ItemsOf(sent)
BY DEF SentItems, ItemsOf, Running

(* The samples after each message exist as a function.                     *)
LEMMA RunningExists ==
    ASSUME NEW s, NEW n \in Nat
    PROVE  \E g : Running(s, n, g)
<1> DEFINE T == {k \in Nat : ~ \E g : Running(s, k, g)}
<1> SUFFICES ASSUME T # {} PROVE FALSE
  OBVIOUS
<1>1. PICK k \in T : \A j \in T : k <= j
  <2>1. T \in SUBSET Nat
    OBVIOUS
  <2> HIDE DEF T
  <2> QED BY <2>1, LeastNumber
<1>2. k # 0
  <2>1. Running(s, 0, [j \in 0 .. 0 |-> <<>>])
    BY DEF Running
  <2> QED BY <1>1, <2>1
<1>3. k \in Nat /\ k - 1 \in Nat /\ k - 1 \notin T
  BY <1>1, <1>2
<1>4. PICK g : Running(s, k - 1, g)
  BY <1>3
<1> DEFINE last == IF s[k].type = "data" THEN g[k - 1] \o s[k].samples ELSE g[k - 1]
           h == [j \in 0 .. k |-> IF j = k THEN last ELSE g[j]]
<1>5. \A j \in 0 .. k - 1 : g[j] = IF j = 0 THEN <<>>
                                  ELSE IF s[j].type = "data" THEN g[j - 1] \o s[j].samples
                                  ELSE g[j - 1]
  BY <1>3, <1>4 DEF Running
<1>6. /\ \A j \in 0 .. k - 1 : h[j] = g[j]
      /\ h[k] = IF s[k].type = "data" THEN h[k - 1] \o s[k].samples ELSE h[k - 1]
      /\ h = [j \in 0 .. k |-> h[j]]
  BY <1>3
<1> HIDE DEF h
<1>7. \A j \in 0 .. k : h[j] = IF j = 0 THEN <<>>
                              ELSE IF s[j].type = "data" THEN h[j - 1] \o s[j].samples
                              ELSE h[j - 1]
  <2> SUFFICES ASSUME NEW j \in 0 .. k
               PROVE  h[j] = IF j = 0 THEN <<>>
                             ELSE IF s[j].type = "data" THEN h[j - 1] \o s[j].samples
                             ELSE h[j - 1]
    OBVIOUS
  <2>1. CASE j = k
    BY <1>2, <1>6, <2>1
  <2>2. CASE j # k
    <3>1. j \in 0 .. k - 1 /\ (j # 0 => j - 1 \in 0 .. k - 1)
      BY <1>3, <2>2
    <3>2. h[j] = g[j] /\ (j # 0 => h[j - 1] = g[j - 1])
      BY <1>6, <3>1
    <3> QED BY <1>5, <3>1, <3>2
  <2> QED BY <2>1, <2>2
<1>8. Running(s, k, h)
  BY <1>6, <1>7 DEF Running
<1> QED BY <1>1, <1>8

(* and depend on the messages so far only.                                 *)
LEMMA RunningAgrees ==
    ASSUME NEW s, NEW r, NEW n \in Nat, NEW m \in Nat, n <= m,
           NEW g, NEW h, Running(s, n, g), Running(r, m, h),
           \A i \in 1 .. n : r[i] = s[i]
    PROVE  g[n] = h[n]
<1> DEFINE T == {k \in 0 .. n : g[k] # h[k]}
<1> SUFFICES ASSUME T # {} PROVE FALSE
  OBVIOUS
<1>1. PICK k \in T : \A j \in T : k <= j
  <2>1. T \in SUBSET Nat
    OBVIOUS
  <2> HIDE DEF T
  <2> QED BY <2>1, LeastNumber
<1>2. k \in 0 .. n /\ k \in 0 .. m /\ g[k] # h[k]
  BY <1>1
<1>3. /\ g[k] = IF k = 0 THEN <<>> ELSE IF s[k].type = "data" THEN g[k - 1] \o s[k].samples ELSE g[k - 1]
      /\ h[k] = IF k = 0 THEN <<>> ELSE IF r[k].type = "data" THEN h[k - 1] \o r[k].samples ELSE h[k - 1]
  BY <1>2 DEF Running
<1>4. k # 0
  BY <1>2, <1>3
<1>5. r[k] = s[k] /\ g[k - 1] = h[k - 1]
  <2>1. k \in 1 .. n /\ k - 1 \in 0 .. n /\ ~(k <= k - 1)
    BY <1>2, <1>4
  <2> QED BY <1>1, <2>1
<1> QED BY <1>2, <1>3, <1>4, <1>5

(* No message, no samples.                                                 *)
LEMMA ItemsEmpty == ItemsOf(<<>>) = <<>>
<1>1. Len(<<>>) = 0
  BY EmptySeq
<1>2. \E g : Running(<<>>, 0, g)
  BY RunningExists
<1>3. PICK g : Running(<<>>, 0, g) /\ ItemsOf(<<>>) = g[0]
  BY <1>1, <1>2 DEF ItemsOf
<1> QED BY <1>3 DEF Running

(* A message more: its samples come last, if it has any.                   *)
LEMMA ItemsAppend ==
    ASSUME NEW S, NEW s \in Seq(S), NEW m \in S
    PROVE  ItemsOf(Append(s, m)) = IF m.type = "data" THEN ItemsOf(s) \o m.samples ELSE ItemsOf(s)
<1> DEFINE r == Append(s, m)
           n == Len(s)
<1>1. /\ n \in Nat /\ Len(r) = n + 1 /\ r[n + 1] = m
      /\ \A i \in 1 .. n : r[i] = s[i]
  BY AppendProperties, LenProperties
<1> HIDE DEF r, n
<1>2. PICK g : Running(s, n, g) /\ ItemsOf(s) = g[n]
  <2>1. \E g : Running(s, n, g)
    BY <1>1, RunningExists
  <2> QED BY <2>1 DEF ItemsOf, n
<1>3. PICK h : Running(r, n + 1, h) /\ ItemsOf(r) = h[n + 1]
  <2>1. \E h : Running(r, n + 1, h)
    BY <1>1, RunningExists
  <2> QED BY <1>1, <2>1 DEF ItemsOf
<1>4. g[n] = h[n]
  <2>1. n + 1 \in Nat /\ n <= n + 1
    BY <1>1
  <2> QED BY <1>1, <1>2, <1>3, <2>1, RunningAgrees
<1>5. h[n + 1] = IF r[n + 1].type = "data" THEN h[n] \o r[n + 1].samples ELSE h[n]
  <2>1. n + 1 \in 0 .. n + 1 /\ n + 1 # 0 /\ (n + 1) - 1 = n
    BY <1>1
  <2> QED BY <1>3, <2>1 DEF Running
<1> QED BY <1>1, <1>2, <1>3, <1>4, <1>5 DEF r

-----------------------------------------------------------------------------
(* A sequence is one over its own elements, and stays so.                  *)
LEMMA OwnAppend ==
    ASSUME NEW s, s \in Seq(Own(s)), NEW m
    PROVE  /\ Append(s, m) \in Seq(Own(Append(s, m)))
           /\ Len(Append(s, m)) = Len(s) + 1 /\ Len(s) \in Nat
           /\ Append(s, m)[Len(s) + 1] = m
           /\ \A i \in 1 .. Len(s) : Append(s, m)[i] = s[i]
           /\ DOMAIN s = 1 .. Len(s) /\ DOMAIN Append(s, m) = 1 .. Len(s) + 1
           /\ ItemsOf(Append(s, m)) = IF m.type = "data" THEN ItemsOf(s) \o m.samples
                                                         ELSE ItemsOf(s)
<1> DEFINE S == Own(s) \cup {m}
           r == Append(s, m)
<1>1. s \in Seq(S) /\ m \in S
  BY SeqMonotonic
<1> HIDE DEF S
<1>2. /\ r \in Seq(S) /\ Len(r) = Len(s) + 1 /\ r[Len(s) + 1] = m
      /\ \A i \in 1 .. Len(s) : r[i] = s[i]
      /\ ItemsOf(r) = IF m.type = "data" THEN ItemsOf(s) \o m.samples ELSE ItemsOf(s)
  BY <1>1, AppendProperties, ItemsAppend
<1>3. /\ Len(s) \in Nat /\ DOMAIN s = 1 .. Len(s) /\ DOMAIN r = 1 .. Len(r)
  BY <1>1, <1>2, LenProperties
<1>4. r \in Seq(Own(r))
  <2>1. /\ Len(r) \in Nat /\ r = [i \in 1 .. Len(r) |-> r[i]]
    BY <1>2, LenProperties
  <2>2. \A i \in 1 .. Len(r) : r[i] \in Own(r)
    BY <1>2, <1>3 DEF Own
  <2> HIDE DEF r
  <2>3. r \in [1 .. Len(r) -> Own(r)]
    BY <2>1, <2>2
  <2> QED BY <2>1, <2>3, IsASeq
<1> QED BY <1>2, <1>3, <1>4

-----------------------------------------------------------------------------
(* The capture that is read out.                                           *)
Cap == [id |-> capture_id, count |-> samples_written, window |-> window]

AtHand == state \in {"DONE", "READOUT"}

(* What is so at every edge: pulses belong to their phases, the port is    *)
(* asked once per sample, and a capture at hand has its samples.           *)
Control ==
    /\ phase \in Phases
    /\ {core_start, core_done, read_req, read_valid, msg_valid, msg_ready, intact}
         \subseteq BOOLEAN
    /\ core_start => phase = "HEADER"
    /\ core_done => phase = "IDLE"
    /\ read_req => phase = "DATA" /\ ~read_valid
    /\ read_valid => phase = "DATA"
    /\ ReadoutOwned
    /\ samples_written \in 0 .. DEPTH
    /\ AtHand => window \in [1 .. samples_written -> Sample]
    /\ intact => AtHand
    /\ sent \in Seq(Own(sent))

(* How far an intact readout is: whole chunks, the last one cut short.     *)
Progress(n, si, total, count) ==
    /\ n \in Nat /\ si = Smaller(n * CHUNK, count)
    /\ n * CHUNK < count + CHUNK
    /\ total = ChunksFor(count)

Counters ==
    intact =>
      /\ phase # "IDLE" => Progress(chunks_sent, sample_index, chunks_total, samples_written)
      /\ phase \in {"HEADER", "TRIGGER"} => chunks_sent = 0
      /\ phase = "STATUS" => sample_index = samples_written

(* The chunk being filled.                                                 *)
Filling ==
    intact /\ phase = "DATA" =>
      /\ sample_index < samples_written
      /\ samples_in_chunk = Smaller(samples_written - sample_index, CHUNK)
      /\ read_index \in sample_index .. sample_index + samples_in_chunk - 1
      /\ data_payload = [id |-> capture_id, chunk |-> chunks_sent,
                         first |-> sample_index, count |-> samples_in_chunk,
                         data |-> data_payload.data]
      /\ DOMAIN data_payload.data = 0 .. CHUNK - 1
      /\ \A k \in 0 .. read_index - sample_index - 1 :
             data_payload.data[k] = window[sample_index + k + 1]
      /\ read_valid => read_sample = window[read_index + 1]

-----------------------------------------------------------------------------
(* The messages of an intact readout of the capture c.                     *)
Data(s)        == {i \in DOMAIN s : s[i].type = "data"}
IsHeader(m, c) == m.type = "header" /\ m.count = c.count
IsChunk(m, n, c) ==
    /\ m.type = "data" /\ m.id = c.id /\ m.chunk = n /\ m.first = n * CHUNK
    /\ m.samples = [i \in 1 .. Smaller(c.count - n * CHUNK, CHUNK) |->
                       c.window[n * CHUNK + i]]
IsStatus(m, n, c) == /\ m.type = "status" /\ m.sent = n /\ m.total = n
                     /\ n * CHUNK >= c.count
NoStatus(s) == \A i \in DOMAIN s : s[i].type # "status"

(* What was taken when n chunks were.                                      *)
Ledger(s, n, c) ==
    /\ s \in Seq(Own(s)) /\ n \in Nat
    /\ IsFiniteSet(Data(s)) /\ Cardinality(Data(s)) = n
    /\ ItemsOf(s) = [i \in 1 .. Smaller(n * CHUNK, c.count) |-> c.window[i]]
    /\ \A i \in Data(s) :
         /\ s[i].id = c.id
         /\ s[i].chunk = Cardinality({j \in Data(s) : j < i})
         /\ s[i].first = s[i].chunk * CHUNK
    /\ s # <<>> => IsHeader(s[1], c)
    /\ \A i \in DOMAIN s : s[i].type = "status" => i = Len(s) /\ IsStatus(s[i], n, c)

(* What was taken, s, and the message m at the output, if v, when n chunks *)
(* were sent.                                                              *)
Books(s, v, m, n, c) ==
    \/ ~v /\ Ledger(s, n, c) /\ s # <<>>
    \/ /\ v /\ NoStatus(s)
       /\ s = <<>> => IsHeader(m, c)
       /\ \/ /\ m.type = "data" /\ n \in Nat \ {0} /\ Ledger(s, n - 1, c)
             /\ IsChunk(m, n - 1, c) /\ (n - 1) * CHUNK < c.count
          \/ /\ m.type # "data" /\ Ledger(s, n, c)
             /\ m.type = "status" => IsStatus(m, n, c)

Kept ==
    intact /\ phase # "HEADER" =>
      /\ Books(sent, msg_valid, msg, chunks_sent, Cap)
      /\ phase \notin {"DONE", "IDLE"} =>
           NoStatus(sent) /\ (msg_valid => msg.type # "status")

ReadoutInv == Control /\ Counters /\ Filling /\ Kept

-----------------------------------------------------------------------------
(* What was sent stays a sequence of what was sent.                        *)
LEMMA SentOwn ==
    ASSUME sent \in Seq(Own(sent)), Observe
    PROVE  sent' \in Seq(Own(sent'))
<1>1. CASE sent' = <<>>
  <2>1. <<>> \in Seq({<<>>[i] : i \in DOMAIN <<>>})
    BY EmptySeq
  <2> QED BY <1>1, <2>1 DEF Own
<1>2. CASE sent' = Append(sent, msg)
  <2>1. Append(sent, msg) \in Seq(Own(Append(sent, msg)))
    BY OwnAppend
  <2> QED BY <1>2, <2>1
<1>3. CASE sent' = sent
  BY <1>3
<1> QED BY <1>1, <1>2, <1>3 DEF Observe

(* A capture that stays at hand stays as it is.                            *)
LEMMA CaptureStays ==
    ASSUME Control, Clock
    PROVE  /\ samples_written' \in 0 .. DEPTH
           /\ AtHand' => window' \in [1 .. samples_written' -> Sample]
           /\ AtHand /\ AtHand' => UNCHANGED <<samples_written, capture_id, triggered, window>>
<1> USE ReadoutAssumption DEF AtHand
<1>1. PICK cmd : Edge(cmd)
  BY DEF Clock
<1>2. samples_written \in 0 .. DEPTH /\ (AtHand => window \in [1 .. samples_written -> Sample])
  BY DEF Control
<1>3. CASE Clear
  BY <1>3 DEF Clear
<1>4. CASE Arm
  BY <1>4 DEF Arm
<1>5. CASE Refuse
  BY <1>2, <1>5 DEF Refuse
<1>6. CASE state = "ACTIVE" /\ (Take \/ Finish)
  BY <1>2, <1>6 DEF Take, Finish, Counted
<1>7. CASE AtHand /\ (Move("READOUT") \/ Move("DONE"))
  BY <1>2, <1>7 DEF Move
<1>8. CASE state \in {"IDLE", "ERROR"} /\ Move(state)
  BY <1>2, <1>8 DEF Move
<1> QED BY <1>1, <1>3, <1>4, <1>5, <1>6, <1>7, <1>8 DEF Edge

(* Nobody is left in READOUT: the core enters it by the pulse of an        *)
(* adapter that begins, and the pulse of one that ends takes it out.       *)
LEMMA OwnerStays ==
    ASSUME Control, Clock
    PROVE  ReadoutOwned'
<1> SUFFICES ASSUME state' = "READOUT" PROVE phase' # "IDLE" \/ core_done'
  BY DEF ReadoutOwned
<1>1. PICK cmd \in Commands :
        /\ Edge((cmd \ {"start"}) \cup Pulse(core_start, "start") \cup Pulse(core_done, "done"))
        /\ Adapter(Started(cmd))
  BY DEF Clock
<1>2. "done" \notin cmd
  BY ReadoutAssumption
<1> DEFINE full == (cmd \ {"start"}) \cup Pulse(core_start, "start") \cup Pulse(core_done, "done")
<1>3. /\ "start" \in full => core_start
      /\ core_done => "done" \in full
  BY <1>2 DEF Pulse
<1>4. \/ state = "DONE" /\ "start" \in full
      \/ state = "READOUT" /\ "done" \notin full
  BY <1>1 DEF Edge, Clear, Arm, Refuse, Take, Finish, Move
<1>5. CASE core_start
  BY <1>1, <1>5 DEF Control, Adapter, IdlePhase, HeaderPhase, TriggerPhase, ReadPhase,
                    DataPhase, StatusPhase, DonePhase, SendPhase
<1>6. CASE ~core_done /\ phase # "IDLE"
  BY <1>1, <1>6 DEF Control, Phases, Adapter, IdlePhase, HeaderPhase, TriggerPhase, ReadPhase,
                    DataPhase, StatusPhase, DonePhase, SendPhase
<1> QED BY <1>3, <1>4, <1>5, <1>6 DEF Control, ReadoutOwned

(* An intact readout has its capture at hand at both ends of an edge.      *)
LEMMA IntactStays ==
    ASSUME Control, Clock
    PROVE  /\ intact' \in BOOLEAN
           /\ intact' => AtHand /\ AtHand'
           /\ intact' /\ ~intact => phase = "IDLE" /\ phase' = "HEADER"
<1>1. phase = "IDLE" /\ phase' = "HEADER" => state = "DONE"
  BY DEF Clock, Adapter, IdlePhase, HeaderPhase, TriggerPhase, ReadPhase,
         DataPhase, StatusPhase, DonePhase, SendPhase
<1> QED BY <1>1 DEF Clock, Observe, AtHand, Control

(* Pulses, port and window after an edge.                                  *)
LEMMA ControlStep ==
    ASSUME Control, Clock
    PROVE  Control'
<1>1. PICK cmd \in Commands : ReadPort(cmd) /\ Adapter(Started(cmd))
  BY DEF Clock
<1>2. Consumer /\ Observe
  BY DEF Clock
<1>3. /\ samples_written' \in 0 .. DEPTH
      /\ AtHand' => window' \in [1 .. samples_written' -> Sample]
      /\ intact' \in BOOLEAN /\ (intact' => AtHand')
      /\ ReadoutOwned'
  BY CaptureStays, IntactStays, OwnerStays
<1>4. sent' \in Seq(Own(sent'))
  BY <1>2, SentOwn DEF Control
<1>5. /\ read_valid' \in BOOLEAN
      /\ read_valid' => read_req
  BY <1>1 DEF ReadPort
<1>6. /\ phase' \in Phases
      /\ {core_start', core_done', read_req', msg_valid'} \subseteq BOOLEAN
      /\ core_start' => phase' = "HEADER"
      /\ core_done' => phase' = "IDLE"
      /\ read_req' => phase' = "DATA"
      /\ read_req /\ ~read_valid /\ phase = "DATA" => ~read_req' /\ phase' = "DATA"
  BY <1>1 DEF Control, Phases, Adapter, IdlePhase, HeaderPhase, TriggerPhase, ReadPhase,
              DataPhase, StatusPhase, DonePhase, SendPhase, NoPulse, NoLoad, Load
<1> QED BY <1>2, <1>3, <1>4, <1>5, <1>6 DEF Control, Consumer

(* At reset.                                                               *)
LEMMA InitControl == ASSUME InitReadout PROVE Control
<1>1. sent \in Seq(Own(sent))
  <2>1. sent = <<>>
    BY DEF InitReadout
  <2> QED BY <2>1, EmptySeq
<1>2. samples_written \in 0 .. DEPTH
  BY ReadoutAssumption DEF InitReadout, Init
<1>3. msg_ready \in BOOLEAN /\ state = "IDLE" /\ phase = "IDLE"
  BY DEF InitReadout, Init
<1> QED BY <1>1, <1>2, <1>3 DEF InitReadout, Control, Phases, ReadoutOwned, AtHand

(* The core is never left in READOUT, where it refuses to arm, without an *)
(* adapter that reads.                                                     *)
THEOREM ReadoutOwnedAlways == SpecReadout => []ReadoutOwned
<1>1. InitReadout => Control
  BY InitControl
<1>2. Control /\ [Clock]_vars => Control'
  <2>1. CASE Clock
    BY <2>1, ControlStep
  <2>2. CASE UNCHANGED vars
    BY <2>2 DEF vars, captureVars, port, pulses, output, environment, Control, Phases,
               ReadoutOwned, AtHand, Own
  <2> QED BY <2>1, <2>2
<1>3. Control => ReadoutOwned
  BY DEF Control
<1> QED BY <1>1, <1>2, <1>3, PTL DEF SpecReadout

-----------------------------------------------------------------------------
(* One more chunk.                                                         *)
LEMMA NextChunk ==
    ASSUME NEW n \in Nat, NEW count \in Nat, n * CHUNK < count
    PROVE  /\ (n + 1) * CHUNK = n * CHUNK + CHUNK
           /\ Smaller(n * CHUNK, count) = n * CHUNK /\ n * CHUNK \in Nat
           /\ Smaller((n + 1) * CHUNK, count) = n * CHUNK + Smaller(count - n * CHUNK, CHUNK)
           /\ (n + 1) * CHUNK < count + CHUNK
           /\ Smaller(count - n * CHUNK, CHUNK) \in 1 .. CHUNK
<1>1. CHUNK \in Nat \ {0}
  BY ReadoutAssumption
<1>2. n * CHUNK \in Nat /\ (n + 1) * CHUNK = n * CHUNK + CHUNK
  BY <1>1
<1> DEFINE p == n * CHUNK
<1> HIDE DEF p
<1>3. p \in Nat /\ p < count /\ (n + 1) * CHUNK = p + CHUNK
  BY <1>2 DEF p
<1> SUFFICES /\ (n + 1) * CHUNK = p + CHUNK
             /\ Smaller(p, count) = p
             /\ Smaller((n + 1) * CHUNK, count) = p + Smaller(count - p, CHUNK)
             /\ (n + 1) * CHUNK < count + CHUNK
             /\ Smaller(count - p, CHUNK) \in 1 .. CHUNK
  BY <1>3 DEF p
<1> QED BY <1>1, <1>3 DEF Smaller

(* A readout that is through sent the chunks it said it would.             *)
LEMMA TotalIsSent ==
    ASSUME NEW n, NEW total, NEW count \in Nat, Progress(n, count, total, count)
    PROVE  n \in Nat /\ total = n /\ n * CHUNK >= count
<1> DEFINE r == (count + CHUNK - 1) - CHUNK * n
<1>1. CHUNK \in Nat \ {0} /\ n \in Nat
  BY ReadoutAssumption DEF Progress
<1>2. n * CHUNK \in Nat /\ n * CHUNK = CHUNK * n
  BY <1>1
<1>3. n * CHUNK >= count
  BY <1>2 DEF Progress, Smaller
<1>4. CHUNK * n < count + CHUNK
  BY <1>2 DEF Progress
<1>5. r \in 0 .. CHUNK - 1 /\ (CHUNK * n) + r = count + CHUNK - 1
  BY <1>1, <1>2, <1>3, <1>4
<1> HIDE DEF r
<1>6. ((CHUNK * n) + r) \div CHUNK = n
  BY <1>1, <1>5, DivUnique
<1> QED BY <1>1, <1>3, <1>5, <1>6 DEF Progress, ChunksFor

(* The counters of an intact readout after an edge.                        *)
LEMMA CountersStep ==
    ASSUME Control, Counters, Filling, Clock
    PROVE  Counters'
<1> SUFFICES ASSUME intact'
             PROVE  /\ phase' # "IDLE" =>
                          Progress(chunks_sent', sample_index', chunks_total', samples_written')
                    /\ phase' \in {"HEADER", "TRIGGER"} => chunks_sent' = 0
                    /\ phase' = "STATUS" => sample_index' = samples_written'
  BY DEF Counters
<1>1. /\ samples_written' = samples_written /\ samples_written \in Nat
      /\ intact \/ (phase = "IDLE" /\ phase' = "HEADER")
  BY ReadoutAssumption, CaptureStays, IntactStays DEF Control
<1>2. PICK start : Adapter(start)
  BY DEF Clock
<1>3. CASE IdlePhase(start)
  <2>1. \/ phase' = "IDLE"
        \/ /\ phase' = "HEADER" /\ chunks_sent' = 0 /\ sample_index' = 0
           /\ chunks_total' = ChunksFor(samples_written)
    BY <1>3 DEF IdlePhase
  <2>2. Progress(0, 0, ChunksFor(samples_written), samples_written)
    <3>1. 0 * CHUNK = 0 /\ CHUNK > 0
      BY ReadoutAssumption
    <3>2. Smaller(0, samples_written) = 0
      BY <1>1 DEF Smaller
    <3> QED BY <1>1, <3>1, <3>2, ReadoutAssumption DEF Progress
  <2> QED BY <1>1, <2>1, <2>2
<1>4. CASE HeaderPhase \/ TriggerPhase \/ StatusPhase \/ DonePhase
  BY <1>1, <1>4 DEF HeaderPhase, TriggerPhase, StatusPhase, DonePhase, SendPhase, Counters, progress
<1>5. CASE ReadPhase
  <2>1. /\ intact /\ phase = "READ" /\ Progress(chunks_sent, sample_index, chunks_total, samples_written)
        /\ UNCHANGED <<chunks_sent, sample_index, chunks_total>>
        /\ phase' = "DATA" \/ (phase' = "STATUS" /\ sample_index >= samples_written)
    BY <1>1, <1>5 DEF ReadPhase, Counters, progress
  <2>2. sample_index \in Nat /\ sample_index <= samples_written
    <3>1. chunks_sent * CHUNK \in Nat
      BY <2>1, ReadoutAssumption DEF Progress
    <3> QED BY <1>1, <2>1, <3>1 DEF Progress, Smaller
  <2> QED BY <1>1, <2>1, <2>2
<1>6. CASE DataPhase
  <2>1. intact /\ phase = "DATA" /\ Progress(chunks_sent, sample_index, chunks_total, samples_written)
    BY <1>1, <1>6 DEF DataPhase, Counters
  <2>2. CASE UNCHANGED <<sample_index, chunks_sent, phase>>
    BY <1>1, <1>6, <2>1, <2>2 DEF DataPhase
  <2>3. CASE /\ sample_index' = sample_index + samples_in_chunk
             /\ chunks_sent' = chunks_sent + 1 /\ phase' = "READ"
    <3>1. /\ sample_index < samples_written
          /\ samples_in_chunk = Smaller(samples_written - sample_index, CHUNK)
      BY <2>1 DEF Filling
    <3>2. /\ chunks_sent \in Nat /\ chunks_sent * CHUNK \in Nat
          /\ sample_index = chunks_sent * CHUNK /\ chunks_sent * CHUNK < samples_written
      <4>1. chunks_sent \in Nat /\ chunks_sent * CHUNK \in Nat
        BY <2>1, ReadoutAssumption DEF Progress
      <4> QED BY <1>1, <2>1, <3>1, <4>1 DEF Progress, Smaller
    <3>3. /\ Smaller((chunks_sent + 1) * CHUNK, samples_written)
                = sample_index + samples_in_chunk
          /\ (chunks_sent + 1) * CHUNK < samples_written + CHUNK
      BY <1>1, <3>1, <3>2, NextChunk
    <3>4. chunks_total' = chunks_total
      BY <1>6 DEF DataPhase
    <3> QED BY <1>1, <2>1, <2>3, <3>2, <3>3, <3>4 DEF Progress
  <2> QED BY <1>6, <2>2, <2>3 DEF DataPhase
<1> QED BY <1>2, <1>3, <1>4, <1>5, <1>6 DEF Adapter

(* The answer of the port, for the sample that was asked for.              *)
LEMMA Answered ==
    ASSUME Control, Clock, read_valid'
    PROVE  read_req /\ ~read_valid /\ read_sample' = window[read_index + 1]
BY DEF Clock, ReadPort, Control

(* The chunk being filled after an edge.                                   *)
LEMMA FillingStep ==
    ASSUME Control, Counters, Filling, Clock
    PROVE  Filling'
<1> SUFFICES ASSUME intact', phase' = "DATA"
             PROVE  /\ sample_index' < samples_written'
                    /\ samples_in_chunk' = Smaller(samples_written' - sample_index', CHUNK)
                    /\ read_index' \in sample_index' .. sample_index' + samples_in_chunk' - 1
                    /\ data_payload' = [id |-> capture_id', chunk |-> chunks_sent',
                                        first |-> sample_index', count |-> samples_in_chunk',
                                        data |-> data_payload'.data]
                    /\ DOMAIN data_payload'.data = 0 .. CHUNK - 1
                    /\ \A k \in 0 .. read_index' - sample_index' - 1 :
                           data_payload'.data[k] = window'[sample_index' + k + 1]
                    /\ read_valid' => read_sample' = window'[read_index' + 1]
  BY DEF Filling
<1>1. /\ UNCHANGED <<samples_written, capture_id, window>> /\ samples_written \in Nat
      /\ intact
  BY ReadoutAssumption, CaptureStays, IntactStays DEF Control
<1>2. PICK start : Adapter(start)
  BY DEF Clock
<1>3. CASE ReadPhase
  <2>1. /\ phase = "READ" /\ ~(sample_index >= samples_written)
        /\ samples_in_chunk' = next_samples_in_chunk
        /\ data_payload' = [id |-> capture_id, chunk |-> chunks_sent,
                            first |-> sample_index,
                            count |-> next_samples_in_chunk, data |-> Blank]
        /\ read_index' = sample_index
        /\ UNCHANGED <<sample_index, chunks_sent>>
    BY <1>3, <1>1 DEF ReadPhase
  <2>2. sample_index \in Nat /\ CHUNK \in Nat \ {0}
    <3>1. Progress(chunks_sent, sample_index, chunks_total, samples_written)
      BY <1>1, <2>1 DEF Counters
    <3>2. chunks_sent * CHUNK \in Nat
      BY <3>1, ReadoutAssumption DEF Progress
    <3> QED BY <1>1, <3>1, <3>2, ReadoutAssumption DEF Progress, Smaller
  <2>3. sample_index < samples_written
    BY <1>1, <2>1, <2>2
  <2>4. next_samples_in_chunk = Smaller(samples_written - sample_index, CHUNK)
    BY DEF next_samples_in_chunk, remaining_samples
  <2>5. next_samples_in_chunk \in Nat \ {0}
    BY <1>1, <2>2, <2>3, <2>4 DEF Smaller
  <2>6. ~read_valid'
    BY <2>1, Answered DEF Control
  <2>7. data_payload'.data = Blank /\ DOMAIN Blank = 0 .. CHUNK - 1
    BY <2>1 DEF Blank
  <2>8. read_index' \in sample_index' .. sample_index' + samples_in_chunk' - 1
    BY <2>1, <2>2, <2>5
  <2>9. 0 .. read_index' - sample_index' - 1 = {}
    BY <2>1, <2>2
  <2> QED BY <1>1, <2>1, <2>3, <2>4, <2>6, <2>7, <2>8, <2>9
<1>4. CASE DataPhase
  <2>1. /\ phase = "DATA"
        /\ UNCHANGED <<samples_in_chunk, sample_index, chunks_sent>>
        /\ data_payload' = IF read_valid THEN Filled ELSE data_payload
        /\ \/ (~read_valid \/ chunk_complete) /\ UNCHANGED read_index
           \/ read_valid /\ ~chunk_complete /\ read_index' = read_index + 1
    BY <1>4 DEF DataPhase
  <2>2. /\ sample_index < samples_written
        /\ samples_in_chunk = Smaller(samples_written - sample_index, CHUNK)
        /\ read_index \in sample_index .. sample_index + samples_in_chunk - 1
        /\ data_payload = [id |-> capture_id, chunk |-> chunks_sent,
                           first |-> sample_index, count |-> samples_in_chunk,
                           data |-> data_payload.data]
        /\ DOMAIN data_payload.data = 0 .. CHUNK - 1
        /\ \A k \in 0 .. read_index - sample_index - 1 :
               data_payload.data[k] = window[sample_index + k + 1]
        /\ read_valid => read_sample = window[read_index + 1]
    BY <1>1, <2>1 DEF Filling
  <2>3. /\ sample_index \in Nat /\ CHUNK \in Nat \ {0} /\ samples_in_chunk \in 1 .. CHUNK
        /\ read_index \in Nat
    <3>1. Progress(chunks_sent, sample_index, chunks_total, samples_written)
      BY <1>1, <2>1 DEF Counters
    <3>2. chunks_sent * CHUNK \in Nat
      BY <3>1, ReadoutAssumption DEF Progress
    <3>3. sample_index \in Nat
      BY <1>1, <3>1, <3>2, ReadoutAssumption DEF Progress, Smaller
    <3> QED BY <1>1, <2>2, <3>3, ReadoutAssumption DEF Smaller
  <2>4. read_valid' => read_sample' = window[read_index' + 1]
    BY <2>1, Answered
  <2>5. CASE ~read_valid
    BY <1>1, <2>1, <2>2, <2>4, <2>5
  <2>6. CASE read_valid
    <3> DEFINE k == read_index - sample_index
    <3>1. k \in 0 .. CHUNK - 1
      BY <2>2, <2>3
    <3>2. data_payload' = [data_payload EXCEPT !.data[k] = read_sample]
      <4>1. Filled = IF k < CHUNK THEN [data_payload EXCEPT !.data[k] = read_sample]
                                  ELSE data_payload
        BY Zenon DEF Filled
      <4>2. k < CHUNK
        BY <2>3, <3>1
      <4> QED BY <2>1, <2>6, <4>1, <4>2, Zenon
    <3>3. /\ data_payload' = [id |-> capture_id, chunk |-> chunks_sent,
                              first |-> sample_index, count |-> samples_in_chunk,
                              data |-> [data_payload.data EXCEPT ![k] = read_sample]]
          /\ data_payload'.data = [data_payload.data EXCEPT ![k] = read_sample]
      BY <2>2, <3>2
    <3>4. /\ DOMAIN data_payload'.data = 0 .. CHUNK - 1
          /\ data_payload'.data[k] = read_sample
          /\ \A j \in 0 .. CHUNK - 1 : j # k => data_payload'.data[j] = data_payload.data[j]
      BY <2>2, <3>1, <3>3
    <3>5. read_sample = window[sample_index + k + 1]
      BY <2>2, <2>3, <2>6
    <3>6. \A j \in 0 .. k : data_payload'.data[j] = window[sample_index + j + 1]
      <4> SUFFICES ASSUME NEW j \in 0 .. k PROVE data_payload'.data[j] = window[sample_index + j + 1]
        OBVIOUS
      <4>1. CASE j = k
        BY <3>4, <3>5, <4>1
      <4>2. CASE j # k
        <5>1. j \in 0 .. read_index - sample_index - 1 /\ j \in 0 .. CHUNK - 1
          BY <2>3, <3>1, <4>2
        <5> QED BY <2>2, <3>4, <4>2, <5>1
      <4> QED BY <4>1, <4>2
    <3>7. /\ read_index' \in sample_index .. sample_index + samples_in_chunk - 1
          /\ 0 .. read_index' - sample_index - 1 \subseteq 0 .. k
      BY <2>1, <2>2, <2>3 DEF chunk_complete
    <3> QED BY <1>1, <2>1, <2>2, <2>4, <3>3, <3>4, <3>6, <3>7
  <2> QED BY <2>5, <2>6
<1> QED BY <1>2, <1>3, <1>4 DEF Adapter, IdlePhase, HeaderPhase, TriggerPhase, StatusPhase,
                                DonePhase, SendPhase

-----------------------------------------------------------------------------
(* A message that is not a chunk leaves the chunks of the ledger alone.    *)
LEMMA PlainTaken ==
    ASSUME NEW s, NEW n, NEW c, NEW m, Ledger(s, n, c), NoStatus(s), m.type # "data",
           s = <<>> => IsHeader(m, c), m.type = "status" => IsStatus(m, n, c)
    PROVE  Ledger(Append(s, m), n, c)
<1> DEFINE r == Append(s, m)
<1>1. /\ r \in Seq(Own(r)) /\ Len(r) = Len(s) + 1 /\ Len(s) \in Nat
      /\ r[Len(s) + 1] = m /\ \A i \in 1 .. Len(s) : r[i] = s[i]
      /\ DOMAIN s = 1 .. Len(s) /\ DOMAIN r = 1 .. Len(s) + 1
      /\ ItemsOf(r) = ItemsOf(s)
  BY OwnAppend DEF Ledger
<1> HIDE DEF r
<1>2. \A i \in DOMAIN r : i \in DOMAIN s \/ i = Len(s) + 1
  BY <1>1
<1>3. \A i \in DOMAIN s : i \in DOMAIN r /\ r[i] = s[i]
  BY <1>1
<1>4. Data(r) = Data(s)
  BY <1>1, <1>2, <1>3 DEF Data
<1>5. \A i \in Data(s) : r[i] = s[i]
  BY <1>3 DEF Data
<1>6. IsHeader(r[1], c)
  <2>1. CASE s = <<>>
    BY <1>1, <2>1, EmptySeq
  <2>2. CASE s # <<>>
    <3>1. Len(s) # 0
      BY <2>2, EmptySeq DEF Ledger
    <3>2. 1 \in DOMAIN s
      BY <1>1, <3>1
    <3> QED BY <1>3, <2>2, <3>2 DEF Ledger
  <2> QED BY <2>1, <2>2
<1>7. \A i \in DOMAIN r : r[i].type = "status" => i = Len(r) /\ IsStatus(r[i], n, c)
  BY <1>1, <1>2, <1>3 DEF NoStatus
<1>8. /\ n \in Nat /\ IsFiniteSet(Data(r)) /\ Cardinality(Data(r)) = n
      /\ ItemsOf(r) = [i \in 1 .. Smaller(n * CHUNK, c.count) |-> c.window[i]]
  BY <1>1, <1>4 DEF Ledger
<1>9. \A i \in Data(r) : /\ r[i].id = c.id
                         /\ r[i].chunk = Cardinality({j \in Data(r) : j < i})
                         /\ r[i].first = r[i].chunk * CHUNK
  BY <1>4, <1>5 DEF Ledger
<1>10. Ledger(r, n, c)
  BY <1>1, <1>6, <1>7, <1>8, <1>9 DEF Ledger
<1> QED BY <1>10 DEF r

(* The samples of the next chunk continue those of the chunks before.      *)
LEMMA ItemsContinue ==
    ASSUME NEW w, NEW p \in Nat, NEW k \in Nat
    PROVE  [i \in 1 .. p |-> w[i]] \o [i \in 1 .. k |-> w[p + i]] = [i \in 1 .. p + k |-> w[i]]
<1> DEFINE a == [i \in 1 .. p |-> w[i]]
           b == [i \in 1 .. k |-> w[p + i]]
           S == {w[i] : i \in 1 .. p + k}
<1>1. a \in [1 .. p -> S] /\ b \in [1 .. k -> S]
  OBVIOUS
<1>2. /\ a \in Seq(S) /\ Len(a) = p /\ \A i \in 1 .. p : a[i] = w[i]
      /\ b \in Seq(S) /\ Len(b) = k /\ \A i \in 1 .. k : b[i] = w[p + i]
  <2> HIDE DEF S
  <2>1. a \in Seq(S) /\ Len(a) = p
    <3> HIDE DEF a
    <3>1. a \in Seq(S)
      BY <1>1, IsASeq
    <3>2. DOMAIN a = 1 .. p
      BY <1>1
    <3> QED BY <3>1, <3>2, LenProperties
  <2>2. b \in Seq(S) /\ Len(b) = k
    <3> HIDE DEF b
    <3>1. b \in Seq(S)
      BY <1>1, IsASeq
    <3>2. DOMAIN b = 1 .. k
      BY <1>1
    <3> QED BY <3>1, <3>2, LenProperties
  <2> QED BY <2>1, <2>2
<1> HIDE DEF a, b, S
<1>3. /\ a \o b \in Seq(S) /\ Len(a \o b) = p + k
      /\ \A i \in 1 .. p + k : (a \o b)[i] = IF i <= p THEN a[i] ELSE b[i - p]
  BY <1>2, ConcatProperties
<1>4. a \o b = [i \in 1 .. p + k |-> (a \o b)[i]]
  BY <1>3, LenProperties
<1>5. \A i \in 1 .. p + k : (a \o b)[i] = w[i]
  <2> SUFFICES ASSUME NEW i \in 1 .. p + k PROVE (a \o b)[i] = w[i]
    OBVIOUS
  <2>1. CASE i <= p
    BY <1>2, <1>3, <2>1
  <2>2. CASE ~(i <= p)
    <3>1. i - p \in 1 .. k /\ p + (i - p) = i
      BY <2>2
    <3> QED BY <1>2, <1>3, <2>2, <3>1
  <2> QED BY <2>1, <2>2
<1>6. a \o b = [i \in 1 .. p + k |-> w[i]]
  BY <1>4, <1>5
<1> QED BY <1>6 DEF a, b

(* The next chunk of the window, taken.                                    *)
LEMMA ChunkTaken ==
    ASSUME NEW s, NEW n, NEW c, NEW m, Ledger(s, n, c), NoStatus(s), s # <<>>,
           IsChunk(m, n, c), c.count \in Nat, n * CHUNK < c.count
    PROVE  Ledger(Append(s, m), n + 1, c)
<1> DEFINE r == Append(s, m)
           p == n * CHUNK
           k == Smaller(c.count - p, CHUNK)
<1>1. /\ r \in Seq(Own(r)) /\ Len(r) = Len(s) + 1 /\ Len(s) \in Nat
      /\ r[Len(s) + 1] = m /\ \A i \in 1 .. Len(s) : r[i] = s[i]
      /\ DOMAIN s = 1 .. Len(s) /\ DOMAIN r = 1 .. Len(s) + 1
      /\ ItemsOf(r) = ItemsOf(s) \o m.samples
  <2>1. s \in Seq(Own(s)) /\ m.type = "data"
    BY DEF Ledger, IsChunk
  <2> QED BY <2>1, OwnAppend
<1>2. /\ n \in Nat /\ p \in Nat /\ k \in 1 .. CHUNK /\ CHUNK \in Nat
      /\ Smaller(p, c.count) = p /\ Smaller((n + 1) * CHUNK, c.count) = p + k
  BY NextChunk, ReadoutAssumption DEF Ledger
<1>3. ItemsOf(r) = [i \in 1 .. Smaller((n + 1) * CHUNK, c.count) |-> c.window[i]]
  <2>1. ItemsOf(s) = [i \in 1 .. p |-> c.window[i]]
    BY <1>2 DEF Ledger
  <2>2. m.samples = [i \in 1 .. k |-> c.window[p + i]]
    BY DEF IsChunk
  <2> HIDE DEF p, k, r
  <2>3. ItemsOf(r) = [i \in 1 .. p + k |-> c.window[i]]
    BY <1>1, <1>2, <2>1, <2>2, ItemsContinue
  <2> QED BY <1>2, <2>3
<1> HIDE DEF r, p, k
<1>4. \A i \in DOMAIN r : i \in DOMAIN s \/ i = Len(s) + 1
  BY <1>1
<1>5. \A i \in DOMAIN s : i \in DOMAIN r /\ r[i] = s[i] /\ i < Len(s) + 1 /\ i \in Int
  BY <1>1
<1>6. /\ Data(r) = Data(s) \cup {Len(s) + 1} /\ Len(s) + 1 \notin Data(s)
      /\ \A i \in Data(s) : i \in DOMAIN s
  BY <1>1, <1>4, <1>5 DEF Data, IsChunk
<1>7. /\ n + 1 \in Nat /\ IsFiniteSet(Data(r)) /\ Cardinality(Data(r)) = n + 1
  <2>1. IsFiniteSet(Data(s)) /\ Cardinality(Data(s)) = n
    BY DEF Ledger
  <2> QED BY <1>2, <1>6, <2>1, FS_AddElement
<1>8. ASSUME NEW i \in Data(r)
      PROVE  /\ r[i].id = c.id
             /\ r[i].chunk = Cardinality({j \in Data(r) : j < i})
             /\ r[i].first = r[i].chunk * CHUNK
  <2>1. CASE i \in Data(s)
    <3>1. {j \in Data(r) : j < i} = {j \in Data(s) : j < i}
      <4>1. i \in Int /\ i < Len(s) + 1 /\ ~(Len(s) + 1 < i)
        BY <1>1, <1>5, <1>6, <2>1
      <4> QED BY <1>6, <4>1
    <3>2. r[i] = s[i]
      BY <1>5, <1>6, <2>1
    <3> QED BY <2>1, <3>1, <3>2 DEF Ledger
  <2>2. CASE i = Len(s) + 1
    <3>1. {j \in Data(r) : j < i} = Data(s)
      <4>1. ~(i < i)
        BY <1>1, <2>2
      <4>2. \A j \in Data(s) : j < i
        BY <1>5, <1>6, <2>2
      <4> QED BY <1>6, <2>2, <4>1, <4>2
    <3>2. Cardinality(Data(s)) = n
      BY DEF Ledger
    <3> QED BY <1>1, <2>2, <3>1, <3>2 DEF IsChunk
  <2> QED BY <1>6, <2>1, <2>2
<1>9. IsHeader(r[1], c)
  <2>1. Len(s) # 0
    BY EmptySeq DEF Ledger
  <2>2. 1 \in DOMAIN s
    BY <1>1, <2>1
  <2> QED BY <1>5, <2>2 DEF Ledger
<1>10. NoStatus(r)
  BY <1>1, <1>4, <1>5 DEF NoStatus, IsChunk
<1>11. Ledger(r, n + 1, c)
  BY <1>1, <1>3, <1>7, <1>8, <1>9, <1>10 DEF Ledger, NoStatus
<1> QED BY <1>11 DEF r

(* The message at the output goes into the ledger when it is taken.        *)
LEMMA OutputTaken ==
    ASSUME NEW s, NEW v, NEW m, NEW n, NEW c, Books(s, v, m, n, c), v, c.count \in Nat
    PROVE  /\ Ledger(Append(s, m), n, c) /\ Append(s, m) # <<>>
           /\ m.type # "status" => NoStatus(Append(s, m))
<1>1. NoStatus(s) /\ (s = <<>> => IsHeader(m, c)) /\ s \in Seq(Own(s))
  BY DEF Books, Ledger
<1>2. /\ Append(s, m) # <<>>
      /\ m.type # "status" => NoStatus(Append(s, m))
  <2>1. /\ DOMAIN Append(s, m) = 1 .. Len(s) + 1 /\ Append(s, m)[Len(s) + 1] = m
        /\ Len(s) \in Nat /\ DOMAIN s = 1 .. Len(s) /\ Len(Append(s, m)) = Len(s) + 1
        /\ \A i \in 1 .. Len(s) : Append(s, m)[i] = s[i]
    BY <1>1, OwnAppend
  <2>2. Append(s, m) # <<>>
    BY <2>1, EmptySeq
  <2>3. \A i \in 1 .. Len(s) + 1 : i \in 1 .. Len(s) \/ i = Len(s) + 1
    BY <2>1
  <2> QED BY <1>1, <2>1, <2>2, <2>3 DEF NoStatus
<1>3. CASE m.type = "data"
  <2>1. /\ n \in Nat \ {0} /\ Ledger(s, n - 1, c)
        /\ IsChunk(m, n - 1, c) /\ (n - 1) * CHUNK < c.count
    BY <1>3 DEF Books
  <2>2. s # <<>>
    BY <1>1, <1>3 DEF IsHeader
  <2>3. Ledger(Append(s, m), (n - 1) + 1, c)
    BY <1>1, <2>1, <2>2, ChunkTaken
  <2>4. (n - 1) + 1 = n
    BY <2>1
  <2> QED BY <1>2, <2>3, <2>4
<1>4. CASE m.type # "data"
  <2>1. Ledger(s, n, c) /\ (m.type = "status" => IsStatus(m, n, c))
    BY <1>4 DEF Books
  <2> QED BY <1>1, <1>2, <1>4, <2>1, PlainTaken
<1> QED BY <1>3, <1>4

-----------------------------------------------------------------------------
(* On an edge that may load a message everything before it is taken.       *)
LEMMA LedgerNow ==
    ASSUME Control, Kept, Clock, intact, intact', phase # "HEADER", can_load_msg
    PROVE  /\ Ledger(sent', chunks_sent, Cap) /\ sent' # <<>>
           /\ phase \notin {"DONE", "IDLE"} => NoStatus(sent')
<1>1. /\ Books(sent, msg_valid, msg, chunks_sent, Cap)
      /\ phase \notin {"DONE", "IDLE"} => NoStatus(sent) /\ (msg_valid => msg.type # "status")
  BY DEF Kept
<1>2. sent' = IF msg_valid /\ msg_ready THEN Append(sent, msg) ELSE sent
  BY DEF Clock, Observe
<1>3. Cap.count \in Nat
  BY ReadoutAssumption DEF Cap, Control
<1>4. CASE msg_valid
  <2>1. sent' = Append(sent, msg)
    BY <1>2, <1>4 DEF can_load_msg
  <2>2. /\ Ledger(Append(sent, msg), chunks_sent, Cap) /\ Append(sent, msg) # <<>>
        /\ msg.type # "status" => NoStatus(Append(sent, msg))
    <3> HIDE DEF Cap
    <3> QED BY <1>1, <1>3, <1>4, OutputTaken
  <2> QED BY <1>1, <1>4, <2>1, <2>2
<1>5. CASE ~msg_valid
  <2>1. sent' = sent
    BY <1>2, <1>5
  <2>2. Ledger(sent, chunks_sent, Cap) /\ sent # <<>>
    BY <1>1, <1>5 DEF Books
  <2> QED BY <1>1, <2>1, <2>2
<1> QED BY <1>4, <1>5

(* An edge that loads nothing moves at most the old message.               *)
LEMMA OutputStays ==
    ASSUME Control, Kept, Clock, intact, intact', phase # "HEADER", NoLoad
    PROVE  /\ Books(sent', msg_valid', msg', chunks_sent, Cap)
           /\ phase \notin {"DONE", "IDLE"} =>
              NoStatus(sent') /\ (msg_valid' => msg'.type # "status")
<1>1. CASE can_load_msg
  <2>1. ~msg_valid'
    BY <1>1 DEF can_load_msg, NoLoad, Control
  <2> QED BY <1>1, <2>1, LedgerNow DEF Books
<1>2. CASE ~can_load_msg
  <2>1. msg_valid /\ msg_valid' /\ msg' = msg /\ sent' = sent /\ msg_valid' = msg_valid
    BY <1>2 DEF can_load_msg, NoLoad, Clock, Observe, Control
  <2> QED BY <2>1 DEF Kept
<1> QED BY <1>1, <1>2

(* The chunk that is complete is the next one of the window.               *)
LEMMA ChunkAtOutput ==
    ASSUME Control, Counters, Filling, intact, phase = "DATA", read_valid, chunk_complete
    PROVE  /\ IsChunk(DataMessage, chunks_sent, Cap)
           /\ chunks_sent \in Nat /\ chunks_sent * CHUNK < Cap.count
<1>1. /\ sample_index < samples_written
      /\ samples_in_chunk = Smaller(samples_written - sample_index, CHUNK)
      /\ read_index \in sample_index .. sample_index + samples_in_chunk - 1
      /\ data_payload = [id |-> capture_id, chunk |-> chunks_sent,
                         first |-> sample_index, count |-> samples_in_chunk,
                         data |-> data_payload.data]
      /\ DOMAIN data_payload.data = 0 .. CHUNK - 1
      /\ \A k \in 0 .. read_index - sample_index - 1 :
             data_payload.data[k] = window[sample_index + k + 1]
      /\ read_sample = window[read_index + 1]
  BY DEF Filling
<1>2. /\ samples_written \in Nat /\ CHUNK \in Nat \ {0}
      /\ Progress(chunks_sent, sample_index, chunks_total, samples_written)
  BY ReadoutAssumption DEF Control, Counters
<1>3. chunks_sent \in Nat /\ chunks_sent * CHUNK \in Nat
  BY <1>2 DEF Progress
<1>4. sample_index = chunks_sent * CHUNK /\ sample_index \in Nat
  BY <1>1, <1>2, <1>3 DEF Progress, Smaller
<1>5. samples_in_chunk \in 1 .. CHUNK
  BY <1>1, <1>2, <1>4 DEF Smaller
<1> DEFINE k == read_index - sample_index
<1>6. k = samples_in_chunk - 1 /\ k \in 0 .. CHUNK - 1
  BY <1>1, <1>2, <1>4, <1>5 DEF chunk_complete
<1>7. Filled = [data_payload EXCEPT !.data[k] = read_sample]
  <2>1. Filled = IF k < CHUNK THEN [data_payload EXCEPT !.data[k] = read_sample]
                              ELSE data_payload
    BY Zenon DEF Filled
  <2>2. k < CHUNK
    BY <1>2, <1>6
  <2> QED BY <2>1, <2>2, Zenon
<1>8. Filled.data = [data_payload.data EXCEPT ![k] = read_sample]
  BY <1>1, <1>7
<1>9. ASSUME NEW i \in 1 .. samples_in_chunk
      PROVE  Filled.data[i - 1] = window[sample_index + i]
  <2>1. CASE i - 1 = k
    <3>1. read_index + 1 = sample_index + i
      BY <1>1, <1>4, <1>5, <2>1
    <3> QED BY <1>1, <1>6, <1>8, <2>1, <3>1
  <2>2. CASE i - 1 # k
    <3>1. i - 1 \in 0 .. read_index - sample_index - 1 /\ i - 1 \in 0 .. CHUNK - 1
          /\ sample_index + (i - 1) + 1 = sample_index + i
      BY <1>1, <1>2, <1>4, <1>5, <1>6, <2>2
    <3>2. data_payload.data[i - 1] = window[sample_index + (i - 1) + 1]
      BY <1>1, <3>1
    <3> QED BY <1>1, <1>8, <2>2, <3>1, <3>2
  <2> QED BY <2>1, <2>2
<1>10. [i \in 1 .. samples_in_chunk |-> Filled.data[i - 1]]
         = [i \in 1 .. samples_in_chunk |-> window[sample_index + i]]
  BY <1>9
<1>11. data_payload.id = capture_id /\ data_payload.chunk = chunks_sent
       /\ data_payload.first = sample_index
  BY <1>1
<1>12. IsChunk(DataMessage, chunks_sent, Cap)
  <2>1. DataMessage.samples = [i \in 1 .. Smaller(samples_written - chunks_sent * CHUNK, CHUNK) |->
                                 window[chunks_sent * CHUNK + i]]
    BY <1>1, <1>4, <1>10 DEF DataMessage
  <2>2. /\ DataMessage.type = "data" /\ DataMessage.id = capture_id
        /\ DataMessage.chunk = chunks_sent /\ DataMessage.first = chunks_sent * CHUNK
    BY <1>4, <1>11 DEF DataMessage
  <2> QED BY <2>1, <2>2 DEF IsChunk, Cap
<1> QED BY <1>1, <1>3, <1>4, <1>12 DEF Cap

(* The ledger and the output after an edge.                                *)
LEMMA KeptStep ==
    ASSUME Control, Counters, Filling, Kept, Clock
    PROVE  Kept'
<1> SUFFICES ASSUME intact', phase' # "HEADER"
             PROVE  /\ Books(sent', msg_valid', msg', chunks_sent', Cap)
                    /\ phase' \notin {"DONE", "IDLE"} =>
                         NoStatus(sent') /\ (msg_valid' => msg'.type # "status")
  <2>1. intact' => Cap' = Cap
    BY CaptureStays, IntactStays DEF Cap
  <2> QED BY <2>1 DEF Kept
<1>1. intact
  BY IntactStays
<1>2. PICK start : Adapter(start)
  BY DEF Clock
<1>3. CASE HeaderPhase
  <2>1. /\ phase = "HEADER" /\ msg_valid' /\ chunks_sent' = chunks_sent
        /\ msg' = [type |-> "header", id |-> capture_id, count |-> samples_written]
        /\ phase' \notin {"DONE", "IDLE"}
    BY <1>3 DEF HeaderPhase, SendPhase, Load, progress
  <2>2. sent' = <<>> /\ chunks_sent = 0
    BY <1>1, <2>1 DEF Clock, Observe, Counters
  <2>3. Ledger(<<>>, 0, Cap) /\ NoStatus(<<>>)
    <3>1. <<>> \in Seq(Own(<<>>)) /\ DOMAIN <<>> = {}
      BY EmptySeq
    <3>2. Data(<<>>) = {}
      BY <3>1 DEF Data
    <3>3. IsFiniteSet({}) /\ Cardinality({}) = 0
      BY FS_EmptySet
    <3>4. Cap.count \in Nat /\ 0 * CHUNK = 0
      BY ReadoutAssumption DEF Cap, Control
    <3>5. 1 .. Smaller(0 * CHUNK, Cap.count) = {}
      BY <3>4 DEF Smaller
    <3>6. [i \in 1 .. Smaller(0 * CHUNK, Cap.count) |-> Cap.window[i]] = <<>>
      BY <3>5
    <3> HIDE DEF Cap
    <3>7. NoStatus(<<>>)
      BY <3>1 DEF NoStatus
    <3>8. Ledger(<<>>, 0, Cap)
      BY <3>1, <3>2, <3>3, <3>6, ItemsEmpty DEF Ledger
    <3> QED BY <3>7, <3>8
  <2>4. msg'.type = "header" /\ IsHeader(msg', Cap)
    BY <2>1 DEF IsHeader, Cap
  <2> HIDE DEF Cap
  <2> QED BY <2>1, <2>2, <2>3, <2>4 DEF Books
<1>4. CASE phase # "HEADER" /\ NoLoad /\ chunks_sent' = chunks_sent
           /\ (phase \in {"DONE", "IDLE"} => phase' \in {"DONE", "IDLE"})
  <2>1. phase # "HEADER" /\ NoLoad
    BY <1>4
  <2>2. /\ Books(sent', msg_valid', msg', chunks_sent, Cap)
        /\ phase \notin {"DONE", "IDLE"} =>
              NoStatus(sent') /\ (msg_valid' => msg'.type # "status")
    BY <1>1, <2>1, OutputStays
  <2>3. chunks_sent' = chunks_sent
    BY <1>4
  <2>4. phase' \notin {"DONE", "IDLE"} => phase \notin {"DONE", "IDLE"}
    BY <1>4
  <2> HIDE DEF Cap
  <2>5. Books(sent', msg_valid', msg', chunks_sent', Cap)
    BY <2>2, <2>3, Zenon
  <2>6. phase' \notin {"DONE", "IDLE"} =>
              NoStatus(sent') /\ (msg_valid' => msg'.type # "status")
    BY <2>2, <2>4, Zenon
  <2> QED BY <2>5, <2>6, Zenon
<1>5. CASE TriggerPhase
  <2>1. CASE NoLoad
    BY <1>4, <1>5, <2>1 DEF TriggerPhase, SendPhase, progress
  <2>2. CASE can_load_msg /\ Load([type |-> "trigger", id |-> capture_id])
    <3>1. /\ phase = "TRIGGER" /\ msg_valid' /\ chunks_sent' = chunks_sent
          /\ msg'.type = "trigger"
      BY <1>5, <2>2 DEF TriggerPhase, SendPhase, Load, progress
    <3>2. Ledger(sent', chunks_sent, Cap) /\ sent' # <<>> /\ NoStatus(sent')
      BY <1>1, <2>2, <3>1, LedgerNow
    <3> HIDE DEF Cap
    <3> QED BY <3>1, <3>2 DEF Books
  <2> QED BY <1>5, <2>1, <2>2 DEF TriggerPhase, SendPhase
<1>6. CASE StatusPhase
  <2> DEFINE m == [type |-> "status", id |-> capture_id, count |-> samples_written,
                   sent |-> chunks_sent, total |-> chunks_total]
  <2>1. CASE NoLoad
    BY <1>4, <1>6, <2>1 DEF StatusPhase, SendPhase, progress
  <2>2. CASE can_load_msg /\ Load(m) /\ phase' = "DONE"
    <3>1. /\ phase = "STATUS" /\ msg_valid' /\ chunks_sent' = chunks_sent /\ msg' = m
      BY <1>6, <2>2 DEF StatusPhase, SendPhase, Load, progress
    <3>2. Ledger(sent', chunks_sent, Cap) /\ sent' # <<>> /\ NoStatus(sent')
      BY <1>1, <2>2, <3>1, LedgerNow
    <3>3. IsStatus(msg', chunks_sent, Cap)
      <4>1. Progress(chunks_sent, samples_written, chunks_total, samples_written)
        BY <1>1, <3>1 DEF Counters
      <4>2. samples_written \in Nat
        BY ReadoutAssumption DEF Control
      <4>3. chunks_total = chunks_sent /\ chunks_sent * CHUNK >= samples_written
        BY <4>1, <4>2, TotalIsSent
      <4> QED BY <3>1, <4>3 DEF IsStatus, Cap
    <3>4. msg'.type = "status"
      BY <3>1
    <3> HIDE DEF Cap, m
    <3>5. Books(sent', msg_valid', msg', chunks_sent', Cap)
      BY <3>1, <3>2, <3>3, <3>4 DEF Books
    <3> QED BY <2>2, <3>5
  <2> QED BY <1>6, <2>1, <2>2 DEF StatusPhase, SendPhase
<1>7. CASE DataPhase
  <2>1. CASE NoLoad /\ chunks_sent' = chunks_sent
    BY <1>4, <1>7, <2>1 DEF DataPhase
  <2>2. CASE /\ read_valid /\ chunk_complete /\ can_load_msg /\ Load(DataMessage)
             /\ chunks_sent' = chunks_sent + 1
    <3>1. phase = "DATA" /\ msg_valid' /\ msg' = DataMessage
      BY <1>7, <2>2 DEF DataPhase, Load
    <3>2. Ledger(sent', chunks_sent, Cap) /\ sent' # <<>> /\ NoStatus(sent')
      BY <1>1, <2>2, <3>1, LedgerNow
    <3>3. /\ IsChunk(msg', chunks_sent, Cap)
          /\ chunks_sent \in Nat /\ chunks_sent * CHUNK < Cap.count
      BY <1>1, <2>2, <3>1, ChunkAtOutput
    <3>4. chunks_sent' \in Nat \ {0} /\ chunks_sent' - 1 = chunks_sent
      BY <2>2, <3>3
    <3> HIDE DEF Cap
    <3>5. msg'.type = "data"
      BY <3>3 DEF IsChunk
    <3> QED BY <3>1, <3>2, <3>3, <3>4, <3>5 DEF Books
  <2> QED BY <1>7, <2>1, <2>2 DEF DataPhase
<1>8. CASE IdlePhase(start) \/ ReadPhase \/ DonePhase
  BY <1>4, <1>8 DEF IdlePhase, ReadPhase, DonePhase, progress
<1> QED BY <1>2, <1>3, <1>5, <1>6, <1>7, <1>8 DEF Adapter

-----------------------------------------------------------------------------
(* What is known of an intact readout is kept by every edge, whatever the *)
(* host commands and the consumer does.                                    *)
THEOREM ReadoutInvariant == SpecReadout => []ReadoutInv
<1>1. InitReadout => ReadoutInv
  <2>1. InitReadout => ~intact
    BY DEF InitReadout
  <2> QED BY <2>1, InitControl DEF ReadoutInv, Counters, Filling, Kept
<1>2. ReadoutInv /\ [Clock]_vars => ReadoutInv'
  <2> SUFFICES ASSUME ReadoutInv, [Clock]_vars PROVE ReadoutInv'
    OBVIOUS
  <2>1. CASE Clock
    BY <2>1, ControlStep, CountersStep, FillingStep, KeptStep DEF ReadoutInv
  <2>2. CASE UNCHANGED vars
    BY <2>2 DEF vars, captureVars, progress, port, pulses, output, environment, ReadoutInv,
                Control, Phases, ReadoutOwned, AtHand, Own, Counters, Filling, Kept, Cap
  <2> QED BY <2>1, <2>2
<1> QED BY <1>1, <1>2, PTL DEF SpecReadout

(* What an intact readout sent, as Before, DataAt and SentItems see it.    *)
LEMMA LedgerOfSent ==
    ASSUME ReadoutInv, intact, phase # "HEADER"
    PROVE  /\ \E n \in Nat : Ledger(sent, n, Cap)
           /\ ~NoStatus(sent) => Ledger(sent, chunks_sent, Cap) /\ sent # <<>>
           /\ samples_written \in Nat /\ window \in Seq(Sample)
           /\ Len(window) = samples_written
<1>1. Books(sent, msg_valid, msg, chunks_sent, Cap)
  BY DEF ReadoutInv, Kept
<1>2. /\ samples_written \in Nat /\ window \in [1 .. samples_written -> Sample]
  BY ReadoutAssumption DEF ReadoutInv, Control
<1>3. window \in Seq(Sample) /\ Len(window) = samples_written
  <2>1. window \in Seq(Sample)
    BY <1>2, IsASeq
  <2>2. DOMAIN window = 1 .. samples_written
    BY <1>2
  <2> QED BY <1>2, <2>1, <2>2, LenProperties
<1>4. \E n \in Nat : Ledger(sent, n, Cap)
  <2>1. CASE Ledger(sent, chunks_sent, Cap)
    <3>1. chunks_sent \in Nat
      BY <2>1 DEF Ledger
    <3> QED BY <2>1, <3>1
  <2>2. CASE Ledger(sent, chunks_sent - 1, Cap)
    <3>1. chunks_sent - 1 \in Nat
      BY <2>2 DEF Ledger
    <3> QED BY <2>2, <3>1
  <2> QED BY <1>1, <2>1, <2>2 DEF Books
<1>5. ~NoStatus(sent) => Ledger(sent, chunks_sent, Cap) /\ sent # <<>>
  BY <1>1 DEF Books
<1> QED BY <1>2, <1>3, <1>4, <1>5

(* The chunks of a readout are the samples of the window from the first    *)
(* on, none left out, repeated or moved, whatever stalls the consumer      *)
(* makes and whatever is commanded, as long as the capture is not given up.*)
THEOREM ReadoutSendsTheWindow == SpecReadout => []SentIsWindow
<1>1. ReadoutInv => SentIsWindow
  <2> SUFFICES ASSUME ReadoutInv, intact, phase # "HEADER"
               PROVE  /\ IsPrefix(SentItems, window)
                      /\ \A i \in DataAt : /\ sent[i].id = capture_id
                                           /\ sent[i].chunk = Before(i)
                                           /\ sent[i].first = Before(i) * CHUNK
    BY DEF SentIsWindow
  <2>1. PICK n \in Nat : Ledger(sent, n, Cap)
    BY LedgerOfSent
  <2>2. DataAt = Data(sent) /\ \A i \in DataAt : Before(i) = Cardinality({j \in Data(sent) : j < i})
    BY DEF DataAt, Data, Before
  <2>3. \A i \in DataAt : /\ sent[i].id = capture_id
                          /\ sent[i].chunk = Before(i)
                          /\ sent[i].first = Before(i) * CHUNK
    BY <2>1, <2>2 DEF Ledger, Cap
  <2> DEFINE L == Smaller(n * CHUNK, samples_written)
  <2>4. SentItems = [i \in 1 .. L |-> window[i]]
    BY <2>1, SentItemsAre DEF Ledger, Cap
  <2>5. L \in Nat /\ L <= samples_written
    <3>1. n * CHUNK \in Nat /\ samples_written \in Nat
      BY ReadoutAssumption, LedgerOfSent
    <3> QED BY <3>1 DEF Smaller
  <2> HIDE DEF L
  <2>6. /\ window \in Seq(Sample) /\ Len(window) = samples_written
        /\ samples_written \in Nat
    BY LedgerOfSent
  <2>7. IsPrefix(SentItems, window)
    <3>1. \A i \in 1 .. L : window[i] \in Sample
      BY <2>5, <2>6, ElementOfSeq
    <3>2. SentItems \in [1 .. L -> Sample]
      BY <2>4, <3>1
    <3>3. SentItems \in Seq(Sample) /\ Len(SentItems) = L
      <4>1. SentItems \in Seq(Sample)
        BY <2>5, <3>2, IsASeq
      <4>2. DOMAIN SentItems = 1 .. L
        BY <3>2
      <4> QED BY <2>5, <4>1, <4>2, LenProperties
    <3>4. SubSeq(SentItems, 1, L) = SubSeq(window, 1, L)
      <4>1. \A i \in 1 .. L : SentItems[i] = window[i]
        BY <2>4
      <4> HIDE DEF SentItems
      <4> QED BY <2>5, <2>6, <3>3, <4>1
    <3> QED BY <2>5, <2>6, <3>3, <3>4 DEF IsPrefix
  <2> QED BY <2>3, <2>7
<1> QED BY <1>1, ReadoutInvariant, PTL

(* A status message closes a readout that is complete: after the header,   *)
(* with as many chunks as it and the header say.                           *)
THEOREM StatusClosesTheReadout == SpecReadout => []StatusAccounts
<1>1. ReadoutInv => StatusAccounts
  <2> SUFFICES ASSUME ReadoutInv, NEW i \in DOMAIN sent, sent[i].type = "status",
                      intact, phase # "HEADER"
               PROVE  /\ i = Len(sent) /\ sent[1].type = "header"
                      /\ SentItems = window /\ sent[1].count = Len(window)
                      /\ sent[i].sent = Cardinality(DataAt)
                      /\ sent[i].total = Cardinality(DataAt)
    BY DEF StatusAccounts
  <2>1. Ledger(sent, chunks_sent, Cap) /\ sent # <<>>
    BY LedgerOfSent DEF NoStatus
  <2>2. /\ samples_written \in Nat /\ window \in Seq(Sample)
        /\ Len(window) = samples_written
    BY LedgerOfSent
  <2>3. DataAt = Data(sent)
    BY DEF DataAt, Data
  <2>4. i = Len(sent) /\ IsStatus(sent[i], chunks_sent, Cap)
    BY <2>1 DEF Ledger
  <2>5. sent[1].type = "header" /\ sent[1].count = samples_written
    BY <2>1 DEF Ledger, IsHeader, Cap
  <2>6. SentItems = [j \in 1 .. samples_written |-> window[j]]
    <3>1. SentItems = [j \in 1 .. Smaller(chunks_sent * CHUNK, samples_written) |-> window[j]]
      BY <2>1, SentItemsAre DEF Ledger, Cap
    <3>2. chunks_sent * CHUNK >= samples_written /\ chunks_sent * CHUNK \in Nat
      BY <2>1, <2>4, ReadoutAssumption DEF IsStatus, Cap, Ledger
    <3>3. Smaller(chunks_sent * CHUNK, samples_written) = samples_written
      BY <2>2, <3>2 DEF Smaller
    <3> QED BY <3>1, <3>3
  <2>7. SentItems = window
    <3>1. window = [j \in 1 .. samples_written |-> window[j]]
      BY <2>2, LenProperties
    <3> QED BY <2>6, <3>1
  <2>8. sent[i].sent = Cardinality(DataAt) /\ sent[i].total = Cardinality(DataAt)
    BY <2>1, <2>3, <2>4 DEF Ledger, IsStatus
  <2> QED BY <2>2, <2>4, <2>5, <2>7, <2>8
<1> QED BY <1>1, ReadoutInvariant, PTL

-----------------------------------------------------------------------------
(* Types.  The places of a chunk stay inside the memory, also when the     *)
(* capture is replaced while the chunk is being filled.                    *)
Inside ==
    /\ TypeOK /\ read_sample \in Sample
    /\ data_payload = [id |-> data_payload.id, chunk |-> data_payload.chunk,
                       first |-> data_payload.first, count |-> data_payload.count,
                       data |-> data_payload.data]
    /\ chunks_sent <= sample_index
    /\ phase = "DATA" => /\ samples_in_chunk >= 1
                         /\ sample_index + samples_in_chunk <= DEPTH
                         /\ sample_index <= read_index
                         /\ read_index < sample_index + samples_in_chunk

(* There are no more chunks than samples.                                  *)
LEMMA TotalFits ==
    ASSUME NEW n \in 0 .. DEPTH
    PROVE  ChunksFor(n) \in 0 .. DEPTH
<1> DEFINE x == n + CHUNK - 1
           q == x \div CHUNK
<1>1. CHUNK \in Nat \ {0} /\ n \in Nat /\ n <= DEPTH /\ DEPTH \in Nat /\ x \in Nat
  BY ReadoutAssumption
<1> HIDE DEF x
<1>2. q \in Int /\ x % CHUNK \in 0 .. CHUNK - 1 /\ x = (CHUNK * q) + (x % CHUNK)
  BY <1>1, ModDef
<1> HIDE DEF q
<1>3. 0 <= q
  <2> SUFFICES ASSUME q <= -1 PROVE FALSE
    BY <1>2
  <2>1. CHUNK * q <= 0 - CHUNK
    BY <1>1, <1>2
  <2>2. CHUNK * q \in Int
    BY <1>1, <1>2
  <2> QED BY <1>1, <1>2, <2>1, <2>2
<1>4. q <= n
  <2> SUFFICES ASSUME q >= n + 1 PROVE FALSE
    BY <1>1, <1>2
  <2> DEFINE d == q - (n + 1)
  <2>1. d \in Nat /\ q = (n + 1) + d
    BY <1>1, <1>2
  <2> HIDE DEF d
  <2>2. CHUNK * q = CHUNK * n + CHUNK + CHUNK * d
    BY <1>1, <2>1
  <2>3. CHUNK * d >= 0 /\ CHUNK * n >= n /\ CHUNK * d \in Int /\ CHUNK * n \in Int
    BY <1>1, <2>1
  <2>4. x = n + CHUNK - 1
    BY DEF x
  <2> QED BY <1>1, <1>2, <2>2, <2>3, <2>4
<1>5. ChunksFor(n) = q
  BY DEF ChunksFor, q, x
<1> QED BY <1>1, <1>2, <1>3, <1>4, <1>5

(* The capture side.                                                       *)
LEMMA CaptureTypes ==
    ASSUME TypeOK, Clock
    PROVE  /\ state' \in {"IDLE", "ACTIVE", "DONE", "READOUT", "ERROR"}
           /\ samples_written' \in 0 .. DEPTH /\ capture_id' \in 0 .. ID_MOD - 1
           /\ window' \in Seq(Sample) /\ triggered' \in BOOLEAN
<1>1. PICK cmd : Edge(cmd)
  BY DEF Clock
<1>2. /\ state \in {"IDLE", "ACTIVE", "DONE", "READOUT", "ERROR"}
      /\ samples_written \in 0 .. DEPTH /\ capture_id \in 0 .. ID_MOD - 1
      /\ window \in Seq(Sample) /\ triggered \in BOOLEAN
  BY DEF TypeOK
<1>3. <<>> \in Seq(Sample)
  BY EmptySeq
<1>4. CASE Clear
  <2>1. /\ state' = "IDLE" /\ samples_written' = 0 /\ triggered' = FALSE
        /\ window' = <<>> /\ capture_id' = capture_id
    BY <1>4 DEF Clear
  <2>2. samples_written' \in 0 .. DEPTH
    BY <2>1, ReadoutAssumption
  <2>3. window' \in Seq(Sample)
    BY <1>3, <2>1
  <2> QED BY <1>2, <2>1, <2>2, <2>3
<1>5. CASE Arm
  <2>1. /\ state' = "ACTIVE" /\ samples_written' = 0 /\ triggered' = FALSE
        /\ window' = <<>> /\ capture_id' = (capture_id + 1) % ID_MOD
    BY <1>5 DEF Arm
  <2>2. (capture_id + 1) % ID_MOD \in 0 .. ID_MOD - 1
    <3>1. capture_id + 1 \in Int /\ ID_MOD \in Nat \ {0}
      BY <1>2, ReadoutAssumption
    <3> QED BY <3>1, ModDef
  <2>3. samples_written' \in 0 .. DEPTH
    BY <2>1, ReadoutAssumption
  <2>4. window' \in Seq(Sample)
    BY <1>3, <2>1
  <2> QED BY <2>1, <2>2, <2>3, <2>4
<1>6. CASE Refuse
  BY <1>2, <1>3, <1>6 DEF Refuse
<1>7. CASE state = "ACTIVE" /\ Take
  BY <1>2, <1>7 DEF Take, Counted
<1>8. CASE Finish
  <2>1. samples_written' \in 0 .. DEPTH
    BY <1>8 DEF Finish, Counted
  <2>2. samples_written' \in Nat
    BY <2>1, ReadoutAssumption
  <2>3. window' \in Seq(Sample)
    BY <1>8, <2>2, IsASeq DEF Finish
  <2> QED BY <1>2, <1>8, <2>1, <2>3 DEF Finish
<1>9. CASE Move("READOUT") \/ Move("DONE") \/ Move(state)
  BY <1>2, <1>9 DEF Move
<1> QED BY <1>1, <1>4, <1>5, <1>6, <1>7, <1>8, <1>9 DEF Edge

(* The read port.                                                          *)
LEMMA PortTypes ==
    ASSUME Inside, Control, Clock
    PROVE  read_valid' \in BOOLEAN /\ read_sample' \in Sample
<1>1. PICK cmd : ReadPort(cmd)
  BY DEF Clock
<1>2. CASE read_sample' = read_sample
  BY <1>1, <1>2 DEF ReadPort, Inside
<1>3. CASE read_sample' = window[read_index + 1] /\ AtHand /\ read_index < samples_written
  <2>1. read_index \in 0 .. DEPTH /\ samples_written \in 0 .. DEPTH
    BY DEF Inside, TypeOK
  <2>2. read_index + 1 \in 1 .. samples_written
    BY <1>3, <2>1, ReadoutAssumption
  <2>3. window \in [1 .. samples_written -> Sample]
    BY <1>3 DEF Control
  <2>4. read_valid' \in BOOLEAN
    BY <1>1 DEF ReadPort
  <2> QED BY <1>3, <2>2, <2>3, <2>4
<1> QED BY <1>1, <1>2, <1>3 DEF ReadPort, AtHand

(* What the adapter keeps of its progress.                                 *)
LEMMA AdapterTypes ==
    ASSUME Inside, Control, Clock
    PROVE  /\ {sample_index', read_index'} \subseteq 0 .. DEPTH
           /\ samples_in_chunk' \in 0 .. CHUNK
           /\ chunks_sent' \in 0 .. DEPTH /\ chunks_total' \in 0 .. DEPTH
           /\ data_payload' = [id |-> data_payload'.id, chunk |-> data_payload'.chunk,
                               first |-> data_payload'.first, count |-> data_payload'.count,
                               data |-> data_payload'.data]
           /\ data_payload'.data \in [0 .. CHUNK - 1 -> Sample]
           /\ chunks_sent' <= sample_index'
           /\ phase' = "DATA" => /\ samples_in_chunk' >= 1
                                 /\ sample_index' + samples_in_chunk' <= DEPTH
                                 /\ sample_index' <= read_index'
                                 /\ read_index' < sample_index' + samples_in_chunk'
<1> DEFINE Goal(si, ri, k, n, tot, pay, ph) ==
             /\ {si, ri} \subseteq 0 .. DEPTH /\ k \in 0 .. CHUNK
             /\ n \in 0 .. DEPTH /\ tot \in 0 .. DEPTH
             /\ pay = [id |-> pay.id, chunk |-> pay.chunk, first |-> pay.first,
                       count |-> pay.count, data |-> pay.data]
             /\ pay.data \in [0 .. CHUNK - 1 -> Sample]
             /\ n <= si
             /\ ph = "DATA" => k >= 1 /\ si + k <= DEPTH /\ si <= ri /\ ri < si + k
<1> SUFFICES Goal(sample_index', read_index', samples_in_chunk', chunks_sent', chunks_total',
                  data_payload', phase')
  OBVIOUS
<1>1. Goal(sample_index, read_index, samples_in_chunk, chunks_sent, chunks_total, data_payload, phase)
  BY DEF Inside, TypeOK
<1>2. DEPTH \in Nat \ {0} /\ CHUNK \in Nat \ {0} /\ 0 \in Sample
      /\ samples_written \in 0 .. DEPTH /\ read_sample \in Sample
  BY ReadoutAssumption DEF Control, Inside
<1>3. PICK start : Adapter(start)
  BY DEF Clock
<1>4. ASSUME UNCHANGED progress, phase' # "DATA" PROVE Goal(sample_index', read_index', samples_in_chunk', chunks_sent', chunks_total',
                  data_payload', phase')
  BY <1>1, <1>4 DEF progress
<1>5. CASE IdlePhase(start)
  <2>1. CASE UNCHANGED progress
    BY <1>4, <1>5, <2>1 DEF IdlePhase
  <2>2. CASE /\ chunks_total' = ChunksFor(samples_written) /\ chunks_sent' = 0
             /\ sample_index' = 0 /\ phase' = "HEADER"
             /\ UNCHANGED <<samples_in_chunk, data_payload, read_index>>
    <3>1. ChunksFor(samples_written) \in 0 .. DEPTH
      BY <1>2, TotalFits
    <3> QED BY <1>1, <1>2, <2>2, <3>1
  <2> QED BY <1>5, <2>1, <2>2 DEF IdlePhase
<1>6. CASE HeaderPhase \/ TriggerPhase \/ StatusPhase \/ DonePhase
  BY <1>4, <1>6 DEF HeaderPhase, TriggerPhase, StatusPhase, DonePhase, SendPhase
<1>7. CASE ReadPhase
  <2>1. CASE UNCHANGED progress /\ phase' = "STATUS"
    BY <1>4, <2>1
  <2>2. CASE /\ ~(sample_index >= samples_written)
             /\ samples_in_chunk' = next_samples_in_chunk
             /\ data_payload' = [id |-> capture_id, chunk |-> chunks_sent,
                                 first |-> sample_index,
                                 count |-> next_samples_in_chunk, data |-> Blank]
             /\ read_index' = sample_index /\ phase' = "DATA"
             /\ UNCHANGED <<sample_index, chunks_sent, chunks_total>>
    <3>1. /\ next_samples_in_chunk \in 1 .. CHUNK
          /\ sample_index + next_samples_in_chunk <= DEPTH
      BY <1>1, <1>2, <2>2 DEF next_samples_in_chunk, remaining_samples, Smaller
    <3>2. Blank \in [0 .. CHUNK - 1 -> Sample]
      BY <1>2 DEF Blank
    <3>3. /\ data_payload'.data = Blank
          /\ data_payload' = [id |-> data_payload'.id, chunk |-> data_payload'.chunk,
                              first |-> data_payload'.first, count |-> data_payload'.count,
                              data |-> data_payload'.data]
      BY <2>2
    <3> QED BY <1>1, <1>2, <2>2, <3>1, <3>2, <3>3
  <2> QED BY <1>7, <2>1, <2>2 DEF ReadPhase
<1>8. CASE DataPhase
  <2>1. /\ data_payload' = [id |-> data_payload'.id, chunk |-> data_payload'.chunk,
                            first |-> data_payload'.first, count |-> data_payload'.count,
                            data |-> data_payload'.data]
        /\ data_payload'.data \in [0 .. CHUNK - 1 -> Sample]
    <3>1. CASE data_payload' = data_payload
      BY <1>1, <3>1
    <3>2. CASE data_payload' = Filled
      <4> DEFINE k == read_index - sample_index
      <4>1. k \in Int /\ 0 <= k
        BY <1>1, <1>2, <1>8 DEF DataPhase
      <4>2. Filled = IF k < CHUNK THEN [data_payload EXCEPT !.data[k] = read_sample]
                                  ELSE data_payload
        BY Zenon DEF Filled
      <4>3. CASE k < CHUNK
        <5>1. k \in 0 .. CHUNK - 1
          BY <1>2, <4>1, <4>3
        <5>2. data_payload' = [data_payload EXCEPT !.data[k] = read_sample]
          BY <3>2, <4>2, <4>3, Zenon
        <5> QED BY <1>1, <1>2, <5>1, <5>2
      <4>4. CASE ~(k < CHUNK)
        BY <1>1, <3>2, <4>2, <4>4
      <4> QED BY <4>3, <4>4
    <3> QED BY <1>8, <3>1, <3>2 DEF DataPhase
  <2>2. /\ UNCHANGED <<samples_in_chunk, chunks_total>>
        /\ \/ UNCHANGED <<sample_index, chunks_sent, read_index>>
           \/ /\ ~chunk_complete /\ read_index' = read_index + 1
              /\ UNCHANGED <<sample_index, chunks_sent>>
           \/ /\ sample_index' = sample_index + samples_in_chunk
              /\ chunks_sent' = chunks_sent + 1 /\ phase' = "READ" /\ UNCHANGED read_index
    BY <1>8 DEF DataPhase
  <2>3. phase = "DATA"
    BY <1>8 DEF DataPhase
  <2> QED BY <1>1, <1>2, <2>1, <2>2, <2>3 DEF chunk_complete
<1> QED BY <1>3, <1>5, <1>6, <1>7, <1>8 DEF Adapter

(* All of it.                                                              *)
LEMMA InsideStep ==
    ASSUME Inside, Control, Clock
    PROVE  Inside'
<1>1. /\ phase' \in Phases
      /\ {core_start', core_done', read_req', read_valid', msg_valid', msg_ready', intact'}
           \subseteq BOOLEAN
  BY ControlStep DEF Control
<1>2. la_done_d' \in BOOLEAN /\ auto' \in BOOLEAN /\ stall' \in 0 .. MaxStall
  <2>1. la_done_d' = (state = "DONE") /\ Consumer
    BY DEF Clock
  <2> QED BY <2>1, ReadoutAssumption DEF Consumer, Inside, TypeOK
<1> QED BY <1>1, <1>2, CaptureTypes, PortTypes, AdapterTypes DEF Inside, TypeOK

(* Every register of the readout stays in its range, for every depth and   *)
(* chunk size, also of a readout whose capture was replaced.               *)
THEOREM ReadoutTypes == SpecReadout => []TypeOK
<1>1. InitReadout => Inside
  <2> SUFFICES ASSUME InitReadout PROVE Inside
    OBVIOUS
  <2>1. Blank \in [0 .. CHUNK - 1 -> Sample]
    BY ReadoutAssumption DEF Blank
  <2>2. <<>> \in Seq(Sample)
    BY EmptySeq
  <2>3. /\ DEPTH \in Nat \ {0} /\ ID_MOD \in Nat \ {0} /\ CHUNK \in Nat \ {0}
        /\ MaxStall \in Nat /\ Autos \subseteq BOOLEAN /\ 0 \in Sample
    BY ReadoutAssumption
  <2>4. window \in Seq(Sample)
    BY <2>2 DEF InitReadout, Init
  <2>5. /\ data_payload = [id |-> data_payload.id, chunk |-> data_payload.chunk,
                           first |-> data_payload.first, count |-> data_payload.count,
                           data |-> data_payload.data]
        /\ data_payload.data \in [0 .. CHUNK - 1 -> Sample]
    BY <2>1 DEF InitReadout
  <2>6. auto \in BOOLEAN
    BY <2>3 DEF InitReadout
  <2>7. /\ {samples_written, sample_index, read_index} \subseteq 0 .. DEPTH
        /\ capture_id \in 0 .. ID_MOD - 1 /\ samples_in_chunk \in 0 .. CHUNK
        /\ chunks_sent \in 0 .. DEPTH /\ chunks_total \in 0 .. DEPTH
        /\ stall \in 0 .. MaxStall /\ read_sample \in Sample
        /\ chunks_sent <= sample_index
    BY <2>3 DEF InitReadout, Init
  <2>8. /\ state = "IDLE" /\ phase = "IDLE"
        /\ {triggered, core_start, core_done, read_req, msg_valid, read_valid,
             la_done_d, msg_ready, intact} \subseteq BOOLEAN
    BY DEF InitReadout, Init
  <2> QED BY <2>4, <2>5, <2>6, <2>7, <2>8 DEF Inside, TypeOK, Phases
<1>2. ReadoutInv /\ Inside /\ [Clock]_vars => Inside'
  <2> SUFFICES ASSUME ReadoutInv, Inside, [Clock]_vars PROVE Inside'
    OBVIOUS
  <2>1. CASE Clock
    BY <2>1, InsideStep DEF ReadoutInv
  <2>2. CASE UNCHANGED vars
    BY <2>2 DEF vars, captureVars, progress, port, pulses, output, environment, Inside, TypeOK
  <2> QED BY <2>1, <2>2
<1>3. Inside => TypeOK
  BY DEF Inside
<1> QED BY <1>1, <1>2, <1>3, ReadoutInvariant, PTL DEF SpecReadout
=============================================================================
