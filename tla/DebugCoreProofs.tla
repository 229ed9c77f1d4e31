-------------------------- MODULE DebugCoreProofs --------------------------
(***************************************************************************)
(* The debug core for every depth of its buffer, every set of sources and  *)
(* every length of the messages.  The heart is Granted: in any mix of      *)
(* requests, the messages whose sources are told that they were taken are  *)
(* the one message that is written to the buffer, if any.                  *)
(***************************************************************************)
EXTENDS DebugCore, FrameRing, SequenceTheorems, FiniteSetTheorems, BasicFacts

(* The message the packetizer is busy with.                                *)
InHand == IF sending \/ out_valid THEN <<latched>> ELSE <<>>

(* How far the frame in hand is, as the transport sees it.                 *)
FramePlace ==
    /\ sending => latched \in Messages /\ byte_index \in 0 .. LastByte(latched)
    /\ ~sending => byte_index = 0
    /\ sending /\ ~out_valid => byte_index = 0
    /\ out_valid => /\ latched \in Messages /\ out_data = <<latched, pos>>
                    /\ pos = IF sending THEN byte_index - 1 ELSE LastByte(latched)
                    /\ pos \in Nat
    /\ ~out_valid => pos = 0

(* The messages of streams stay out of the last two entries.               *)
StreamsLeaveRoom ==
    \A i \in 1 .. Len(fifo) : fifo[i] \in Streams => i <= DEPTH - 2

Staged == trace_valid => trace_msg \in Kinds(TraceKinds)

CoreInv == /\ TypeOK /\ LineIsBuffer /\ FramePlace /\ Staged
           /\ StreamsLeaveRoom /\ PacketBooks

-----------------------------------------------------------------------------
LEMMA Constants ==
    /\ DEPTH \in Nat /\ DEPTH > 2 /\ COUNT_MOD \in Nat \ {0}
    /\ \A m \in Messages : LastByte(m) \in Nat /\ payload_len[m] <= 32
<1>1. \A m \in Messages : payload_len[m] \in 0 .. 32
  BY CoreAssumption
<1>2. OVERHEAD \in Nat
  BY CoreAssumption
<1>3. DEPTH \in Nat /\ DEPTH > 2 /\ COUNT_MOD \in Nat \ {0}
  BY DepthAssumption, CoreAssumption
<1> QED BY <1>1, <1>2, <1>3 DEF LastByte

LEMMA KindsOfMessages ==
    /\ Streams \cap Kinds(Legacy) = {}
    /\ "monitor" \notin Streams /\ "monitor" \notin Kinds(Legacy)
    /\ Kinds(Legacy) \subseteq Messages /\ Kinds(TraceKinds) \subseteq Messages
    /\ Kinds(TraceKinds) \subseteq Streams
    /\ Holders \subseteq Messages /\ Holders \subseteq {"monitor", "la", "profiler"}
    /\ Legacy \in Seq(Kinds(Legacy)) /\ TraceKinds \in Seq(Kinds(TraceKinds))
BY CoreAssumption DEF Streams, Messages

LEMMA PulsesAreFinite ==
    ASSUME NEW s, s \in Seq(Kinds(s)), NEW pulses \in SUBSET Kinds(s)
    PROVE  IsFiniteSet(pulses) /\ Cardinality(pulses) \in Nat
<1>1. Len(s) \in Nat /\ s \in [1 .. Len(s) -> Kinds(s)] /\ DOMAIN s = 1 .. Len(s)
  BY LenProperties
<1>2. s \in Surjection(1 .. Len(s), Kinds(s))
  BY <1>1 DEF Surjection, Kinds
<1>3. IsFiniteSet(1 .. Len(s))
  BY <1>1, FS_Interval
<1>4. IsFiniteSet(Kinds(s))
  BY <1>2, <1>3, FS_Surjection
<1> QED BY <1>4, FS_Subset, FS_CardinalityType

(* The first in an order is one of those asked for.                        *)
LEMMA FirstIsOne ==
    ASSUME NEW order, order \in Seq(Kinds(order)), NEW set \in SUBSET Kinds(order), set # {}
    PROVE  First(order, set) \in set
<1>1. Len(order) \in Nat /\ DOMAIN order = 1 .. Len(order)
  BY LenProperties
<1> DEFINE T == {i \in DOMAIN order : order[i] \in set}
<1>2. T \in SUBSET Nat /\ T # {}
  BY <1>1 DEF Kinds
<1>3. PICK i \in T : \A j \in T : i <= j
  <2> HIDE DEF T
  <2> QED BY <1>2, LeastNumber
<1>4. /\ i \in DOMAIN order /\ order[i] \in set
      /\ \A j \in 1 .. i - 1 : order[j] \notin set
  BY <1>1, <1>3
<1> QED BY <1>4 DEF First

(* A message in front of others.                                           *)
LEMMA InFront ==
    ASSUME NEW m \in Messages, NEW s \in Seq(Messages)
    PROVE  /\ <<m>> \in Seq(Messages) /\ Len(<<m>>) = 1
           /\ <<m>> \o s \in Seq(Messages) /\ <<m>> \o s # <<>>
           /\ Len(<<m>> \o s) = Len(s) + 1
           /\ Head(<<m>> \o s) = m /\ Tail(<<m>> \o s) = s
<1>1. <<m>> \in Seq(Messages) /\ Len(<<m>>) = 1 /\ <<m>>[1] = m
  OBVIOUS
<1>2. /\ <<m>> \o s \in Seq(Messages) /\ Len(<<m>> \o s) = Len(s) + 1
      /\ \A i \in 1 .. Len(s) + 1 :
            (<<m>> \o s)[i] = IF i <= 1 THEN <<m>>[i] ELSE s[i - 1]
  BY <1>1, ConcatProperties
<1>3. Len(s) \in Nat
  BY LenProperties
<1>4. <<m>> \o s # <<>>
  BY <1>2, <1>3, EmptySeq
<1>5. Head(<<m>> \o s) = m
  BY <1>1, <1>2, <1>3, <1>4
<1>6. Tail(<<m>> \o s) = s
  <2> DEFINE t == Tail(<<m>> \o s)
  <2>1. /\ t \in Seq(Messages) /\ Len(t) = Len(s)
        /\ \A i \in 1 .. Len(t) : t[i] = (<<m>> \o s)[i + 1]
    BY <1>2, <1>3, <1>4, HeadTailProperties
  <2>2. \A i \in 1 .. Len(t) : t[i] = s[i]
    BY <2>1, <1>2, <1>3
  <2> HIDE DEF t
  <2> QED BY <2>1, <2>2, SeqEqual
<1> QED BY <1>1, <1>2, <1>4, <1>5, <1>6

-----------------------------------------------------------------------------
(* What the sources are told.                                              *)

Turn(yes, m) == IF yes THEN <<m>> ELSE <<>>

LEMMA HandedParts ==
    ASSUME NEW legacy
    PROVE  Handed(legacy) =
             Turn("monitor" \in held /\ msg_ready(legacy)["monitor"], "monitor")
               \o Turn(trace_valid /\ msg_ready(legacy).trace, trace_msg)
               \o Turn("la" \in held /\ msg_ready(legacy)["la"], "la")
               \o Turn("profiler" \in held /\ msg_ready(legacy)["profiler"], "profiler")
               \o Turn(legacy # {} /\ "monitor" \notin held /\ fifo_wr_ready,
                       First(Legacy, legacy))
BY Zenon DEF Handed, Turn

LEMMA EmptyTurns ==
    ASSUME NEW m
    PROVE  /\ <<>> \o <<>> = <<>>
           /\ <<>> \o <<m>> = <<m>> /\ <<m>> \o <<>> = <<m>>
<1>1. <<>> \in Seq({m}) /\ <<m>> \in Seq({m})
  OBVIOUS
<1> QED BY <1>1, ConcatEmptySeq

(* In any mix of requests, the sources told that their message was taken   *)
(* are the one source whose message is written, if any is.                 *)
LEMMA Granted ==
    ASSUME TypeOK, Staged, NEW legacy \in SUBSET Kinds(Legacy)
    PROVE  /\ packet_accepted(legacy) =>
                \E m \in Messages : /\ fifo_wr(legacy) = {m}
                                    /\ Handed(legacy) = <<m>>
                                    /\ m \in Streams => stream_wr_ready
           /\ ~packet_accepted(legacy) => Handed(legacy) = <<>>
<1> DEFINE r == msg_ready(legacy)
           free == stream_wr_ready /\ "monitor" \notin held /\ legacy = {}
<1>1. /\ r["monitor"] = fifo_wr_ready
      /\ r.trace = free
      /\ r["la"] = (free /\ ~trace_valid)
      /\ r["profiler"] = (free /\ ~trace_valid /\ "la" \notin held)
  BY DEF msg_ready
<1>2. /\ held \subseteq {"monitor", "la", "profiler"} /\ held \subseteq Messages
      /\ stream_wr_ready => fifo_wr_ready
  BY KindsOfMessages DEF TypeOK, stream_wr_ready
<1>3. Handed(legacy) =
             Turn("monitor" \in held /\ r["monitor"], "monitor")
               \o Turn(trace_valid /\ r.trace, trace_msg)
               \o Turn("la" \in held /\ r["la"], "la")
               \o Turn("profiler" \in held /\ r["profiler"], "profiler")
               \o Turn(legacy # {} /\ "monitor" \notin held /\ fifo_wr_ready,
                       First(Legacy, legacy))
  BY HandedParts
<1> HIDE DEF r
<1>4. CASE "monitor" \in held
  <2>1. fifo_wr(legacy) = {"monitor"}
    BY <1>4 DEF fifo_wr
  <2>2. packet_accepted(legacy) <=> fifo_wr_ready
    BY <2>1 DEF packet_accepted
  <2>3. CASE fifo_wr_ready
    <3>1. Handed(legacy) = <<"monitor">> \o <<>> \o <<>> \o <<>> \o <<>>
      BY <1>1, <1>3, <1>4, <2>3 DEF Turn
    <3>2. Handed(legacy) = <<"monitor">>
      BY <3>1, EmptyTurns, Zenon
    <3> QED BY <3>2, <2>1, <2>2, <2>3, <1>2, <1>4, KindsOfMessages
  <2>4. CASE ~fifo_wr_ready
    <3>1. Handed(legacy) = <<>> \o <<>> \o <<>> \o <<>> \o <<>>
      BY <1>1, <1>2, <1>3, <1>4, <2>4 DEF Turn
    <3> QED BY <3>1, <2>2, <2>4, EmptyTurns, Zenon
  <2> QED BY <2>3, <2>4
<1>5. CASE "monitor" \notin held /\ legacy # {}
  <2> DEFINE m == First(Legacy, legacy)
  <2>1. m \in legacy
    BY <1>5, KindsOfMessages, FirstIsOne
  <2> HIDE DEF m
  <2>2. m \in Messages /\ m \notin Streams
    BY <2>1, KindsOfMessages
  <2>3. fifo_wr(legacy) = {m}
    BY <1>5 DEF fifo_wr, m
  <2>4. packet_accepted(legacy) <=> fifo_wr_ready
    BY <2>3 DEF packet_accepted
  <2>5. CASE fifo_wr_ready
    <3>1. Handed(legacy) = <<>> \o <<>> \o <<>> \o <<>> \o <<m>>
      BY <1>1, <1>3, <1>5, <2>5 DEF Turn, m
    <3>2. Handed(legacy) = <<m>>
      BY <3>1, EmptyTurns, Zenon
    <3> QED BY <3>2, <2>2, <2>3, <2>4, <2>5
  <2>6. CASE ~fifo_wr_ready
    <3>1. Handed(legacy) = <<>> \o <<>> \o <<>> \o <<>> \o <<>>
      BY <1>1, <1>2, <1>3, <1>5, <2>6 DEF Turn
    <3> QED BY <3>1, <2>4, <2>6, EmptyTurns, Zenon
  <2> QED BY <2>5, <2>6
<1>6. CASE "monitor" \notin held /\ legacy = {} /\ ~stream_wr_ready
  <2>1. fifo_wr(legacy) = {}
    BY <1>6 DEF fifo_wr
  <2>2. Handed(legacy) = <<>> \o <<>> \o <<>> \o <<>> \o <<>>
    BY <1>1, <1>3, <1>6 DEF Turn
  <2>3. Handed(legacy) = <<>>
    BY <2>2, EmptyTurns, Zenon
  <2> QED BY <2>1, <2>3 DEF packet_accepted
<1>7. CASE /\ "monitor" \notin held /\ legacy = {} /\ stream_wr_ready
           /\ trace_valid
  <2>1. trace_msg \in Messages
    BY <1>7, KindsOfMessages DEF Staged
  <2>2. fifo_wr(legacy) = {trace_msg} /\ packet_accepted(legacy)
    BY <1>2, <1>7 DEF fifo_wr, packet_accepted
  <2>3. Handed(legacy) = <<>> \o <<trace_msg>> \o <<>> \o <<>> \o <<>>
    BY <1>1, <1>3, <1>7 DEF Turn
  <2>4. Handed(legacy) = <<trace_msg>>
    BY <2>3, EmptyTurns, Zenon
  <2> QED BY <1>7, <2>1, <2>2, <2>4
<1>8. CASE /\ "monitor" \notin held /\ legacy = {} /\ stream_wr_ready
           /\ ~trace_valid /\ "la" \in held
  <2>1. fifo_wr(legacy) = {"la"} /\ packet_accepted(legacy)
    BY <1>2, <1>8 DEF fifo_wr, packet_accepted
  <2>2. Handed(legacy) = <<>> \o <<>> \o <<"la">> \o <<>> \o <<>>
    BY <1>1, <1>3, <1>8 DEF Turn
  <2>3. Handed(legacy) = <<"la">>
    BY <2>2, EmptyTurns, Zenon
  <2> QED BY <1>2, <1>8, <2>1, <2>3
<1>9. CASE /\ "monitor" \notin held /\ legacy = {} /\ stream_wr_ready
           /\ ~trace_valid /\ "la" \notin held
  <2>1. fifo_wr(legacy) = held /\ held \subseteq {"profiler"}
    BY <1>2, <1>9 DEF fifo_wr
  <2>2. CASE "profiler" \in held
    <3>1. fifo_wr(legacy) = {"profiler"} /\ packet_accepted(legacy)
      BY <1>2, <1>9, <2>1, <2>2 DEF packet_accepted
    <3>2. Handed(legacy) = <<>> \o <<>> \o <<>> \o <<"profiler">> \o <<>>
      BY <1>1, <1>3, <1>9, <2>2 DEF Turn
    <3>3. Handed(legacy) = <<"profiler">>
      BY <3>2, EmptyTurns, Zenon
    <3> QED BY <1>2, <1>9, <2>2, <3>1, <3>3
  <2>3. CASE "profiler" \notin held
    <3>1. ~packet_accepted(legacy)
      BY <2>1, <2>3 DEF packet_accepted
    <3>2. Handed(legacy) = <<>> \o <<>> \o <<>> \o <<>> \o <<>>
      BY <1>1, <1>3, <1>9, <2>3 DEF Turn
    <3>3. Handed(legacy) = <<>>
      BY <3>2, EmptyTurns, Zenon
    <3> QED BY <3>1, <3>3
  <2> QED BY <2>2, <2>3
<1> QED BY <1>4, <1>5, <1>6, <1>7, <1>8, <1>9

(* After an edge the buffer holds what it kept, then what was handed over. *)
LEMMA BufferEdge ==
    ASSUME CoreInv, NEW legacy \in SUBSET Kinds(Legacy),
           Fifo!Edge(fifo_wr(legacy), rd_ready)
    PROVE  LET rest == IF rd_ready THEN Tail(fifo) ELSE fifo
           IN  /\ fifo' = rest \o Handed(legacy)
               /\ rest \in Seq(Messages) /\ Handed(legacy) \in Seq(Messages)
               /\ Len(Handed(legacy)) = IF packet_accepted(legacy) THEN 1 ELSE 0
               /\ Len(fifo') = Len(rest) + Len(Handed(legacy))
               /\ Len(fifo') <= DEPTH
               /\ StreamsLeaveRoom'
<1> DEFINE rest == IF rd_ready THEN Tail(fifo) ELSE fifo
<1>1. /\ TypeOK /\ Staged /\ StreamsLeaveRoom
      /\ fifo \in Seq(Messages) /\ Len(fifo) \in Nat /\ Len(fifo) <= DEPTH
      /\ DEPTH \in Nat /\ DEPTH > 2
  BY LenProperties, Constants DEF CoreInv, TypeOK
<1>2. /\ rd_ready => fifo # <<>>
      /\ rest = IF Fifo!rd_valid /\ rd_ready THEN Tail(fifo) ELSE fifo
  BY DEF rd_ready, Fifo!rd_valid
<1>3. /\ rest \in Seq(Messages) /\ Len(rest) \in Nat /\ Len(rest) <= Len(fifo)
      /\ rd_ready => Len(rest) = Len(fifo) - 1
      /\ \A i \in 1 .. Len(rest) :
            rest[i] = fifo[i] \/ (rest[i] = fifo[i + 1] /\ i + 1 <= Len(fifo))
  <2>1. CASE rd_ready
    BY <1>1, <1>2, <2>1, HeadTailProperties
  <2>2. CASE ~rd_ready
    BY <1>1, <2>2
  <2> QED BY <2>1, <2>2
<1>4. fifo_wr_ready <=> Len(fifo) # DEPTH \/ rd_ready
  BY DEF fifo_wr_ready, Fifo!wr_ready, Fifo!used_count
<1>5. \/ \E e \in fifo_wr(legacy) : fifo_wr_ready /\ fifo' = Append(rest, e)
      \/ (fifo_wr(legacy) = {} \/ ~fifo_wr_ready) /\ fifo' = rest
  BY <1>2 DEF Fifo!Edge, fifo_wr_ready
<1>6. \A i \in 1 .. Len(rest) : rest[i] \in Streams => i <= DEPTH - 2
  BY <1>1, <1>3 DEF StreamsLeaveRoom
<1> HIDE DEF rest
<1>7. CASE packet_accepted(legacy)
  <2>1. PICK m \in Messages : /\ fifo_wr(legacy) = {m} /\ Handed(legacy) = <<m>>
                              /\ m \in Streams => stream_wr_ready
    BY <1>1, <1>7, Granted
  <2>2. fifo_wr_ready /\ fifo' = Append(rest, m)
    BY <1>5, <1>7, <2>1 DEF packet_accepted
  <2>3. fifo' = rest \o Handed(legacy)
    BY <1>3, <2>1, <2>2, AppendIsConcat
  <2>4. Handed(legacy) \in Seq(Messages) /\ Len(Handed(legacy)) = 1
    BY <2>1
  <2>5. /\ Len(fifo') = Len(rest) + 1
        /\ \A i \in 1 .. Len(rest) : fifo'[i] = rest[i]
        /\ fifo'[Len(rest) + 1] = m
    BY <1>3, <2>2, AppendProperties
  <2>6. Len(fifo') <= DEPTH
    BY <1>1, <1>3, <1>4, <2>2, <2>5
  <2>7. m \in Streams => Len(rest) + 1 <= DEPTH - 2
    BY <1>1, <1>3, <2>1 DEF stream_wr_ready, Fifo!used_count
  <2>8. ASSUME NEW i \in 1 .. Len(fifo'), fifo'[i] \in Streams
        PROVE  i <= DEPTH - 2
    <3>1. CASE i \in 1 .. Len(rest)
      BY <3>1, <1>6, <2>5, <2>8
    <3>2. CASE i = Len(rest) + 1
      BY <3>2, <2>5, <2>7, <2>8
    <3> QED BY <3>1, <3>2, <1>3, <2>5
  <2>9. StreamsLeaveRoom'
    BY <2>8 DEF StreamsLeaveRoom
  <2> QED BY <1>3, <1>7, <2>3, <2>4, <2>5, <2>6, <2>9 DEF rest
<1>8. CASE ~packet_accepted(legacy)
  <2>1. Handed(legacy) = <<>>
    BY <1>1, <1>8, Granted
  <2>2. fifo' = rest
    BY <1>5, <1>8 DEF packet_accepted
  <2>3. rest \o <<>> = rest /\ <<>> \in Seq(Messages) /\ Len(<<>>) = 0
    BY <1>3, ConcatEmptySeq, EmptySeq
  <2>4. StreamsLeaveRoom'
    BY <1>6, <2>2 DEF StreamsLeaveRoom
  <2> QED BY <1>1, <1>3, <1>8, <2>1, <2>2, <2>3, <2>4 DEF rest
<1> QED BY <1>7, <1>8

-----------------------------------------------------------------------------
(* What leaves on an edge: the packetizer starts a frame, moves it on by a *)
(* byte, hands over its last one, or waits.                                *)

Kept(out_ready) == IF frame_taken(out_ready) THEN Tail(line) ELSE line

LEMMA LineInHand ==
    ASSUME CoreInv
    PROVE  /\ line \in Seq(Messages) /\ fifo \in Seq(Messages)
           /\ sending \/ out_valid =>
                /\ latched \in Messages
                /\ line = <<latched>> \o fifo /\ line # <<>>
                /\ Head(line) = latched /\ Tail(line) = fifo
           /\ ~(sending \/ out_valid) => line = fifo
<1>1. fifo \in Seq(Messages)
  BY DEF CoreInv, TypeOK
<1>2. CASE sending \/ out_valid
  <2>1. latched \in Messages /\ line = <<latched>> \o fifo
    BY <1>2 DEF CoreInv, FramePlace, LineIsBuffer
  <2> QED BY <1>1, <1>2, <2>1, InFront
<1>3. CASE ~(sending \/ out_valid)
  <2>1. line = <<>> \o fifo
    BY <1>3 DEF CoreInv, LineIsBuffer
  <2> QED BY <1>1, <1>3, <2>1, ConcatEmptySeq
<1> QED BY <1>2, <1>3

LEMMA PacketizerMoves ==
    ASSUME CoreInv, NEW out_ready \in BOOLEAN, PacketizerEdge(out_ready),
           pos' = IF frame_taken(out_ready) THEN 0
                  ELSE IF byte_taken(out_ready) THEN pos + 1 ELSE pos
    PROVE  /\ FramePlace'
           /\ {sending, out_valid}' \subseteq BOOLEAN
           /\ latched' \in Messages \cup {None}
           /\ byte_index' \in 0 .. (IF sending THEN LastByte(latched) ELSE 0)'
           /\ Kept(out_ready) = InHand' \o (IF rd_ready THEN Tail(fifo) ELSE fifo)
           /\ InHand' \in Seq(Messages)
<1>1. /\ sending \in BOOLEAN /\ out_valid \in BOOLEAN
      /\ latched \in Messages \cup {None}
      /\ FramePlace /\ fifo \in Seq(Messages) /\ line \in Seq(Messages)
  BY LineInHand DEF CoreInv, TypeOK
<1>2. <<>> \o fifo = fifo /\ <<>> \in Seq(Messages)
  BY <1>1, ConcatEmptySeq, EmptySeq
<1>3. CASE Latch /\ out_valid' = (out_valid /\ ~out_ready)
  <2>1. /\ ~sending /\ ~out_valid /\ out_valid' = FALSE /\ sending' = TRUE
        /\ latched' = Head(fifo) /\ byte_index' = 0
        /\ fifo # <<>> /\ rd_ready
    BY <1>3 DEF Latch, rd_ready, Fifo!rd_valid
  <2>2. Head(fifo) \in Messages /\ <<Head(fifo)>> \o Tail(fifo) = fifo
    <3>1. Head(fifo) \in Messages /\ Tail(fifo) \in Seq(Messages)
      BY <1>1, <2>1, HeadTailProperties
    <3>2. <<Head(fifo)>> \o Tail(fifo) = fifo
      BY <1>1, <2>1
    <3> QED BY <3>1, <3>2
  <2>3. ~byte_taken(out_ready) /\ ~frame_taken(out_ready)
    BY <2>1 DEF byte_taken, frame_taken
  <2>4. pos' = 0
    BY <1>1, <2>1, <2>3 DEF FramePlace
  <2>5. LastByte(latched)' \in Nat
    BY <2>1, <2>2, Constants DEF LastByte
  <2>6. FramePlace'
    BY <2>1, <2>2, <2>4, <2>5 DEF FramePlace
  <2>7. line = fifo
    BY <2>1, LineInHand
  <2>8. /\ InHand' = <<Head(fifo)>> /\ InHand' \in Seq(Messages)
        /\ Kept(out_ready) = InHand' \o Tail(fifo)
    BY <2>1, <2>2, <2>3, <2>7, InFront, <1>1 DEF Kept, InHand
  <2>9. byte_index' \in 0 .. (IF sending THEN LastByte(latched) ELSE 0)'
    BY <2>1, <2>5
  <2> QED BY <2>1, <2>2, <2>6, <2>8, <2>9
<1>4. CASE (~out_valid \/ out_ready) /\ SendByte
  <2>1. /\ sending /\ out_valid' /\ out_data' = <<latched, byte_index>>
        /\ sending' = ~frame_done
        /\ byte_index' = (IF frame_done THEN 0 ELSE byte_index + 1)
        /\ latched' = latched
    BY <1>4 DEF SendByte
  <2>2. /\ latched \in Messages /\ byte_index \in 0 .. LastByte(latched)
        /\ LastByte(latched) \in Nat
        /\ line = <<latched>> \o fifo /\ line # <<>> /\ Head(line) = latched
    BY <1>1, <2>1, LineInHand, Constants DEF FramePlace
  <2>3. ~frame_taken(out_ready)
    <3>1. CASE out_valid
      <4>1. pos = byte_index - 1
        BY <1>1, <2>1, <3>1 DEF FramePlace
      <4> QED BY <4>1, <2>2 DEF frame_taken
    <3>2. CASE ~out_valid
      BY <3>2 DEF frame_taken, byte_taken
    <3> QED BY <3>1, <3>2
  <2>4. pos' = byte_index
    <3>1. CASE out_valid
      <4>1. pos = byte_index - 1 /\ byte_taken(out_ready)
        BY <1>1, <1>4, <2>1, <3>1 DEF FramePlace, byte_taken
      <4> QED BY <4>1, <2>2, <2>3
    <3>2. CASE ~out_valid
      <4>1. pos = 0 /\ byte_index = 0 /\ ~byte_taken(out_ready)
        BY <1>1, <2>1, <3>2 DEF FramePlace, byte_taken
      <4> QED BY <4>1, <2>3
    <3> QED BY <3>1, <3>2
  <2>5. ~rd_ready
    BY <2>1 DEF rd_ready
  <2>6. LastByte(latched)' = LastByte(latched)
    BY <2>1 DEF LastByte
  <2>7. CASE frame_done
    <3>1. ~sending' /\ byte_index' = 0 /\ byte_index = LastByte(latched)
      BY <2>1, <2>7 DEF frame_done
    <3>2. FramePlace'
      BY <3>1, <2>1, <2>2, <2>4, <2>6 DEF FramePlace
    <3> QED BY <3>1, <3>2, <2>1, <2>2, <2>3, <2>5, InFront, <1>1 DEF Kept, InHand
  <2>8. CASE ~frame_done
    <3>1. sending' /\ byte_index' = byte_index + 1 /\ byte_index # LastByte(latched)
      BY <2>1, <2>8 DEF frame_done
    <3>2. FramePlace'
      BY <3>1, <2>1, <2>2, <2>4, <2>6 DEF FramePlace
    <3> QED BY <3>1, <3>2, <2>1, <2>2, <2>3, <2>5, <2>6, InFront, <1>1
            DEF Kept, InHand
  <2> QED BY <2>7, <2>8
<1>5. CASE /\ ~(sending /\ (~out_valid \/ out_ready))
           /\ out_valid' = (out_valid /\ ~out_ready)
           /\ out_data' = IF out_valid' THEN out_data ELSE NoByte
           /\ ~rd_ready /\ UNCHANGED <<sending, latched, byte_index>>
  <2>1. LastByte(latched)' = LastByte(latched)
    BY <1>5 DEF LastByte
  <2>2. CASE byte_taken(out_ready)
    <3>1. ~sending /\ out_valid /\ ~out_valid'
      BY <1>5, <2>2 DEF byte_taken
    <3>2. frame_taken(out_ready)
      <4>1. /\ line # <<>> /\ Head(line) = latched /\ pos = LastByte(latched)
        BY <1>1, <3>1, LineInHand DEF FramePlace
      <4> QED BY <4>1, <2>2 DEF frame_taken
    <3>3. FramePlace'
      BY <1>1, <1>5, <3>1, <3>2 DEF FramePlace
    <3>4. Tail(line) = fifo /\ ~sending'
      BY <1>5, <3>1, LineInHand
    <3>5. InHand' = <<>> /\ Kept(out_ready) = fifo
      BY <3>1, <3>2, <3>4 DEF InHand, Kept
    <3>6. byte_index' = 0 /\ byte_index' \in 0 .. (IF sending THEN LastByte(latched) ELSE 0)'
      BY <1>1, <1>5, <3>1, <3>4 DEF FramePlace
    <3> QED BY <1>1, <1>2, <1>5, <3>1, <3>3, <3>4, <3>5, <3>6
  <2>3. CASE ~byte_taken(out_ready)
    <3>1. out_valid' = out_valid /\ pos' = pos /\ ~frame_taken(out_ready)
      BY <1>1, <1>5, <2>3 DEF byte_taken, frame_taken
    <3>2. FramePlace'
      BY <1>1, <1>5, <2>1, <3>1 DEF FramePlace
    <3>3. InHand' = InHand /\ line = InHand \o fifo
      BY <1>5, <3>1 DEF InHand, CoreInv, LineIsBuffer
    <3>4. InHand \in Seq(Messages)
      BY <1>1, <1>2 DEF InHand, FramePlace
    <3> QED BY <1>1, <1>5, <2>1, <3>1, <3>2, <3>3, <3>4 DEF Kept, FramePlace
  <2> QED BY <2>2, <2>3
<1> QED BY <1>3, <1>4, <1>5 DEF PacketizerEdge

-----------------------------------------------------------------------------
(* The numbers of an edge.                                                 *)

LEMMA CountIsANumber ==
    ASSUME NEW counter \in Int, NEW n \in Int
    PROVE  Plus(counter, n) \in 0 .. COUNT_MOD - 1
<1>1. counter + n \in Int
  OBVIOUS
<1> QED BY <1>1, Constants, ModDef DEF Plus

LEMMA LossesAreNumbers ==
    ASSUME NEW legacy \in SUBSET Kinds(Legacy), NEW traces \in SUBSET Kinds(TraceKinds)
    PROVE  /\ Cardinality(legacy) \in Nat /\ Cardinality(traces) \in Nat
           /\ core_drop_increment(legacy) \in Int
<1>1. Cardinality(legacy) \in Nat /\ Cardinality(traces) \in Nat
  BY KindsOfMessages, PulsesAreFinite
<1> QED BY <1>1 DEF core_drop_increment

LEMMA CountersMove ==
    ASSUME TypeOK, NEW legacy \in SUBSET Kinds(Legacy),
           NEW traces \in SUBSET Kinds(TraceKinds), NEW out_ready \in BOOLEAN,
           CounterEdge(legacy, traces), Observe(legacy, traces, out_ready)
    PROVE  {packet_count, drop_count, emitted, lost}' \subseteq 0 .. COUNT_MOD - 1
<1>1. /\ packet_count \in Int /\ drop_count \in Int /\ emitted \in Int /\ lost \in Int
  BY Constants DEF TypeOK
<1>2. /\ Cardinality(legacy) \in Nat /\ Cardinality(traces) \in Nat
      /\ core_drop_increment(legacy) \in Int
  BY LossesAreNumbers
<1>3. packet_count' \in 0 .. COUNT_MOD - 1
  <2>1. (IF packet_accepted(legacy) THEN 1 ELSE 0) \in Int
    OBVIOUS
  <2> QED BY <1>1, <2>1, CountIsANumber DEF CounterEdge
<1>4. drop_count' \in 0 .. COUNT_MOD - 1
  <2>1. core_drop_increment(legacy)
          + (IF trace_dropped(legacy, traces) THEN 1 ELSE 0) \in Int
    BY <1>2
  <2> QED BY <1>1, <2>1, CountIsANumber DEF CounterEdge
<1>5. emitted' \in 0 .. COUNT_MOD - 1
  <2>1. (IF frame_taken(out_ready) THEN 1 ELSE 0) \in Int
    OBVIOUS
  <2> QED BY <1>1, <2>1, CountIsANumber DEF Observe
<1>6. lost' \in 0 .. COUNT_MOD - 1
  <2>1. LegacyLost(legacy) \in Int
    BY <1>2 DEF LegacyLost
  <2>2. LegacyLost(legacy) + (IF TracesLost(legacy, traces) > 0 THEN 1 ELSE 0) \in Int
    BY <2>1
  <2> QED BY <1>1, <2>2, CountIsANumber DEF Observe
<1> QED BY <1>3, <1>4, <1>5, <1>6

LEMMA TraceMoves ==
    ASSUME TypeOK, Staged, NEW legacy, NEW traces \in SUBSET Kinds(TraceKinds),
           TraceEdge(legacy, traces)
    PROVE  /\ Staged' /\ trace_valid' \in BOOLEAN
           /\ trace_msg' \in Kinds(TraceKinds) \cup {None}
<1>1. traces # {} => First(TraceKinds, traces) \in Kinds(TraceKinds)
  BY KindsOfMessages, FirstIsOne
<1> QED BY <1>1 DEF TypeOK, Staged, TraceEdge, trace

-----------------------------------------------------------------------------
LEMMA StartInv == Init => CoreInv
<1> SUFFICES ASSUME Init PROVE CoreInv OBVIOUS
<1>1. fifo = <<>> /\ line = <<>> /\ held = {} /\ ~sending /\ ~out_valid
  BY DEF Init, Fifo!Init
<1>2. TypeOK
  <2>1. fifo \in Seq(Messages) /\ Len(fifo) <= DEPTH
    BY <1>1, EmptySeq, Constants
  <2>2. {packet_count, drop_count, emitted, lost} \subseteq 0 .. COUNT_MOD - 1
    BY Constants DEF Init
  <2>3. byte_index = 0 /\ sending = FALSE /\ out_valid = FALSE /\ trace_valid = FALSE
    BY DEF Init
  <2>4. latched = None /\ trace_msg = None
    BY DEF Init
  <2>5. byte_index \in 0 .. (IF sending THEN LastByte(latched) ELSE 0)
    BY <2>3
  <2>6. {sending, out_valid, trace_valid} \subseteq BOOLEAN
    BY <2>3
  <2>7. held \subseteq Holders
    BY <1>1
  <2> QED BY <2>1, <2>2, <2>4, <2>5, <2>6, <2>7 DEF TypeOK
<1>3. LineIsBuffer
  <2>1. <<>> \o <<>> = <<>>
    BY EmptyTurns
  <2> QED BY <1>1, <2>1 DEF LineIsBuffer
<1>4. FramePlace /\ Staged
  BY <1>1 DEF Init, FramePlace, Staged
<1>5. StreamsLeaveRoom
  BY <1>1 DEF StreamsLeaveRoom
<1>6. PacketBooks
  <2>1. Len(line) = 0
    BY <1>1, EmptySeq
  <2>2. Plus(0, 0) = 0
    BY Constants, ModSmall DEF Plus
  <2> QED BY <2>1, <2>2 DEF Init, PacketBooks
<1> QED BY <1>2, <1>3, <1>4, <1>5, <1>6 DEF CoreInv

LEMMA EdgeKeepsInv ==
    ASSUME CoreInv, NEW legacy \in SUBSET Kinds(Legacy),
           NEW traces \in SUBSET Kinds(TraceKinds), NEW out_ready \in BOOLEAN,
           Edge(legacy, traces, out_ready)
    PROVE  CoreInv'
<1> DEFINE rest   == IF rd_ready THEN Tail(fifo) ELSE fifo
           handed == Handed(legacy)
           kept   == Kept(out_ready)
<1>1. TypeOK /\ Staged /\ PacketBooks
  BY DEF CoreInv
<1>2. /\ fifo' = rest \o handed
      /\ rest \in Seq(Messages) /\ handed \in Seq(Messages)
      /\ Len(handed) = IF packet_accepted(legacy) THEN 1 ELSE 0
      /\ Len(fifo') <= DEPTH /\ StreamsLeaveRoom'
  BY BufferEdge DEF Edge
<1>3. /\ FramePlace'
      /\ {sending, out_valid}' \subseteq BOOLEAN
      /\ latched' \in Messages \cup {None}
      /\ byte_index' \in 0 .. (IF sending THEN LastByte(latched) ELSE 0)'
      /\ kept = InHand' \o rest
      /\ InHand' \in Seq(Messages)
  BY PacketizerMoves DEF Edge, Observe
<1>4. line' = kept \o handed
  BY DEF Edge, Observe, Kept
<1>5. /\ line \in Seq(Messages)
      /\ kept \in Seq(Messages)
      /\ Len(kept) = Len(line) - (IF frame_taken(out_ready) THEN 1 ELSE 0)
  BY LineInHand, HeadTailProperties, LenProperties DEF Kept, frame_taken
<1> HIDE DEF rest, handed, kept
<1>6. fifo' \in Seq(Messages)
  BY <1>2, ConcatProperties
<1>7. LineIsBuffer'
  <2>1. line' = InHand' \o fifo'
    BY <1>2, <1>3, <1>4, ConcatAssociative
  <2> QED BY <2>1 DEF LineIsBuffer, InHand
<1>8. /\ Staged' /\ trace_valid' \in BOOLEAN
      /\ trace_msg' \in Kinds(TraceKinds) \cup {None}
  BY <1>1, TraceMoves DEF Edge
<1>9. {packet_count, drop_count, emitted, lost}' \subseteq 0 .. COUNT_MOD - 1
  BY <1>1, CountersMove DEF Edge
<1>10. held' \subseteq Holders
  BY <1>1 DEF Edge, HolderEdge, TypeOK
<1>11. TypeOK'
  BY <1>2, <1>3, <1>6, <1>8, <1>9, <1>10 DEF TypeOK
<1>12. PacketBooks'
  <2> DEFINE p == IF packet_accepted(legacy) THEN 1 ELSE 0
             f == IF frame_taken(out_ready) THEN 1 ELSE 0
  <2>1. p \in Int /\ f \in Int
    OBVIOUS
  <2>2. /\ packet_count' = Plus(packet_count, p) /\ emitted' = Plus(emitted, f)
        /\ packet_count = Plus(emitted, Len(line))
    BY <1>1 DEF Edge, CounterEdge, Observe, PacketBooks
  <2>3. Len(kept) = Len(line) - f /\ Len(handed) = p
    BY <1>2, <1>5
  <2> HIDE DEF p, f
  <2>4. Len(line') = Len(line) - f + p /\ Len(line) \in Nat
    BY <1>2, <1>4, <1>5, <2>3, ConcatProperties, LenProperties
  <2>5. emitted \in Int /\ COUNT_MOD \in Nat \ {0}
    BY <1>1, Constants DEF TypeOK
  <2>6. packet_count' = (emitted + Len(line) + p) % COUNT_MOD
    <3>1. emitted + Len(line) \in Int
      BY <2>4, <2>5
    <3>2. (((emitted + Len(line)) % COUNT_MOD) + p) % COUNT_MOD
            = ((emitted + Len(line)) + p) % COUNT_MOD
      BY <2>1, <2>5, <3>1, ModAdd
    <3> QED BY <2>2, <3>2 DEF Plus
  <2>7. Plus(emitted', Len(line')) = ((emitted + f) + (Len(line) - f + p)) % COUNT_MOD
    <3>1. emitted + f \in Int /\ Len(line) - f + p \in Int
      BY <2>1, <2>4, <2>5
    <3>2. (((emitted + f) % COUNT_MOD) + (Len(line) - f + p)) % COUNT_MOD
            = ((emitted + f) + (Len(line) - f + p)) % COUNT_MOD
      BY <2>5, <3>1, ModAdd
    <3> QED BY <2>2, <2>4, <3>2 DEF Plus
  <2>8. (emitted + f) + (Len(line) - f + p) = emitted + Len(line) + p
    BY <2>1, <2>4, <2>5
  <2> QED BY <2>6, <2>7, <2>8 DEF PacketBooks
<1> QED BY <1>2, <1>3, <1>7, <1>8, <1>11, <1>12 DEF CoreInv

LEMMA StutterKeepsInv == CoreInv /\ UNCHANGED vars => CoreInv'
<1> SUFFICES ASSUME CoreInv, UNCHANGED vars PROVE CoreInv'
  OBVIOUS
<1>1. /\ UNCHANGED <<fifo, sending, latched, byte_index, out_valid, out_data>>
      /\ UNCHANGED <<trace_valid, trace_msg, packet_count, drop_count, held>>
      /\ UNCHANGED <<line, pos, emitted, lost>>
  BY DEF vars, packetizer, trace, ghosts
<1>2. TypeOK' /\ FramePlace'
  BY <1>1 DEF CoreInv, TypeOK, FramePlace, LastByte
<1>3. LineIsBuffer' /\ Staged' /\ StreamsLeaveRoom'
  BY <1>1 DEF CoreInv, LineIsBuffer, Staged, StreamsLeaveRoom
<1>4. PacketBooks'
  BY <1>1 DEF CoreInv, PacketBooks, Plus
<1> QED BY <1>2, <1>3, <1>4 DEF CoreInv

LEMMA NextKeepsInv == CoreInv /\ [Next]_vars => CoreInv'
BY EdgeKeepsInv, StutterKeepsInv DEF Next, Clock

(* Every state keeps the handshakes, the buffer, the frame in hand and the *)
(* counter of packets together.                                            *)
THEOREM CoreInvariant == Spec => []CoreInv
BY StartInv, NextKeepsInv, PTL DEF Spec

(* The variables keep their types (yifpga_debug_core 100-320, packetizer   *)
(* 20-95).                                                                 *)
THEOREM CoreTypes == Spec => []TypeOK
BY CoreInvariant, PTL DEF CoreInv

(* What the sources were told was taken is, in that order and once, what   *)
(* is in the buffer and in the packetizer, for every set of sources and    *)
(* any mix of their requests (debug_core 130-215).                         *)
THEOREM HandshakesAreTheBuffer == Spec => []LineIsBuffer
BY CoreInvariant, PTL DEF CoreInv

LEMMA InvGivesOrder == CoreInv => BytesInOrder
<1> SUFFICES ASSUME CoreInv, out_valid PROVE line # <<>> /\ out_data = <<Head(line), pos>>
  BY DEF BytesInOrder
<1>1. line # <<>> /\ Head(line) = latched
  BY LineInHand
<1> QED BY <1>1 DEF CoreInv, FramePlace

(* The frames go out whole and one after the other, whatever the           *)
(* transport's readiness and the lengths of the payloads (packetizer       *)
(* 32-95).                                                                 *)
THEOREM FramesGoOutWhole == Spec => []BytesInOrder
BY CoreInvariant, InvGivesOrder, PTL

-----------------------------------------------------------------------------
(* The buffer that the core drives is the queue FrameRing implements.      *)

LEMMA EdgeIsQueueEdge ==
    ASSUME CoreInv, NEW legacy \in SUBSET Kinds(Legacy),
           Fifo!Edge(fifo_wr(legacy), rd_ready)
    PROVE  Fifo!Next
<1>1. rd_ready \in BOOLEAN
  BY DEF rd_ready
<1>2. CASE packet_accepted(legacy)
  <2>1. PICK m \in Messages : fifo_wr(legacy) = {m}
    BY <1>2, Granted DEF CoreInv
  <2> QED BY <1>1, <2>1 DEF Fifo!Next
<1>3. CASE ~packet_accepted(legacy)
  <2>1. Fifo!Edge({}, rd_ready)
    BY <1>3 DEF Fifo!Edge, packet_accepted, fifo_wr_ready
  <2> QED BY <1>1, <2>1 DEF Fifo!Next
<1> QED BY <1>2, <1>3

LEMMA NextIsQueueNext == CoreInv /\ [Next]_vars => [Fifo!Next]_fifo
<1> SUFFICES ASSUME CoreInv, [Next]_vars PROVE [Fifo!Next]_fifo
  OBVIOUS
<1>1. CASE Next
  BY <1>1, EdgeIsQueueEdge DEF Next, Clock, Edge
<1>2. CASE UNCHANGED vars
  BY <1>2 DEF vars
<1> QED BY <1>1, <1>2

(* Every edge of the core is an edge of the queue that FrameRing is shown  *)
(* to implement: the core never offers two messages, and never an entry    *)
(* that is none (debug_core 130-215, 262-290).                             *)
THEOREM CoreDrivesTheQueue == Spec => Fifo!Spec
<1>1. Init => Fifo!Init
  BY DEF Init
<1> QED BY <1>1, NextIsQueueNext, CoreInvariant, PTL DEF Spec, Fifo!Spec

-----------------------------------------------------------------------------
(* The two entries that streams leave.                                     *)

LEMMA InvGivesReserve == CoreInv => ReserveHolds
<1> SUFFICES ASSUME CoreInv,
                    Cardinality({i \in DOMAIN fifo : fifo[i] \notin Streams}) <= 1,
                    ~fifo_wr_ready
             PROVE  FALSE
  BY DEF ReserveHolds
<1> DEFINE others == {i \in DOMAIN fifo : fifo[i] \notin Streams}
<1>1. Len(fifo) = DEPTH /\ DEPTH \in Nat /\ DEPTH > 2
  BY Constants DEF fifo_wr_ready, Fifo!wr_ready, Fifo!used_count
<1>2. DOMAIN fifo = 1 .. DEPTH
  BY <1>1, LenProperties DEF CoreInv, TypeOK
<1>3. DEPTH - 1 \in others /\ DEPTH \in others
  BY <1>1, <1>2 DEF CoreInv, StreamsLeaveRoom
<1>4. IsFiniteSet(others) /\ Cardinality(others) \in Nat
  <2>1. IsFiniteSet(1 .. DEPTH)
    BY <1>1, FS_Interval
  <2>2. others \in SUBSET (1 .. DEPTH)
    BY <1>2
  <2> QED BY <2>1, <2>2, FS_Subset, FS_CardinalityType
<1>5. Cardinality(others) <= 1
  OBVIOUS
<1> HIDE DEF others
<1>6. Cardinality(others) = 1
  BY <1>3, <1>4, <1>5, FS_EmptySet
<1>7. PICK x : others = {x}
  BY <1>4, <1>6, FS_Singleton
<1> QED BY <1>1, <1>3, <1>7

(* With at most one other message in the buffer a monitor response or a    *)
(* legacy pulse finds room, however the streams have filled the buffer     *)
(* (debug_core 139-142).                                                   *)
THEOREM StreamsLeaveTwoEntries == Spec => []ReserveHolds
BY CoreInvariant, InvGivesReserve, PTL

(* packet_count counts, modulo its width, every frame sent and every one   *)
(* still in the core (debug_core 306-308).                                 *)
THEOREM PacketsAreAccounted == Spec => []PacketBooks
BY CoreInvariant, PTL DEF CoreInv

-----------------------------------------------------------------------------
(* drop_count: trace_dropped is up on the edges on which a trace message   *)
(* is lost, and only on those.                                             *)

LEMMA LegacyAccepted ==
    ASSUME TypeOK, Staged, NEW legacy \in SUBSET Kinds(Legacy)
    PROVE  packet_accepted(legacy) /\ fifo_wr(legacy) \subseteq Kinds(Legacy)
             <=> legacy_packet_accepted(legacy)
<1>1. held \subseteq {"monitor", "la", "profiler"}
  BY KindsOfMessages DEF TypeOK
<1>2. CASE "monitor" \in held
  <2>1. fifo_wr(legacy) = {"monitor"} /\ ~legacy_packet_accepted(legacy)
    BY <1>2 DEF fifo_wr, legacy_packet_accepted
  <2> QED BY <2>1, KindsOfMessages
<1>3. CASE "monitor" \notin held /\ legacy # {}
  <2>1. First(Legacy, legacy) \in legacy
    BY <1>3, KindsOfMessages, FirstIsOne
  <2>2. fifo_wr(legacy) \subseteq Kinds(Legacy)
    BY <1>3, <2>1 DEF fifo_wr
  <2> QED BY <1>3, <2>2 DEF legacy_packet_accepted
<1>4. CASE "monitor" \notin held /\ legacy = {}
  <2>1. fifo_wr(legacy) \subseteq Streams
    BY <1>1, <1>4, KindsOfMessages DEF fifo_wr, Staged, Streams
  <2>2. ~(packet_accepted(legacy) /\ fifo_wr(legacy) \subseteq Kinds(Legacy))
    BY <2>1, KindsOfMessages DEF packet_accepted
  <2> QED BY <1>4, <2>2 DEF legacy_packet_accepted
<1> QED BY <1>2, <1>3, <1>4

LEMMA TraceDropsAreSeen ==
    ASSUME NEW legacy \in SUBSET Kinds(Legacy), NEW traces \in SUBSET Kinds(TraceKinds)
    PROVE  trace_dropped(legacy, traces) <=> TracesLost(legacy, traces) > 0
<1>1. Cardinality(traces) \in Nat
  BY LossesAreNumbers
<1>2. Cardinality(traces) = 0 <=> traces = {}
  <2>1. IsFiniteSet(traces)
    BY KindsOfMessages, PulsesAreFinite
  <2> QED BY <2>1, FS_EmptySet
<1>3. CASE traces # {} /\ (~trace_valid \/ msg_ready(legacy).trace)
  <2>1. TracesLost(legacy, traces) = Cardinality(traces) - 1
    BY <1>3 DEF TracesLost
  <2>2. trace_dropped(legacy, traces) <=> Cardinality(traces) > 1
    BY <1>3 DEF trace_dropped
  <2> QED BY <1>1, <2>1, <2>2
<1>4. CASE traces # {} /\ trace_valid /\ ~msg_ready(legacy).trace
  <2>1. TracesLost(legacy, traces) = Cardinality(traces) - 0
    BY <1>4 DEF TracesLost
  <2>2. trace_dropped(legacy, traces)
    BY <1>4 DEF trace_dropped
  <2> QED BY <1>1, <1>2, <1>4, <2>1, <2>2
<1>5. CASE traces = {}
  <2>1. TracesLost(legacy, traces) = Cardinality(traces) - 0
    BY <1>5 DEF TracesLost
  <2> QED BY <1>2, <1>5, <2>1 DEF trace_dropped
<1> QED BY <1>3, <1>4, <1>5

LEMMA EdgeKeepsDropCount ==
    ASSUME CoreInv, DropCountExact,
           NEW legacy \in SUBSET Kinds(Legacy),
           NEW traces \in SUBSET Kinds(TraceKinds), NEW out_ready \in BOOLEAN,
           Edge(legacy, traces, out_ready)
    PROVE  DropCountExact'
<1>1. TypeOK /\ Staged
  BY DEF CoreInv
<1>2. LegacyLost(legacy) = core_drop_increment(legacy)
  BY <1>1, LegacyAccepted DEF LegacyLost, core_drop_increment
<1>3. drop_count' = Plus(drop_count, core_drop_increment(legacy)
                           + IF trace_dropped(legacy, traces) THEN 1 ELSE 0)
  BY DEF Edge, CounterEdge
<1>4. lost' = Plus(lost, LegacyLost(legacy)
                     + IF TracesLost(legacy, traces) > 0 THEN 1 ELSE 0)
  BY DEF Edge, Observe
<1> QED BY <1>2, <1>3, <1>4, TraceDropsAreSeen DEF DropCountExact

LEMMA StartDropCount == Init => DropCountExact
BY DEF Init, DropCountExact

LEMMA NextKeepsDropCount == CoreInv /\ DropCountExact /\ [Next]_vars => DropCountExact'
<1> SUFFICES ASSUME CoreInv, DropCountExact, [Next]_vars
             PROVE  DropCountExact'
  OBVIOUS
<1>1. CASE Next
  BY <1>1, EdgeKeepsDropCount DEF Next, Clock
<1>2. CASE UNCHANGED vars
  BY <1>2 DEF vars, ghosts, DropCountExact
<1> QED BY <1>1, <1>2

LEMMA DropsAreCounted == Spec => []DropCountExact
BY NextKeepsDropCount, StartDropCount, CoreInvariant, PTL DEF Spec

(* The reserve holds and the two counters of the protocol account for      *)
(* every message, taken or lost, but for a trace message that is lost      *)
(* together with another one on its edge, whatever the sources built in    *)
(* (Debug Protocol v1, 172-173; debug_core 139-142, 306-312).              *)
THEOREM CountersAccount == Spec => []Accounts
BY DropsAreCounted, StreamsLeaveTwoEntries, PacketsAreAccounted, PTL DEF Accounts

-----------------------------------------------------------------------------
(* The packet ring for every depth: types, coherence and refinement of the *)
(* bounded queue that the core is built on.  RingTypeOK /\ Coherent is     *)
(* inductive; the refinement then compares the queue before and after an   *)
(* edge entry by entry.                                                    *)

RingInv == RingTypeOK /\ Coherent

(* Wrapping keeps a pointer in the memory.                                 *)
LEMMA WrappedInRange ==
    ASSUME NEW p \in 0 .. 2 * DEPTH - 1
    PROVE  Wrapped(p) \in 0 .. DEPTH - 1
BY DepthAssumption DEF Wrapped

(* From a moved pointer the same word is one place nearer.                 *)
LEMMA PlaceMoves ==
    ASSUME NEW r \in 0 .. DEPTH - 1, NEW k \in 0 .. DEPTH - 1
    PROVE  Wrapped(Wrapped(r + 1) + k) = Wrapped(r + k + 1)
BY DepthAssumption DEF Wrapped

(* Going on by one from the k-th place ends on the next.                   *)
LEMMA EndMoves ==
    ASSUME NEW r \in 0 .. DEPTH - 1, NEW k \in 0 .. DEPTH - 1
    PROVE  Wrapped(Wrapped(r + k) + 1) = Wrapped(r + k + 1)
BY DepthAssumption DEF Wrapped

(* Different places short of a whole turn are different words.             *)
LEMMA PlacesDiffer ==
    ASSUME NEW r \in 0 .. DEPTH - 1, NEW j \in 0 .. DEPTH, NEW k \in 0 .. DEPTH,
           j < k, k - j < DEPTH
    PROVE  Wrapped(r + j) # Wrapped(r + k)
BY DepthAssumption DEF Wrapped

-----------------------------------------------------------------------------
LEMMA InitRingInv == InitRing => RingInv
BY DepthAssumption DEF InitRing, RingInv, RingTypeOK, Coherent, Wrapped

(* An edge keeps the pointers in range and moves the count with them.      *)
LEMMA EdgeCounts ==
    ASSUME RingInv, NEW offer \in Offers, NEW ready \in BOOLEAN, RingEdge(offer, ready)
    PROVE  /\ wr_ptr' \in 0 .. DEPTH - 1 /\ rd_ptr' \in 0 .. DEPTH - 1
           /\ count' \in 0 .. DEPTH
           /\ wr_ptr' = Wrapped(rd_ptr' + count')
<1> USE DepthAssumption
<1>1. /\ wr_ptr \in 0 .. DEPTH - 1 /\ rd_ptr \in 0 .. DEPTH - 1
      /\ count \in 0 .. DEPTH /\ wr_ptr = Wrapped(rd_ptr + count)
  BY DEF RingInv, RingTypeOK, Coherent
<1>2. do_read(ready) => count # 0
  BY DEF do_read, empty
<1>3. do_write(offer, ready) => count # DEPTH \/ do_read(ready)
  BY <1>1 DEF do_write, wr_ready, full, do_read, empty
<1>4. wr_ptr' = IF do_write(offer, ready) THEN Wrapped(wr_ptr + 1) ELSE wr_ptr
  BY DEF RingEdge, do_write, Offers
<1>5. rd_ptr' = IF do_read(ready) THEN Wrapped(rd_ptr + 1) ELSE rd_ptr
  BY DEF RingEdge
<1>6. count' = Counted(do_write(offer, ready), do_read(ready))
  BY DEF RingEdge
<1>7. CASE do_write(offer, ready) /\ do_read(ready)
  BY <1>1, <1>2, <1>4, <1>5, <1>6, <1>7 DEF Counted, Wrapped
<1>8. CASE do_write(offer, ready) /\ ~do_read(ready)
  BY <1>1, <1>3, <1>4, <1>5, <1>6, <1>8 DEF Counted, Wrapped
<1>9. CASE ~do_write(offer, ready) /\ do_read(ready)
  BY <1>1, <1>2, <1>4, <1>5, <1>6, <1>9 DEF Counted, Wrapped
<1>10. CASE ~do_write(offer, ready) /\ ~do_read(ready)
  BY <1>1, <1>4, <1>5, <1>6, <1>10 DEF Counted, Wrapped
<1> QED BY <1>7, <1>8, <1>9, <1>10

(* A place seen from the read pointer after an edge that may read.         *)
LEMMA PlaceAfter ==
    ASSUME RingInv, NEW offer \in Offers, NEW ready \in BOOLEAN, RingEdge(offer, ready),
           NEW k \in 0 .. DEPTH - 1
    PROVE  Wrapped(rd_ptr' + k) = IF do_read(ready) THEN Wrapped(rd_ptr + k + 1)
                                                       ELSE Wrapped(rd_ptr + k)
<1>1. rd_ptr \in 0 .. DEPTH - 1
  BY DEF RingInv, RingTypeOK
<1>2. rd_ptr' = IF do_read(ready) THEN Wrapped(rd_ptr + 1) ELSE rd_ptr
  BY DEF RingEdge
<1> QED BY <1>1, <1>2, PlaceMoves

(* What stays in the queue keeps its words; a read drops the first.        *)
LEMMA KeptWords ==
    ASSUME RingInv, NEW offer \in Offers, NEW ready \in BOOLEAN, RingEdge(offer, ready),
           NEW i \in 1 .. count, i <= count - (IF do_read(ready) THEN 1 ELSE 0)
    PROVE  mem'[Wrapped(rd_ptr' + i - 1)]
             = mem[Place(IF do_read(ready) THEN i + 1 ELSE i)]
<1> USE DepthAssumption
<1> DEFINE k == IF do_read(ready) THEN i ELSE i - 1
<1>1. /\ wr_ptr \in 0 .. DEPTH - 1 /\ rd_ptr \in 0 .. DEPTH - 1
      /\ count \in 0 .. DEPTH /\ wr_ptr = Wrapped(rd_ptr + count)
      /\ mem \in [0 .. DEPTH - 1 -> Entry \cup {Blank}]
  BY DEF RingInv, RingTypeOK, Coherent
<1>2. k \in 0 .. count - 1 /\ i - 1 \in 0 .. DEPTH - 1
  BY <1>1
<1>3. rd_ptr' \in 0 .. DEPTH - 1
  BY EdgeCounts
<1>4. rd_ptr' + i - 1 = rd_ptr' + (i - 1)
  BY <1>3
<1>5. Wrapped(rd_ptr' + (i - 1)) = Wrapped(rd_ptr + k)
  <2>1. Wrapped(rd_ptr' + (i - 1))
          = IF do_read(ready) THEN Wrapped(rd_ptr + (i - 1) + 1)
                                 ELSE Wrapped(rd_ptr + (i - 1))
    BY <1>2, PlaceAfter
  <2>2. rd_ptr + (i - 1) + 1 = rd_ptr + i
    BY <1>1
  <2> QED BY <2>1, <2>2
<1>6. Place(IF do_read(ready) THEN i + 1 ELSE i) = Wrapped(rd_ptr + k)
  BY <1>1 DEF Place
<1>7. do_write(offer, ready) => Wrapped(rd_ptr + k) # wr_ptr
  <2>1. SUFFICES ASSUME do_write(offer, ready) PROVE Wrapped(rd_ptr + k) # Wrapped(rd_ptr + count)
    BY <1>1
  <2>2. count - k < DEPTH
    <3>1. CASE count < DEPTH
      BY <3>1, <1>1, <1>2
    <3>2. CASE count = DEPTH
      <4>1. do_read(ready)
        BY <2>1, <3>2, <1>1 DEF do_write, wr_ready, full, do_read, empty
      <4> QED BY <4>1, <1>1, <3>2
    <3> QED BY <3>1, <3>2, <1>1
  <2>3. k \in 0 .. DEPTH /\ k < count
    BY <1>1, <1>2
  <2> HIDE DEF k
  <2> QED BY <2>2, <2>3, <1>1, PlacesDiffer
<1>8. Wrapped(rd_ptr + k) \in 0 .. DEPTH - 1
  <2>1. rd_ptr + k \in 0 .. 2 * DEPTH - 1
    BY <1>1, <1>2
  <2> HIDE DEF k
  <2> QED BY <2>1, WrappedInRange
<1>9. mem'[Wrapped(rd_ptr + k)] = mem[Wrapped(rd_ptr + k)]
  <2>1. CASE do_write(offer, ready)
    <3>1. PICK e \in offer : mem' = [mem EXCEPT ![wr_ptr] = e]
      BY <2>1 DEF RingEdge
    <3> HIDE DEF k
    <3> QED BY <3>1, <2>1, <1>1, <1>7, <1>8
  <2>2. CASE ~do_write(offer, ready)
    <3>1. mem' = mem
      BY <2>2 DEF RingEdge, do_write
    <3> QED BY <3>1
  <2> QED BY <2>1, <2>2
<1> HIDE DEF k
<1> QED BY <1>4, <1>5, <1>6, <1>9

(* A written entry is the last of the queue.                               *)
LEMMA WrittenWord ==
    ASSUME RingInv, NEW e \in Entry, NEW ready \in BOOLEAN, RingEdge({e}, ready),
           wr_ready(ready)
    PROVE  /\ count' = count + 1 - (IF do_read(ready) THEN 1 ELSE 0)
           /\ mem'[Wrapped(rd_ptr' + count' - 1)] = e
<1> USE DepthAssumption
<1>1. /\ wr_ptr \in 0 .. DEPTH - 1 /\ rd_ptr \in 0 .. DEPTH - 1
      /\ count \in 0 .. DEPTH /\ wr_ptr = Wrapped(rd_ptr + count)
      /\ mem \in [0 .. DEPTH - 1 -> Entry \cup {Blank}]
  BY DEF RingInv, RingTypeOK, Coherent
<1>2. do_write({e}, ready) /\ {e} \in Offers
  BY DEF do_write, Offers
<1>3. mem' = [mem EXCEPT ![wr_ptr] = e]
  BY <1>2 DEF RingEdge
<1>4. count' = count + 1 - (IF do_read(ready) THEN 1 ELSE 0)
  BY <1>1, <1>2 DEF RingEdge, Counted
<1>5. rd_ptr' = IF do_read(ready) THEN Wrapped(rd_ptr + 1) ELSE rd_ptr
  BY DEF RingEdge
<1>6. do_read(ready) => count # 0
  BY DEF do_read, empty
<1>7. ~do_read(ready) => count # DEPTH
  BY <1>1, <1>2 DEF do_write, wr_ready, full, do_read, empty
<1>8. Wrapped(rd_ptr' + count' - 1) = wr_ptr
  BY <1>1, <1>4, <1>5, <1>6, <1>7 DEF Wrapped
<1> QED BY <1>1, <1>3, <1>4, <1>8

(* The words of the queue after an edge: those that stay, then the new.    *)
LEMMA EdgeWords ==
    ASSUME RingInv, NEW offer \in Offers, NEW ready \in BOOLEAN, RingEdge(offer, ready),
           NEW i \in 1 .. count'
    PROVE  mem'[Wrapped(rd_ptr' + i - 1)]
             = IF i <= count - (IF do_read(ready) THEN 1 ELSE 0)
               THEN mem[Place(IF do_read(ready) THEN i + 1 ELSE i)]
               ELSE CHOOSE e \in offer : TRUE
<1> DEFINE kept == count - (IF do_read(ready) THEN 1 ELSE 0)
<1>1. count \in Nat /\ count' \in Nat /\ (do_read(ready) => count # 0)
  BY DepthAssumption, EdgeCounts DEF RingInv, RingTypeOK, do_read, empty
<1>2. CASE i <= kept
  BY <1>1, <1>2, KeptWords
<1>3. CASE i > kept
  <2>1. do_write(offer, ready)
    <3>1. count' = Counted(do_write(offer, ready), do_read(ready))
      BY DEF RingEdge
    <3> QED BY <3>1, <1>1, <1>3 DEF Counted
  <2>2. PICK e \in Entry : offer = {e}
    BY <2>1 DEF do_write, Offers
  <2>3. /\ count' = kept + 1
        /\ mem'[Wrapped(rd_ptr' + count' - 1)] = e
    BY <2>1, <2>2, <1>1, WrittenWord DEF do_write
  <2>4. i = count'
    BY <2>3, <1>1, <1>3
  <2>5. (CHOOSE x \in offer : TRUE) = e
    BY <2>2
  <2>6. mem'[Wrapped(rd_ptr' + i - 1)] = e
    BY <2>3, <2>4, Zenon
  <2>7. ~(i <= kept)
    BY <1>1, <1>3
  <2> QED BY <2>5, <2>6, <2>7, Zenon
<1> QED BY <1>1, <1>2, <1>3

LEMMA RingEdgeInv ==
    ASSUME RingInv, NEW offer \in Offers, NEW ready \in BOOLEAN, RingEdge(offer, ready)
    PROVE  RingInv'
<1>1. mem' \in [0 .. DEPTH - 1 -> Entry \cup {Blank}]
  <2>1. mem \in [0 .. DEPTH - 1 -> Entry \cup {Blank}] /\ offer \subseteq Entry
    BY DEF RingInv, RingTypeOK, Offers
  <2>2. \/ mem' = mem
        \/ \E e \in offer : mem' = [mem EXCEPT ![wr_ptr] = e]
    BY DEF RingEdge
  <2> QED BY <2>1, <2>2
<1>2. ASSUME NEW i \in 1 .. count'
      PROVE  mem'[Wrapped(rd_ptr' + i - 1)] \in Entry
  <2>1. count \in Nat /\ count' \in Nat /\ \A j \in 1 .. count : mem[Place(j)] \in Entry
    BY DepthAssumption, EdgeCounts DEF RingInv, RingTypeOK, Coherent
  <2>2. CASE i <= count - (IF do_read(ready) THEN 1 ELSE 0)
    <3>1. (IF do_read(ready) THEN i + 1 ELSE i) \in 1 .. count
      BY <2>1, <2>2
    <3> QED BY <3>1, <2>1, <2>2, EdgeWords
  <2>3. CASE ~(i <= count - (IF do_read(ready) THEN 1 ELSE 0))
    <3>1. do_read(ready) => count # 0
      BY DEF do_read, empty
    <3>2. count' = Counted(do_write(offer, ready), do_read(ready))
      BY DEF RingEdge
    <3>3. do_write(offer, ready)
      BY <3>1, <3>2, <2>1, <2>3 DEF Counted
    <3>4. (CHOOSE e \in offer : TRUE) \in Entry
      BY <3>3 DEF do_write, Offers
    <3> QED BY <3>4, <2>3, EdgeWords
  <2> QED BY <2>2, <2>3
<1> QED BY <1>1, <1>2, EdgeCounts DEF RingInv, RingTypeOK, Coherent, Place

(* The next-state relation keeps the invariant.                            *)
LEMMA NextRingInv == RingInv /\ [NextRing]_ringVars => RingInv'
<1> SUFFICES ASSUME RingInv, [NextRing]_ringVars PROVE RingInv'
  OBVIOUS
<1>1. CASE NextRing
  BY <1>1, RingEdgeInv DEF NextRing
<1>2. CASE UNCHANGED ringVars
  BY <1>2 DEF ringVars, RingInv, RingTypeOK, Coherent, Place
<1> QED BY <1>1, <1>2

(* In every state the pointers, the count and the memory have their types  *)
(* (ring_buffer 27-30, 49-70).                                             *)
THEOREM RingTypes == SpecRing => []RingTypeOK
<1>1. RingInv => RingTypeOK
  BY DEF RingInv
<1> QED BY <1>1, InitRingInv, NextRingInv, PTL DEF SpecRing

(* In every state the count leads from the read pointer to the write       *)
(* pointer over words that were written (ring_buffer 49-70).               *)
THEOREM RingCoherent == SpecRing => []Coherent
<1>1. RingInv => Coherent
  BY DEF RingInv
<1> QED BY <1>1, InitRingInv, NextRingInv, PTL DEF SpecRing

-----------------------------------------------------------------------------
(* The queue, entry by entry.                                              *)
LEMMA StoredIsSeq ==
    ASSUME RingInv
    PROVE  /\ Stored \in Seq(Entry) /\ Len(Stored) = count
           /\ \A i \in 1 .. count : Stored[i] = mem[Place(i)]
<1>1. count \in Nat /\ \A i \in 1 .. count : mem[Place(i)] \in Entry
  BY DepthAssumption DEF RingInv, RingTypeOK, Coherent
<1> QED BY <1>1 DEF Stored

(* The first entry leaves the queue when it is read.                       *)
LEMMA RestOfStored ==
    ASSUME RingInv, NEW ready \in BOOLEAN, NEW rest,
           rest = IF Queue!rd_valid /\ ready THEN Tail(Stored) ELSE Stored
    PROVE  /\ rest \in Seq(Entry)
           /\ Len(rest) = count - (IF do_read(ready) THEN 1 ELSE 0)
           /\ \A i \in 1 .. Len(rest) :
                 rest[i] = mem[Place(IF do_read(ready) THEN i + 1 ELSE i)]
<1>1. count \in Nat
  BY DepthAssumption DEF RingInv, RingTypeOK
<1>2. (Stored # <<>>) <=> (count # 0)
  BY <1>1, StoredIsSeq
<1>3. (Queue!rd_valid /\ ready) <=> do_read(ready)
  BY <1>2 DEF Queue!rd_valid, do_read, empty
<1>4. CASE do_read(ready)
  <2>1. rest = Tail(Stored) /\ Stored # <<>>
    BY <1>2, <1>3, <1>4 DEF do_read, empty
  <2>2. /\ rest \in Seq(Entry) /\ Len(rest) = Len(Stored) - 1
        /\ \A i \in 1 .. Len(rest) : rest[i] = Stored[i + 1]
    BY <2>1, StoredIsSeq, HeadTailProperties
  <2> QED BY <2>2, <1>1, <1>4, StoredIsSeq
<1>5. CASE ~do_read(ready)
  BY <1>1, <1>3, <1>5, StoredIsSeq
<1> QED BY <1>4, <1>5

(* An edge of the ring is an edge of the queue.                            *)
LEMMA EdgeRefines ==
    ASSUME RingInv, RingInv', NEW offer \in Offers, NEW ready \in BOOLEAN,
           RingEdge(offer, ready)
    PROVE  Queue!Edge(offer, ready)
<1> DEFINE rest == IF Queue!rd_valid /\ ready THEN Tail(Stored) ELSE Stored
<1>1. /\ rest \in Seq(Entry)
      /\ Len(rest) = count - (IF do_read(ready) THEN 1 ELSE 0)
      /\ \A i \in 1 .. Len(rest) :
            rest[i] = mem[Place(IF do_read(ready) THEN i + 1 ELSE i)]
  BY RestOfStored
<1>2. /\ count \in Nat /\ count' \in Nat /\ DEPTH \in Nat
      /\ do_read(ready) => count # 0
      /\ count' = Counted(do_write(offer, ready), do_read(ready))
  BY DepthAssumption DEF RingInv, RingTypeOK, RingEdge, do_read, empty
<1>3. /\ Stored' \in Seq(Entry) /\ Len(Stored') = count'
      /\ \A i \in 1 .. count' : Stored'[i] = mem'[Wrapped(rd_ptr' + i - 1)]
  <2>1. /\ count' \in Nat
        /\ \A i \in 1 .. count' : mem'[Wrapped(rd_ptr' + i - 1)] \in Entry
    BY <1>2 DEF RingInv, Coherent, Place
  <2>2. Stored' = [i \in 1 .. count' |-> mem'[Wrapped(rd_ptr' + i - 1)]]
    BY DEF Stored, Place
  <2> QED BY <2>1, <2>2
<1>4. Queue!wr_ready(ready) <=> wr_ready(ready)
  BY <1>2, StoredIsSeq DEF Queue!wr_ready, Queue!used_count, wr_ready, full
<1> HIDE DEF rest
<1>5. CASE do_write(offer, ready)
  <2>1. PICK e \in Entry : offer = {e}
    BY <1>5 DEF do_write, Offers
  <2>2. (CHOOSE x \in offer : TRUE) = e
    BY <2>1
  <2>3. /\ Append(rest, e) \in Seq(Entry) /\ Len(Append(rest, e)) = Len(rest) + 1
        /\ \A i \in 1 .. Len(rest) : Append(rest, e)[i] = rest[i]
        /\ Append(rest, e)[Len(rest) + 1] = e
    BY <1>1, AppendProperties
  <2>4. count' = Len(rest) + 1
    BY <1>1, <1>2, <1>5 DEF Counted
  <2>5. ASSUME NEW i \in 1 .. count' PROVE Stored'[i] = Append(rest, e)[i]
    <3>1. Stored'[i] = IF i <= count - (IF do_read(ready) THEN 1 ELSE 0)
                       THEN mem[Place(IF do_read(ready) THEN i + 1 ELSE i)] ELSE e
      BY <1>3, <2>2, EdgeWords
    <3>2. CASE i \in 1 .. Len(rest)
      BY <1>1, <2>3, <3>1, <3>2
    <3>3. CASE i = Len(rest) + 1
      BY <1>1, <2>3, <3>1, <3>3
    <3> QED BY <1>1, <2>4, <3>2, <3>3
  <2>6. Stored' = Append(rest, e)
    BY <1>3, <2>3, <2>4, <2>5, SeqEqual
  <2> QED BY <2>1, <2>6, <1>4, <1>5 DEF Queue!Edge, do_write, rest
<1>6. CASE ~do_write(offer, ready)
  <2>1. count' = Len(rest)
    BY <1>1, <1>2, <1>6 DEF Counted
  <2>2. ASSUME NEW i \in 1 .. count' PROVE Stored'[i] = rest[i]
    <3>1. i \in 1 .. Len(rest) /\ i <= count - (IF do_read(ready) THEN 1 ELSE 0)
      BY <1>1, <1>2, <2>1
    <3>2. mem'[Wrapped(rd_ptr' + i - 1)]
            = mem[Place(IF do_read(ready) THEN i + 1 ELSE i)]
      BY <3>1, EdgeWords
    <3> QED BY <1>1, <1>3, <3>1, <3>2
  <2>3. Stored' = rest
    BY <1>1, <1>3, <2>1, <2>2, SeqEqual
  <2> QED BY <2>3, <1>4, <1>6 DEF Queue!Edge, do_write, rest
<1> QED BY <1>5, <1>6

(* For every depth the ring implements the bounded queue that DebugCore is *)
(* built on (ring_buffer 24-72).                                           *)
THEOREM RingRefinesQueue == SpecRing => RingIsQueue
<1>1. InitRing => Queue!Init
  BY DEF InitRing, Queue!Init, Stored
<1>2. ASSUME RingInv, RingInv', [NextRing]_ringVars
      PROVE  [Queue!Next]_Stored
  <2>1. CASE NextRing
    <3>1. PICK offer \in Offers, ready \in BOOLEAN : RingEdge(offer, ready)
      BY <2>1 DEF NextRing
    <3>2. Queue!Edge(offer, ready)
      BY <3>1, <1>2, EdgeRefines
    <3> QED BY <3>1, <3>2 DEF Queue!Next, Offers
  <2>2. CASE UNCHANGED ringVars
    BY <2>2 DEF ringVars, Stored, Place
  <2> QED BY <2>1, <2>2, <1>2
<1>3. RingInv /\ [NextRing]_ringVars => RingInv'
  BY NextRingInv
<1> QED BY <1>1, <1>2, <1>3, InitRingInv, PTL DEF SpecRing, RingIsQueue, Queue!Spec
=============================================================================
