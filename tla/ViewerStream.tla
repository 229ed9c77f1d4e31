---------------------------- MODULE ViewerStream ----------------------------
(***************************************************************************)
(* How bytes reach the Web viewer's parser: WebSocket sessions with the    *)
(* JTAG bridge, the serial port and the replay of a raw capture, which all *)
(* feed one buffer, state.rx (src/tools/viewer/web/app.js).                *)
(*                                                                         *)
(* The target is in one session at a time; in session s it sends the bytes *)
(* of Script[s], and the bridge broadcasts them in DATA records to every   *)
(* open socket.  A record is kept as two halves, so that a message may end *)
(* inside one; its bytes become visible with the second half.              *)
(***************************************************************************)
EXTENDS FrameParser, FiniteSets

CONSTANTS Script,      \* the frames the target sends in each of its sessions
          SOCKETS,     \* number of times the user connects to the bridge
          DataSizes,   \* bytes a DATA record may have
          HalfCounts,  \* record halves one WebSocket message may have
          MAX_WIRE,    \* record halves on the way to a socket before the bridge sends on
          Files,       \* byte sequences that may be replayed from a file
          SerialBytes, \* byte sequences a serial chunk may hold
          MAX_CHUNKS,  \* serial chunks, and replays, in a behaviour
          HASTY_BYTES  \* bytes of a session sent after a hasty Connect; nothing else is fed then

Flat(frames) == FlattenSeq(frames)

\* A frame as the packetizer of the target sends it
IsFrame(frame) ==
    /\ Len(frame) >= HEADER /\ frame[1] = SOF
    /\ frame[4] <= MAX_PAYLOAD /\ Len(frame) = HEADER + frame[4]
    /\ checksum(SubSeq(frame, 2, Len(frame) - 1)) = frame[Len(frame)]

ASSUME StreamAssumption ==
    /\ SOF \in Nat /\ MAX_PAYLOAD \in Nat /\ RADIX \in Nat \ {0}
    /\ Script # <<>> /\ \A s \in DOMAIN Script : \A i \in DOMAIN Script[s] : IsFrame(Script[s][i])
    /\ Script \in Seq(Seq(Seq(Nat)))
    /\ SOCKETS \in Nat /\ DataSizes \cup HalfCounts \subseteq Nat \ {0} /\ MAX_WIRE \in Nat
    /\ Files \cup SerialBytes \subseteq Seq(Nat)
    /\ HASTY_BYTES \in Nat /\ \A s \in DOMAIN Script : HASTY_BYTES <= Len(Flat(Script[s]))

VARIABLES
    session,     \* the target's session
    sent,        \* bytes of it the bridge has broadcast
    wire,        \* halves of records on the way to each socket
    ready,       \* readyState of each socket
    socket,      \* state.socket
    recordRx,    \* state.transport.recordRx
    parser,      \* state.rx, frames handed on, syncDrops, bytes with a bad checksum
    sessionId,   \* state.transport.sessionId
    connection,  \* state.transport.connection, which decides the two buttons
    serial,      \* the serial port: "closed", "reading", "ended", "closing"
    chunks,      \* serial chunks and replays so far
    hasty,       \* history: was Connect clicked while a socket or the port was not yet closed?
    fed          \* history: the bytes fed since each time state.rx was cleared

vars == <<session, sent, wire, ready, socket, recordRx, parser,
          sessionId, connection, serial, chunks, hasty, fed>>

Sockets  == 1..SOCKETS
NoSocket == 0
Unknown  == 0            \* sessionId null
Target   == <<session, sent>>
Rx       == <<recordRx, parser, sessionId, fed>>

\* Byte i of session s; bytes of other sources have session 0.
Tagged(s, i) == [v |-> Flat(Script[s])[i], s |-> s, n |-> i]
Foreign(values) == [i \in DOMAIN values |-> [v |-> values[i], s |-> 0, n |-> chunks * 16 + i]]

Halves(record) == <<[first |-> TRUE, record |-> record], [first |-> FALSE, record |-> record]>>
Hello(s)     == [kind |-> "HELLO", session |-> s]
Session(s)   == [kind |-> "SESSION", session |-> s]
Data(bytes)  == [kind |-> "DATA", bytes |-> bytes]

Init ==
    /\ session = 1
    /\ sent = 0
    /\ wire = [c \in Sockets |-> <<>>]
    /\ ready = [c \in Sockets |-> "none"]
    /\ socket = NoSocket
    /\ recordRx = <<>>
    /\ parser = Fresh(<<>>)
    /\ sessionId = Unknown
    /\ connection = "disconnected"
    /\ serial = "closed"
    /\ chunks = 0 /\ hasty = FALSE
    /\ fed = <<<<>>>>

-----------------------------------------------------------------------------
(* The bridge *)

ToAll(record) == wire' = [c \in Sockets |-> IF ready[c] = "open" THEN wire[c] \o Halves(record) ELSE wire[c]]

Broadcast(k) ==
    /\ sent + k <= IF hasty THEN HASTY_BYTES ELSE Len(Flat(Script[session]))
    /\ \A c \in Sockets : Len(wire[c]) <= MAX_WIRE
    /\ sent' = sent + k
    /\ ToAll(Data([i \in 1..k |-> Tagged(session, sent + i)]))
    /\ UNCHANGED <<session, ready, socket, Rx, connection, serial, chunks, hasty>>

NewSession ==
    /\ session < Len(Script)
    /\ session' = session + 1
    /\ sent' = 0
    /\ ToAll(Session(session'))
    /\ UNCHANGED <<ready, socket, Rx, connection, serial, chunks, hasty>>

-----------------------------------------------------------------------------
(* Records: consumeBridgeRecord and the loop of consumeBridgeBytes.        *)

\* What the records of a message change
View == [parser |-> parser, sessionId |-> sessionId, fed |-> fed]

Longer(f, bytes) == [f EXCEPT ![Len(f)] = @ \o bytes]

Take(v, bytes) == [v EXCEPT !.parser = Feed(@, bytes), !.fed = Longer(@, bytes)]

Resync(v) == [v EXCEPT !.parser = [v.parser EXCEPT !.rx = <<>>], !.fed = Append(@, <<>>)]

\* Mutant: a new session keeps what is left of the old one.
consumeBridgeRecord_KeepsRx(v, record) ==
    CASE record.kind = "DATA"    -> Take(v, record.bytes)
      [] record.kind = "HELLO"   -> [v EXCEPT !.sessionId = record.session]
      [] record.kind = "SESSION" -> [Resync(v) EXCEPT !.sessionId = record.session]

consumeBridgeRecord(v, record) ==
    CASE record.kind = "DATA"    -> Take(v, record.bytes)
      [] record.kind = "HELLO"   ->
            [ (IF v.sessionId \notin {Unknown, record.session} THEN Resync(v) ELSE v)
              EXCEPT !.sessionId = record.session ]
      [] record.kind = "SESSION" -> [Resync(v) EXCEPT !.sessionId = record.session]

Records(halves) == [i \in 1..(Len(halves) \div 2) |-> halves[2 * i].record]

\* Mutant: whole records stay in recordRx.
Left_All(halves) == halves

\* What consumeBridgeBytes leaves in recordRx: a record not yet whole.
Left(halves) == SubSeq(halves, 2 * (Len(halves) \div 2) + 1, Len(halves))

Show(v) == parser' = v.parser /\ sessionId' = v.sessionId /\ fed' = v.fed

\* Two sockets never share a record that is cut in two: the split of records
\* is explored with one socket that delivers.
Cut(halves) == Len(halves) % 2 = 1

consumeBridgeBytes(c, k) ==
    LET merged == recordRx \o SubSeq(wire[c], 1, k)
    IN /\ Cut(merged) => \A d \in Sockets \ {c} : ready[d] # "open"
       /\ recordRx' = Left(merged)
       /\ Show(FoldLeft(consumeBridgeRecord, View, Records(merged)))

-----------------------------------------------------------------------------
(* The socket *)

setConnected(on) == connection' = IF on THEN "connected" ELSE "disconnected"

ConnectEnabled    == connection # "connected"
DisconnectEnabled == connection = "connected"
Settled == serial # "closing" /\ \A c \in Sockets : ready[c] \notin {"connecting", "closing"}

connectJtag(c) ==
    /\ ready[c] = "none" /\ \A d \in 1..(c - 1) : ready[d] # "none"
    /\ ConnectEnabled
    /\ hasty' = (hasty \/ ~Settled)
    /\ recordRx' = <<>>
    /\ socket' = c
    /\ ready' = [ready EXCEPT ![c] = "connecting"]
    /\ connection' = "connecting"
    /\ UNCHANGED <<Target, wire, parser, sessionId, serial, chunks, fed>>

\* The bridge adds the client and sends HELLO before any record.
onopen(c) ==
    /\ ready[c] = "connecting"
    /\ ready' = [ready EXCEPT ![c] = "open"]
    /\ wire' = [wire EXCEPT ![c] = Halves(Hello(session))]
    /\ setConnected(TRUE)
    /\ UNCHANGED <<Target, socket, Rx, serial, chunks, hasty>>

onmessage(c, k) ==
    /\ ready[c] = "open"
    /\ k <= Len(wire[c])
    /\ consumeBridgeBytes(c, k)
    /\ wire' = [wire EXCEPT ![c] = SubSeq(@, k + 1, Len(@))]
    /\ UNCHANGED <<Target, ready, socket, connection, serial, chunks, hasty>>

\* The connection fails, or the bridge ends it: onerror, then onclose.
onerror(c) ==
    /\ ready[c] \in {"connecting", "open"}
    /\ ready' = [ready EXCEPT ![c] = "closing"]
    /\ setConnected(FALSE)
    /\ UNCHANGED <<Target, wire, socket, Rx, serial, chunks, hasty>>

onclose(c) ==
    /\ ready[c] \in {"open", "closing"}
    /\ ready' = [ready EXCEPT ![c] = "closed"]
    /\ wire' = [wire EXCEPT ![c] = <<>>]
    /\ socket' = NoSocket
    /\ setConnected(FALSE)
    /\ UNCHANGED <<Target, Rx, serial, chunks, hasty>>

-----------------------------------------------------------------------------
(* The serial port and replayed files *)

connectSerial ==
    /\ ConnectEnabled /\ serial = "closed"
    /\ hasty' = (hasty \/ ~Settled)
    /\ serial' = "reading"
    /\ setConnected(TRUE)
    /\ UNCHANGED <<Target, wire, ready, socket, Rx, chunks>>

FeedForeign(values) ==
    /\ chunks < MAX_CHUNKS /\ ~hasty
    /\ chunks' = chunks + 1
    /\ Show(Take(View, Foreign(values)))
    /\ UNCHANGED <<Target, wire, ready, socket, recordRx, connection, serial, hasty>>

readLoop(values) == serial = "reading" /\ FeedForeign(values)

\* read() ends or throws: the port stays open, and is opened again only after a
\* Disconnect has closed it.
readLoopEnds ==
    /\ serial = "reading"
    /\ serial' = "ended"
    /\ setConnected(FALSE)
    /\ UNCHANGED <<Target, wire, ready, socket, Rx, chunks, hasty>>

replayRawCapture(values) == FeedForeign(values)

\* disconnect, up to its first await.  A read loop that runs ends then and shows
\* "disconnected", as the last line does; one that has ended leaves reader and
\* port to close, unless cancel() throws what the read threw.
disconnect ==
    /\ DisconnectEnabled
    /\ socket' = NoSocket
    /\ ready' = [c \in Sockets |-> IF c = socket /\ ready[c] \in {"connecting", "open"} THEN "closing" ELSE ready[c]]
    /\ serial' \in CASE serial = "reading" -> {"closing"}
                      [] serial = "ended"   -> {"closing", "ended"}
                      [] OTHER              -> {serial}
    /\ IF serial \in {"closed", "reading"} THEN setConnected(FALSE) ELSE UNCHANGED connection
    /\ UNCHANGED <<Target, wire, Rx, chunks, hasty>>

portCloses ==
    /\ serial = "closing"
    /\ serial' = "closed"
    /\ setConnected(FALSE)
    /\ UNCHANGED <<Target, wire, ready, socket, Rx, chunks, hasty>>

Next ==
    \/ \E k \in DataSizes : Broadcast(k)
    \/ NewSession
    \/ \E c \in Sockets : connectJtag(c) \/ onopen(c) \/ onerror(c) \/ onclose(c)
    \/ \E c \in Sockets, k \in HalfCounts : onmessage(c, k)
    \/ connectSerial \/ readLoopEnds \/ disconnect \/ portCloses
    \/ \E values \in SerialBytes : readLoop(values)
    \/ \E values \in Files : replayRawCapture(values)

Spec == Init /\ [][Next]_vars

-----------------------------------------------------------------------------
(* Properties *)

AllFed == FlattenSeq(fed)
Frames == parser.frames

\* Where bytes are cut into reads, messages, records and chunks is of no
\* consequence: what was handed to decodeFrame, dropped and thrown away is what
\* one parse of each uninterrupted sequence would give, and what it would leave
\* is what is left (parseAvailableFrames, consumeBridgeBytes).
StreamIsBatch ==
    LET whole == [e \in DOMAIN fed |-> Batch(fed[e])]
        sum(f(_)) == FoldLeft(LAMBDA n, p : n + f(p), 0, whole)
    IN /\ Frames = FlattenSeq([e \in DOMAIN fed |-> whole[e].frames])
       /\ parser.rx = whole[Len(fed)].rx
       /\ parser.drops = sum(LAMBDA p : p.drops)
       /\ parser.bad = sum(LAMBDA p : p.bad)

\* A sequence of bytes that begins a session and has no gap gives exactly the
\* frames of the target it holds whole, whatever values their payloads hold.
FramesAreTheTargets ==
    \A e \in DOMAIN fed :
        (fed[e] # <<>> /\ fed[e][1].s # 0
           /\ \A i \in DOMAIN fed[e] : fed[e][i].s = fed[e][1].s /\ fed[e][i].n = i)
        => LET got   == Batch(fed[e]).frames
               whole == Script[fed[e][1].s]
               held  == {n \in 0..Len(whole) : Len(Flat(SubSeq(whole, 1, n))) <= Len(fed[e])}
           IN [i \in DOMAIN got |-> Values(got[i])] = SubSeq(whole, 1, Cardinality(held) - 1)

\* The next two hold as long as a socket or port is closed before the next is
\* asked for: the Connect button, enabled while a socket is connecting or
\* closing, does not see to that, and two sockets may then feed one parser.

\* No frame is put together from two sessions of the bridge (HELLO and
\* SESSION of consumeBridgeRecord).
NoGlue ==
    ~hasty => \A i \in DOMAIN Frames : \A j, k \in DOMAIN Frames[i] :
        Frames[i][j].s # 0 /\ Frames[i][k].s # 0 => Frames[i][j].s = Frames[i][k].s

\* No byte of the target is decoded twice, and none out of order, over
\* disconnections and reconnections (consumeBridgeBytes, connectJtag).
RecordsOnce ==
    ~hasty => \A i, j \in DOMAIN AllFed :
        i < j /\ AllFed[i].s # 0 /\ AllFed[j].s # 0 =>
            \/ AllFed[i].s < AllFed[j].s
            \/ AllFed[i].s = AllFed[j].s /\ AllFed[i].n < AllFed[j].n
=============================================================================
