----------------------------- MODULE DebugCore -----------------------------
(***************************************************************************)
(* yifpga_debug_core with its packetizer and trace adapter: many sources,  *)
(* one byte stream.  Its ring buffer is the queue that FrameRing is shown  *)
(* to be, here the variable fifo.  One step is one clock edge.  A message  *)
(* is known by what sent it: "monitor", "la" and "profiler" hold their     *)
(* message until it is taken; the pulses in Legacy and in TraceKinds last  *)
(* one edge.  A byte of a frame is a pair of the message and its place.    *)
(***************************************************************************)
EXTENDS RingDepth, Integers, Sequences, FiniteSets

\* DEPTH is 2^BUFFER_ADDR_WIDTH, 16
CONSTANTS COUNT_MOD,   \* 2^16, where the counters wrap
          OVERHEAD,    \* bytes before the payload, 4
          Holders,     \* the sources that hold their message
          Legacy,      \* pulsed messages, by priority
          TraceKinds,  \* pulsed trace messages, by priority
          payload_len  \* of each message

Kinds(s)   == {s[i] : i \in DOMAIN s}
Messages   == Holders \cup Kinds(Legacy) \cup Kinds(TraceKinds)
Streams    == {"la", "profiler"} \cup Kinds(TraceKinds)

ASSUME CoreAssumption == /\ DEPTH > 2
                         /\ COUNT_MOD \in Nat \ {0} /\ OVERHEAD \in Nat
                         /\ Holders \subseteq {"monitor", "la", "profiler"}
                         /\ Legacy \in Seq(Kinds(Legacy))
                         /\ TraceKinds \in Seq(Kinds(TraceKinds))
                         /\ Kinds(Legacy) \cap Streams = {}
                         /\ "monitor" \notin Kinds(Legacy) \cup Kinds(TraceKinds)
                         /\ payload_len \in [Messages -> 0 .. 32]

VARIABLES fifo,                                  \* the ring buffer
          sending, latched, byte_index,          \* the packetizer
          out_valid, out_data,
          trace_valid, trace_msg,                \* the trace adapter
          packet_count, drop_count,
          held,     \* the holders whose msg_valid is up
          line,     \* messages taken over and not yet sent to the end
          pos,      \* bytes of the first of them that were sent
          emitted,  \* frames sent, and
          lost      \* messages lost, both counted like packet_count

packetizer == <<sending, latched, byte_index, out_valid, out_data>>
trace      == <<trace_valid, trace_msg>>
ghosts     == <<line, pos, emitted, lost>>
vars       == <<fifo, packetizer, trace, packet_count, drop_count, held, ghosts>>

None   == "none"
NoByte == <<None, 0>>

Fifo == INSTANCE FrameQueue WITH queue <- fifo, Entry <- Messages

Init == /\ Fifo!Init
        /\ sending = FALSE /\ latched = None /\ byte_index = 0
        /\ out_valid = FALSE /\ out_data = NoByte
        /\ trace_valid = FALSE /\ trace_msg = None
        /\ packet_count = 0 /\ drop_count = 0
        /\ held = {} /\ line = <<>> /\ pos = 0 /\ emitted = 0 /\ lost = 0

-----------------------------------------------------------------------------
Plus(counter, n) == (counter + n) % COUNT_MOD

First(order, set) == order[CHOOSE i \in DOMAIN order :
                             /\ order[i] \in set
                             /\ \A j \in 1 .. i - 1 : order[j] \notin set]

(* Mutants: no frame is begun while the buffer is full; none is begun      *)
(* while a trace message waits.                                            *)
rd_ready_Yields == /\ Fifo!rd_valid /\ Fifo!used_count < DEPTH
                   /\ ~sending /\ ~out_valid /\ payload_len[Head(fifo)] <= 32
rd_ready_AfterTrace == /\ Fifo!rd_valid /\ ~trace_valid
                       /\ ~sending /\ ~out_valid /\ payload_len[Head(fifo)] <= 32
rd_ready == /\ Fifo!rd_valid
            /\ ~sending /\ ~out_valid /\ payload_len[Head(fifo)] <= 32

fifo_wr_ready == Fifo!wr_ready(rd_ready)

stream_wr_ready == fifo_wr_ready /\ Fifo!used_count < DEPTH - 2

(* The handshakes, for an edge with the pulses legacy.                     *)
(* Mutant: the logic analyzer does not look at trace_msg_valid.            *)
msg_ready_Rival(legacy) ==
    LET free == stream_wr_ready /\ "monitor" \notin held /\ legacy = {}
    IN  [monitor  |-> fifo_wr_ready,
         trace    |-> free,
         la       |-> free,
         profiler |-> free /\ ~trace_valid /\ "la" \notin held]
msg_ready(legacy) ==
    LET free == stream_wr_ready /\ "monitor" \notin held /\ legacy = {}
    IN  [monitor  |-> fifo_wr_ready,
         trace    |-> free,
         la       |-> free /\ ~trace_valid,
         profiler |-> free /\ ~trace_valid /\ "la" \notin held]

(* What is offered to the buffer: at most one message.                     *)
fifo_wr(legacy) ==
    IF "monitor" \in held THEN {"monitor"}
    ELSE IF legacy # {} THEN {First(Legacy, legacy)}
    ELSE IF ~stream_wr_ready THEN {}
    ELSE IF trace_valid THEN {trace_msg}
    ELSE IF "la" \in held THEN {"la"}
    ELSE held

packet_accepted(legacy) == fifo_wr(legacy) # {} /\ fifo_wr_ready

legacy_packet_accepted(legacy) ==
    packet_accepted(legacy) /\ "monitor" \notin held /\ legacy # {}

(* Mutant: the pulses are counted as lost only when none was accepted.     *)
core_drop_increment_Burst(legacy) ==
    IF legacy_packet_accepted(legacy) THEN 0 ELSE Cardinality(legacy)
core_drop_increment(legacy) ==
    Cardinality(legacy) - IF legacy_packet_accepted(legacy) THEN 1 ELSE 0

trace_dropped(legacy, traces) ==
    \/ Cardinality(traces) > 1
    \/ traces # {} /\ trace_valid /\ ~msg_ready(legacy).trace

-----------------------------------------------------------------------------
(* yifpga_debug_packetizer.  out_data is NoByte while out_valid is down:   *)
(* nobody reads it then.                                                   *)
LastByte(m) == OVERHEAD + payload_len[m]

Latch == /\ rd_ready
         /\ sending' = TRUE /\ latched' = Head(fifo) /\ byte_index' = 0

(* Mutant: the checksum byte is left out.                                  *)
frame_done_Short == byte_index = LastByte(latched) - 1
frame_done == byte_index = LastByte(latched)

SendByte == /\ sending /\ out_valid' = TRUE
            /\ out_data' = <<latched, byte_index>>
            /\ sending' = ~frame_done
            /\ byte_index' = IF frame_done THEN 0 ELSE byte_index + 1
            /\ UNCHANGED latched

PacketizerEdge(out_ready) ==
    \/ (~out_valid \/ out_ready) /\ SendByte
    \/ /\ ~(sending /\ (~out_valid \/ out_ready))
       /\ out_valid' = (out_valid /\ ~out_ready)
       /\ out_data' = IF out_valid' THEN out_data ELSE NoByte
       /\ \/ Latch
          \/ ~rd_ready /\ UNCHANGED <<sending, latched, byte_index>>

(* yifpga_trace_adapter.  trace_msg is None while trace_valid is down.     *)
TraceEdge(legacy, traces) ==
    IF ~trace_valid \/ msg_ready(legacy).trace
      THEN /\ trace_valid' = (traces # {})
           /\ trace_msg' = IF traces # {} THEN First(TraceKinds, traces) ELSE None
      ELSE UNCHANGED trace

CounterEdge(legacy, traces) ==
    /\ packet_count' = Plus(packet_count, IF packet_accepted(legacy) THEN 1 ELSE 0)
    /\ drop_count' = Plus(drop_count, core_drop_increment(legacy)
                            + IF trace_dropped(legacy, traces) THEN 1 ELSE 0)

(* A holder keeps its message until the edge on which it is ready.         *)
HolderEdge(legacy) ==
    LET ready == msg_ready(legacy)
        kept  == {m \in held : ~ready[m]}
    IN  \E new \in SUBSET (Holders \ kept) : held' = kept \cup new

-----------------------------------------------------------------------------
(* What the sources believe of this edge: the messages that were taken     *)
(* over by a handshake, and the pulse the counters say was accepted.       *)
Handed(legacy) ==
    LET ready == msg_ready(legacy)
        One(yes, m) == IF yes THEN <<m>> ELSE <<>>
        Held(m) == One(m \in held /\ ready[m], m)
    IN  Held("monitor") \o One(trace_valid /\ ready.trace, trace_msg)
          \o Held("la") \o Held("profiler")
          \o One(legacy # {} /\ "monitor" \notin held /\ fifo_wr_ready,
                 First(Legacy, legacy))

(* The pulses of an edge that nobody took over.                            *)
LegacyLost(legacy) ==
    Cardinality(legacy)
    - IF packet_accepted(legacy) /\ fifo_wr(legacy) \subseteq Kinds(Legacy) THEN 1 ELSE 0
TracesLost(legacy, traces) ==
    Cardinality(traces)
    - IF traces # {} /\ (~trace_valid \/ msg_ready(legacy).trace) THEN 1 ELSE 0

byte_taken(out_ready) == out_valid /\ out_ready
frame_taken(out_ready) ==
    byte_taken(out_ready) /\ line # <<>> /\ pos = LastByte(Head(line))

Observe(legacy, traces, out_ready) ==
    /\ line' = (IF frame_taken(out_ready) THEN Tail(line) ELSE line) \o Handed(legacy)
    /\ pos' = IF frame_taken(out_ready) THEN 0
              ELSE IF byte_taken(out_ready) THEN pos + 1 ELSE pos
    /\ emitted' = Plus(emitted, IF frame_taken(out_ready) THEN 1 ELSE 0)
    /\ lost' = Plus(lost, LegacyLost(legacy)
                            + IF TracesLost(legacy, traces) > 0 THEN 1 ELSE 0)

Edge(legacy, traces, out_ready) ==
    /\ Fifo!Edge(fifo_wr(legacy), rd_ready)
    /\ PacketizerEdge(out_ready)
    /\ TraceEdge(legacy, traces)
    /\ CounterEdge(legacy, traces)
    /\ Observe(legacy, traces, out_ready)
    /\ HolderEdge(legacy)

Clock(out_ready) == \E legacy \in SUBSET Kinds(Legacy), traces \in SUBSET Kinds(TraceKinds) :
                        Edge(legacy, traces, out_ready)

Next == \E out_ready \in BOOLEAN : Clock(out_ready)

Spec == Init /\ [][Next]_vars

(* The clock runs and the transport takes a byte again and again.          *)
FairSpec == Spec /\ WF_vars(Clock(TRUE))

-----------------------------------------------------------------------------
TypeOK == /\ fifo \in Seq(Messages) /\ Len(fifo) <= DEPTH
          /\ {sending, out_valid, trace_valid} \subseteq BOOLEAN
          /\ latched \in Messages \cup {None}
          /\ byte_index \in 0 .. (IF sending THEN LastByte(latched) ELSE 0)
          /\ trace_msg \in Kinds(TraceKinds) \cup {None}
          /\ {packet_count, drop_count, emitted, lost} \subseteq 0 .. COUNT_MOD - 1
          /\ held \subseteq Holders

(* The handshakes and the write multiplexer agree: what the sources were   *)
(* told was taken is, in that order and once, what is in the buffer and in *)
(* the packetizer (debug_core 130-215).                                    *)
LineIsBuffer == line = (IF sending \/ out_valid THEN <<latched>> ELSE <<>>) \o fifo

(* The bytes of the frames go out whole and one frame after the other,     *)
(* whatever the transport's readiness (packetizer 32-95).                  *)
BytesInOrder == out_valid => line # <<>> /\ out_data = <<Head(line), pos>>

(* Every packet that packet_count counts is sent, waits in the buffer or   *)
(* is being sent (debug_core 306-308; Debug Protocol v1, 173).             *)
PacketBooks == packet_count = Plus(emitted, Len(line))

(* Streams leave two entries: with at most one other message in the        *)
(* buffer, a monitor response or a legacy pulse is accepted (debug_core    *)
(* 139-142).                                                               *)
ReserveHolds == Cardinality({i \in DOMAIN fifo : fifo[i] \notin Streams}) <= 1
                  => fifo_wr_ready

(* drop_count is the number of messages lost (Debug Protocol v1, 172), but *)
(* the trace messages that are lost on one edge count as one, here and in  *)
(* lost (trace_adapter 58-59).                                             *)
DropCountExact == drop_count = lost

(* The reserve holds, and the two counters of the protocol account for     *)
(* every message: those taken, and those lost but for a trace message that *)
(* is lost together with another one.                                      *)
Accounts == ReserveHolds /\ PacketBooks /\ DropCountExact

(* Every frame that is taken over is begun, and every frame begun is sent  *)
(* to the end.                                                             *)
EveryFrameLeaves == []<>(line = <<>> \/ pos > 0) /\ []<>(pos = 0)

(* A monitor response does not wait for ever, whatever the other traffic   *)
(* (LogicAnalyzer guide, 60; M25 plan, 81).                                *)
MonitorServed == []<>("monitor" \notin held \/ msg_ready({}).monitor)
=============================================================================
