----------------------------- MODULE LaReadout -----------------------------
(***************************************************************************)
(* yifpga_la_adapter reading a finished capture out as messages, with the  *)
(* read port of yifpga_la_core and the wiring of the board: the adapter is *)
(* started by the host or, with auto_readout, by the core going DONE.  One *)
(* step is one clock edge.  The consumer of the messages keeps the adapter *)
(* waiting for at most MaxStall edges in a row.                            *)
(***************************************************************************)
EXTENDS LaCapture, SequencesExt

CONSTANTS CHUNK,     \* OFD_LA_SAMPLES_PER_CHUNK, 5
          MaxStall,  \* edges in a row the consumer is not ready
          Commands,  \* the pulses one LA_COMMAND write may carry
          Autos      \* the values of LA_CONTROL.auto_readout

ASSUME ReadoutAssumption ==
    /\ DEPTH \in Nat \ {0} /\ ID_MOD \in Nat \ {0} /\ CHUNK \in Nat \ {0}
    /\ MaxStall \in Nat /\ Autos \subseteq BOOLEAN /\ 0 \in Sample
    /\ Commands \subseteq SUBSET {"off", "arm", "start"}

VARIABLES phase,                           \* the adapter's state
          sample_index, samples_in_chunk,
          chunks_sent,                     \* chunk_index is its twin
          chunks_total,
          data_payload, read_req, read_index,
          core_start, core_done,           \* core_start_readout_pulse, ...
          msg_valid, msg,
          read_valid, read_sample,         \* of the core
          la_done_d, auto,
          msg_ready, stall,
          intact,  \* the capture has not been given up since the readout began
          sent     \* the messages the consumer took of an intact readout

port        == <<read_valid, read_sample>>
pulses      == <<core_start, core_done, read_req>>
progress    == <<sample_index, samples_in_chunk, chunks_sent, chunks_total,
                 data_payload, read_index>>
output      == <<msg_valid, msg>>
environment == <<auto, msg_ready, stall>>
vars        == <<captureVars, phase, progress, pulses, output, port, la_done_d,
                 environment, sent, intact>>

NoMessage == [type |-> "none"]
Blank     == [i \in 0 .. CHUNK - 1 |-> 0]

InitReadout ==
    /\ Init
    /\ phase = "IDLE" /\ sample_index = 0 /\ samples_in_chunk = 0
    /\ chunks_sent = 0 /\ chunks_total = 0 /\ read_index = 0
    /\ data_payload = [id |-> 0, chunk |-> 0, first |-> 0, count |-> 0, data |-> Blank]
    /\ core_start = FALSE /\ core_done = FALSE /\ read_req = FALSE
    /\ msg_valid = FALSE /\ msg = NoMessage
    /\ read_valid = FALSE /\ read_sample = 0 /\ la_done_d = FALSE
    /\ auto \in Autos /\ msg_ready = TRUE /\ stall = 0
    /\ sent = <<>> /\ intact = FALSE

-----------------------------------------------------------------------------
(* The core answers a request one edge later, unless it was cleared or has *)
(* nothing to read.                                                        *)
ReadPort(cmd) ==
    LET answers == /\ "off" \notin cmd /\ read_req
                   /\ state \in {"DONE", "READOUT"} /\ read_index < samples_written
    IN  /\ read_valid' = answers
        /\ read_sample' = IF answers THEN window[read_index + 1] ELSE read_sample

can_load_msg == ~msg_valid \/ msg_ready

Load(m) == msg_valid' = TRUE /\ msg' = m

(* No new message; the old one leaves when it is taken.                    *)
NoLoad == msg_valid' = (msg_valid /\ ~msg_ready) /\ UNCHANGED msg

Smaller(a, b) == IF a <= b THEN a ELSE b

remaining_samples == samples_written - sample_index

next_samples_in_chunk == Smaller(remaining_samples, CHUNK)

(* Mutant: the division rounds down.                                       *)
ChunksFor_Down(n) == n \div CHUNK
ChunksFor(n) == (n + CHUNK - 1) \div CHUNK

NoPulse == core_start' = FALSE /\ core_done' = FALSE /\ read_req' = FALSE

IdlePhase(start) ==
    /\ phase = "IDLE"
    /\ NoLoad /\ core_done' = FALSE /\ read_req' = FALSE
    /\ IF start /\ state = "DONE"
         THEN /\ core_start' = TRUE
              /\ chunks_total' = ChunksFor(samples_written)
              /\ chunks_sent' = 0 /\ sample_index' = 0
              /\ phase' = "HEADER"
              /\ UNCHANGED <<samples_in_chunk, data_payload, read_index>>
         ELSE core_start' = FALSE /\ UNCHANGED <<progress, phase>>

(* A phase that loads one message when it can and then goes to next.       *)
SendPhase(at, m, next) ==
    /\ phase = at
    /\ NoPulse /\ UNCHANGED progress
    /\ \/ can_load_msg  /\ Load(m) /\ phase' = next
       \/ ~can_load_msg /\ NoLoad /\ UNCHANGED phase

HeaderPhase  == SendPhase("HEADER",
                          [type |-> "header", id |-> capture_id, count |-> samples_written],
                          IF triggered THEN "TRIGGER" ELSE "READ")
TriggerPhase == SendPhase("TRIGGER", [type |-> "trigger", id |-> capture_id], "READ")
StatusPhase  == SendPhase("STATUS",
                          [type |-> "status", id |-> capture_id, count |-> samples_written,
                           sent |-> chunks_sent, total |-> chunks_total],
                          "DONE")

ReadPhase ==
    /\ phase = "READ"
    /\ NoLoad /\ core_start' = FALSE /\ core_done' = FALSE
    /\ IF sample_index >= samples_written
         THEN phase' = "STATUS" /\ read_req' = FALSE /\ UNCHANGED progress
         ELSE /\ samples_in_chunk' = next_samples_in_chunk
              /\ data_payload' = [id |-> capture_id, chunk |-> chunks_sent,
                                  first |-> sample_index,
                                  count |-> next_samples_in_chunk, data |-> Blank]
              /\ read_index' = sample_index /\ read_req' = TRUE
              /\ phase' = "DATA"
              /\ UNCHANGED <<sample_index, chunks_sent, chunks_total>>

(* The payload with the sample that is on the read port.                   *)
Filled == LET k == read_index - sample_index
          IN  IF k < CHUNK THEN [data_payload EXCEPT !.data[k] = read_sample]
                           ELSE data_payload

chunk_complete == read_index - sample_index + 1 >= samples_in_chunk

(* The data message: the payload cut to the samples it counts.             *)
(* Mutant: the payload is taken before the last sample is put in.          *)
DataMessage_Stale == [type |-> "data", id |-> data_payload.id,
                      chunk |-> data_payload.chunk, first |-> data_payload.first,
                      samples |-> [i \in 1 .. samples_in_chunk |-> data_payload.data[i - 1]]]
DataMessage == [type |-> "data", id |-> data_payload.id,
                chunk |-> data_payload.chunk, first |-> data_payload.first,
                samples |-> [i \in 1 .. samples_in_chunk |-> Filled.data[i - 1]]]

(* read_valid lasts one edge: a last sample that meets a message still     *)
(* waiting is kept in data_payload, and nothing asks for it again.         *)
DataPhase ==
    /\ phase = "DATA"
    /\ core_start' = FALSE /\ core_done' = FALSE
    /\ data_payload' = IF read_valid THEN Filled ELSE data_payload
    /\ UNCHANGED <<samples_in_chunk, chunks_total>>
    /\ \/ /\ ~read_valid \/ (chunk_complete /\ ~can_load_msg)
          /\ NoLoad /\ read_req' = FALSE
          /\ UNCHANGED <<sample_index, chunks_sent, read_index, phase>>
       \/ /\ read_valid /\ ~chunk_complete
          /\ NoLoad /\ read_req' = TRUE /\ read_index' = read_index + 1
          /\ UNCHANGED <<sample_index, chunks_sent, phase>>
       \/ /\ read_valid /\ chunk_complete /\ can_load_msg
          /\ Load(DataMessage) /\ read_req' = FALSE
          /\ sample_index' = sample_index + samples_in_chunk
          /\ chunks_sent' = chunks_sent + 1
          /\ phase' = "READ"
          /\ UNCHANGED read_index

(* Mutant: the core is not told.                                           *)
DonePhase_Silent == /\ phase = "DONE" /\ NoPulse /\ NoLoad
                    /\ phase' = "IDLE" /\ UNCHANGED progress
DonePhase == /\ phase = "DONE"
             /\ core_done' = TRUE /\ core_start' = FALSE /\ read_req' = FALSE /\ NoLoad
             /\ phase' = "IDLE" /\ UNCHANGED progress

Adapter(start) == \/ IdlePhase(start) \/ HeaderPhase \/ TriggerPhase
                  \/ ReadPhase \/ DataPhase \/ StatusPhase \/ DonePhase

Pulse(b, p) == IF b THEN {p} ELSE {}

Started(cmd) == "start" \in cmd \/ (auto /\ state = "DONE" /\ ~la_done_d)

Consumer == /\ auto' \in Autos
            /\ msg_ready' \in BOOLEAN
            /\ stall' = IF msg_ready' THEN 0 ELSE stall + 1
            /\ stall' <= MaxStall

Observe ==
    /\ intact' = /\ state' \in {"DONE", "READOUT"}
                 /\ intact \/ (phase = "IDLE" /\ phase' = "HEADER")
    /\ sent' = IF ~intact' \/ (phase = "HEADER" /\ phase' # "HEADER") THEN <<>>
               ELSE IF msg_valid /\ msg_ready THEN Append(sent, msg) ELSE sent

Clock ==
    \E cmd \in Commands :
        /\ Edge((cmd \ {"start"}) \cup Pulse(core_start, "start")
                                 \cup Pulse(core_done, "done"))
        /\ ReadPort(cmd)
        /\ Adapter(Started(cmd))
        /\ la_done_d' = (state = "DONE")
        /\ Consumer
        /\ Observe

SpecReadout == InitReadout /\ [][Clock]_vars

(* The clock runs, and the consumer stalls for at most MaxStall edges.     *)
FairReadout == SpecReadout /\ WF_vars(Clock)

-----------------------------------------------------------------------------
Phases == {"IDLE", "HEADER", "TRIGGER", "READ", "DATA", "STATUS", "DONE"}

TypeOK == /\ state \in {"IDLE", "ACTIVE", "DONE", "READOUT", "ERROR"}
          /\ {samples_written, sample_index, read_index} \subseteq 0 .. DEPTH
          /\ capture_id \in 0 .. ID_MOD - 1
          /\ window \in Seq(Sample) /\ phase \in Phases
          /\ samples_in_chunk \in 0 .. CHUNK
          /\ chunks_sent \in 0 .. DEPTH /\ chunks_total \in 0 .. DEPTH
          /\ data_payload.data \in [0 .. CHUNK - 1 -> Sample]
          /\ {triggered, core_start, core_done, read_req, msg_valid, read_valid,
              la_done_d, auto, msg_ready, intact} \subseteq BOOLEAN
          /\ stall \in 0 .. MaxStall

DataAt    == {i \in DOMAIN sent : sent[i].type = "data"}
Before(i) == Cardinality({j \in DataAt : j < i})

(* The samples of the chunks that were sent, in the order they were sent.  *)
SentItems ==
    LET items[n \in 0 .. Len(sent)] ==
            IF n = 0 THEN <<>>
            ELSE IF sent[n].type = "data" THEN items[n - 1] \o sent[n].samples
            ELSE items[n - 1]
    IN  items[Len(sent)]

(* The chunks of a readout are the samples of the window from the first    *)
(* on, none left out, repeated or moved, and are numbered so, whatever the *)
(* consumer's stalls, as long as the capture is not cleared or replaced    *)
(* (adapter 129-182; M25 plan, 83).                                        *)
SentIsWindow ==
    intact /\ phase # "HEADER" =>
      /\ IsPrefix(SentItems, window)
      /\ \A i \in DataAt : /\ sent[i].id = capture_id
                           /\ sent[i].chunk = Before(i)
                           /\ sent[i].first = Before(i) * CHUNK

(* A status message closes a readout that is complete: after the header,   *)
(* with as many chunks as it and the header say (94-111, 184-200).         *)
StatusAccounts ==
    \A i \in DOMAIN sent :
        sent[i].type = "status" /\ intact /\ phase # "HEADER" =>
          /\ i = Len(sent) /\ sent[1].type = "header"
          /\ SentItems = window /\ sent[1].count = Len(window)
          /\ sent[i].sent = Cardinality(DataAt) /\ sent[i].total = Cardinality(DataAt)

(* The core does not stay in READOUT, where it refuses to arm, without an  *)
(* adapter that reads (82-92, 202-205).                                    *)
ReadoutOwned == state = "READOUT" => phase # "IDLE" \/ core_done

(* Every readout ends: the last sample of a chunk meets a free output, or  *)
(* a consumer that takes the old message on that very edge.                *)
ReadoutEnds == phase # "IDLE" ~> phase = "IDLE"
=============================================================================
