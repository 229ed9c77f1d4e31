----------------------------- MODULE LaCapture -----------------------------
(***************************************************************************)
(* What the logic-analyzer core promises its reader: a window of samples   *)
(* is handed over at the end of a capture and stands still until it is     *)
(* cleared or armed over.  LaCore implements it; LaReadout reads it.       *)
(***************************************************************************)
EXTENDS Integers, Sequences

CONSTANTS DEPTH,   \* words of the sample memory
          ID_MOD,  \* where capture_id wraps
          Sample   \* the values a sample can have

VARIABLES state,            \* "ACTIVE" is ARMED or CAPTURING
          samples_written, capture_id,
          triggered,        \* the flag TRIGGERED
          window            \* what the read port answers with

captureVars == <<state, samples_written, capture_id, triggered, window>>

Init == /\ state = "IDLE" /\ samples_written = 0 /\ capture_id = 0
        /\ triggered = FALSE /\ window = <<>>

Clear == /\ state' = "IDLE" /\ samples_written' = 0 /\ triggered' = FALSE
         /\ window' = <<>>
         /\ UNCHANGED capture_id

Arm == /\ state' = "ACTIVE" /\ samples_written' = 0 /\ triggered' = FALSE
       /\ window' = <<>>
       /\ capture_id' = (capture_id + 1) % ID_MOD

(* An arm with registers the core cannot capture with.                     *)
Refuse == /\ state' = "ERROR" /\ window' = <<>>
          /\ UNCHANGED <<samples_written, capture_id, triggered>>

Counted == {samples_written, samples_written + 1} \cap 0 .. DEPTH

Take == /\ samples_written' \in Counted
        /\ UNCHANGED <<state, capture_id, triggered, window>>

Finish == /\ state' = "DONE" /\ triggered' = TRUE
          /\ samples_written' \in Counted
          /\ window' \in [1 .. samples_written' -> Sample]
          /\ UNCHANGED capture_id

Move(to) == /\ state' = to
            /\ UNCHANGED <<samples_written, capture_id, triggered, window>>

(* One clock edge with the pulses cmd.                                     *)
Edge(cmd) ==
    \/ "off" \in cmd /\ Clear
    \/ /\ "off" \notin cmd
       /\ \/ state \in {"IDLE", "ERROR"} /\ "arm" \in cmd /\ (Arm \/ Refuse)
          \/ state \in {"IDLE", "ERROR"} /\ "arm" \notin cmd /\ Move(state)
          \/ state = "ACTIVE" /\ (Take \/ Finish)
          \/ state = "DONE" /\ "start" \in cmd /\ Move("READOUT")
          \/ /\ state = "DONE" /\ "start" \notin cmd /\ "arm" \in cmd
             /\ Arm \/ Refuse
          \/ state = "DONE" /\ "start" \notin cmd /\ "arm" \notin cmd /\ Move("DONE")
          \/ state = "READOUT" /\ "done" \in cmd /\ Move("DONE")
          \/ state = "READOUT" /\ "done" \notin cmd /\ Move("READOUT")

Next == \E cmd \in SUBSET {"off", "arm", "start", "done"} : Edge(cmd)

Spec == Init /\ [][Next]_captureVars
=============================================================================
