------------------------------- MODULE LaCore -------------------------------
(***************************************************************************)
(* yifpga_la_core with yifpga_la_trigger: the capture side of the logic    *)
(* analyzer.  One step is one clock edge; the register writes that change  *)
(* the configuration may fall between any two edges.  A sample is the one  *)
(* bit the trigger looks at.  The port the adapter reads the memory by is  *)
(* in LaReadout.                                                           *)
(***************************************************************************)
EXTENDS Integers, Sequences

CONSTANTS SAMPLE_DEPTH,  \* words of the sample memory, 128
          DIV_MAX,       \* largest sample divisor a run writes
          DIV_MOD,       \* 2^16, where div_count wraps
          ID_MOD,        \* 2^32, where capture_id wraps
          Modes,         \* the trigger modes a run writes
          Commands       \* the sets of pulses one edge may carry

ASSUME LaAssumption == /\ SAMPLE_DEPTH \in Nat \ {0}
                       /\ DIV_MAX \in Nat \ {0} /\ DIV_MOD \in Nat
                       /\ DIV_MAX <= DIV_MOD
                       /\ ID_MOD \in Nat \ {0}
                       /\ Modes \subseteq {"disabled", "level", "rising", "falling"}
                       /\ Commands \subseteq SUBSET {"arm", "stop", "off", "force",
                                                     "start", "done"}

VARIABLES state, samples_written, trigger_index, capture_id, overflow,
          config_error, capture_flags,
          trigger_value,     \* trigger_sample_value
          buffer, write_ptr, div_count, post_remaining, read_start_ptr,
          last_sample,       \* last_sample_value
          prev_sample,       \* of the trigger
          divisor, capture_depth, pretrigger_depth, mode,  \* registers
          taken,   \* the samples taken since arming, the last SAMPLE_DEPTH
          fired,   \* what triggered this capture: "none", a mode or "force"
          steady   \* no register was written since arming

config   == <<divisor, capture_depth, pretrigger_depth, mode>>
history  == <<taken, fired, steady>>
control  == <<state, samples_written, trigger_index, capture_id, overflow,
              config_error, capture_flags, trigger_value, post_remaining,
              read_start_ptr>>
memory   == <<buffer, write_ptr, last_sample>>
coreVars == <<control, memory, div_count, prev_sample, history>>
vars     == <<coreVars, config>>

Init == /\ state = "IDLE" /\ samples_written = 0 /\ trigger_index = 0
        /\ capture_id = 0 /\ overflow = FALSE /\ config_error = FALSE
        /\ capture_flags = {} /\ trigger_value = 0
        /\ buffer = [p \in 0 .. SAMPLE_DEPTH - 1 |-> 0]
        /\ write_ptr = 0 /\ div_count = 0 /\ post_remaining = 0
        /\ read_start_ptr = 0 /\ last_sample = 0 /\ prev_sample = 0
        /\ divisor = 1 /\ mode \in Modes
        /\ capture_depth = SAMPLE_DEPTH /\ pretrigger_depth = 0
        /\ taken = <<>> /\ fired = "none" /\ steady = TRUE

-----------------------------------------------------------------------------
config_bad == \/ capture_depth = 0 \/ capture_depth > SAMPLE_DEPTH
              \/ pretrigger_depth >= capture_depth

sample_due == div_count = 0

active_capture == state \in {"ARMED", "CAPTURING"}

inc_ptr(p) == IF p = SAMPLE_DEPTH - 1 THEN 0 ELSE p + 1

add_ptr(base, offset) == IF base + offset >= SAMPLE_DEPTH
                         THEN base + offset - SAMPLE_DEPTH ELSE base + offset

(* Mutant: no wrap of the start pointer.                                   *)
calc_start_ptr_NoWrap(p, count) == IF p >= count THEN p - count ELSE 0
calc_start_ptr(p, count) == IF p >= count THEN p - count
                                          ELSE p + SAMPLE_DEPTH - count

(* yifpga_la_trigger, for the channel the trigger watches.                 *)
trigger_hit(bus) == \/ mode = "level"   /\ bus = 1
                    \/ mode = "rising"  /\ prev_sample = 0 /\ bus = 1
                    \/ mode = "falling" /\ prev_sample = 1 /\ bus = 0

(* The trigger compares with the last sample while armed and with the last *)
(* clock's bus otherwise.  Mutant: with the last clock's bus always.       *)
TrackPrevious_EveryClock(bus) == prev_sample' = bus
TrackPrevious(bus) ==
    prev_sample' = IF state # "ARMED" \/ sample_due THEN bus ELSE prev_sample

(* Mutant: the divider saturates instead of wrapping.                      *)
Divide_Saturates ==
    div_count' = IF ~active_capture \/ div_count = divisor - 1 THEN 0
                 ELSE IF div_count = DIV_MOD - 1 THEN div_count ELSE div_count + 1
Divide == div_count' = IF ~active_capture \/ div_count = divisor - 1 THEN 0
                       ELSE (div_count + 1) % DIV_MOD

LastOf(s) == IF Len(s) > SAMPLE_DEPTH THEN Tail(s) ELSE s

Store(bus) == /\ buffer' = [buffer EXCEPT ![write_ptr] = bus]
              /\ last_sample' = bus
              /\ write_ptr' = inc_ptr(write_ptr)
              /\ taken' = LastOf(Append(taken, bus))

NoStore == UNCHANGED <<buffer, last_sample, write_ptr, taken>>

Flag(condition, flag) == IF condition THEN {flag} ELSE {}

(* The task finish_capture.                                                *)
finish_capture(forced) ==
    /\ state' = "DONE"
    /\ read_start_ptr' = calc_start_ptr(write_ptr, samples_written)
    /\ capture_flags' = {"VALID", "TRIGGERED"} \cup Flag(forced, "FORCED")
                          \cup Flag(overflow, "OVERFLOW")
                          \cup Flag(samples_written < capture_depth, "PARTIAL")

(* The end of a capture by the sample that fills the window.               *)
FillWindow(forced) ==
    /\ state' = "DONE"
    /\ read_start_ptr' = calc_start_ptr(inc_ptr(write_ptr), samples_written + 1)
    /\ capture_flags' = {"VALID", "TRIGGERED"} \cup Flag(forced, "FORCED")
                          \cup Flag(overflow, "OVERFLOW")

-----------------------------------------------------------------------------
(* clear_pulse, or enable low.                                             *)
Clear == /\ state' = "IDLE" /\ samples_written' = 0 /\ trigger_index' = 0
         /\ overflow' = FALSE /\ config_error' = FALSE /\ capture_flags' = {}
         /\ trigger_value' = 0 /\ write_ptr' = 0 /\ div_count' = 0
         /\ post_remaining' = 0 /\ read_start_ptr' = 0 /\ last_sample' = 0
         /\ taken' = <<>> /\ fired' = "none" /\ steady' = TRUE
         /\ UNCHANGED <<capture_id, buffer>>

(* A good arm_pulse, the same in IDLE, DONE and ERROR.                     *)
BeginCapture ==
    /\ ~config_bad
    /\ state' = "ARMED" /\ capture_id' = (capture_id + 1) % ID_MOD
    /\ samples_written' = 0 /\ trigger_index' = 0 /\ overflow' = FALSE
    /\ config_error' = FALSE /\ capture_flags' = {}
    /\ write_ptr' = 0 /\ post_remaining' = 0
    /\ taken' = <<>> /\ fired' = "none" /\ steady' = TRUE
    /\ UNCHANGED <<buffer, last_sample, trigger_value, read_start_ptr>>

RefuseCapture ==
    /\ config_bad
    /\ state' = "ERROR" /\ config_error' = TRUE
    /\ UNCHANGED <<samples_written, trigger_index, capture_id, overflow,
                   capture_flags, trigger_value, post_remaining,
                   read_start_ptr, memory, history>>

Stay == UNCHANGED <<control, memory, history>>

IdleEdge(cmd) ==
    /\ state = "IDLE"
    /\ IF "arm" \in cmd THEN BeginCapture \/ RefuseCapture ELSE Stay

DoneEdge(cmd) ==
    /\ state = "DONE"
    /\ \/ /\ "start" \in cmd
          /\ state' = "READOUT"
          /\ UNCHANGED <<samples_written, trigger_index, capture_id, overflow,
                         config_error, capture_flags, trigger_value,
                         post_remaining, read_start_ptr, memory, history>>
       \/ "start" \notin cmd /\ "arm" \in cmd /\ (BeginCapture \/ RefuseCapture)
       \/ "start" \notin cmd /\ "arm" \notin cmd /\ Stay

(* Mutant: the readout empties the window.                                 *)
ReadoutEdge_Consumes(cmd) ==
    /\ state = "READOUT"
    /\ IF "done" \in cmd
         THEN /\ state' = "DONE" /\ samples_written' = 0
              /\ UNCHANGED <<trigger_index, capture_id, overflow, config_error,
                             capture_flags, trigger_value, post_remaining,
                             read_start_ptr, memory, history>>
         ELSE Stay
ReadoutEdge(cmd) ==
    /\ state = "READOUT"
    /\ state' = IF "done" \in cmd THEN "DONE" ELSE "READOUT"
    /\ UNCHANGED <<samples_written, trigger_index, capture_id, overflow,
                   config_error, capture_flags, trigger_value,
                   post_remaining, read_start_ptr, memory, history>>

ErrorEdge(cmd) == /\ state = "ERROR"
                  /\ IF "arm" \in cmd /\ ~config_bad THEN BeginCapture ELSE Stay

Stop(forced) ==
    /\ finish_capture(forced)
    /\ NoStore
    /\ UNCHANGED <<samples_written, trigger_index, capture_id, overflow,
                   config_error, trigger_value, post_remaining, fired, steady>>

(* Mutant: the count starts after the sample that counts.                  *)
PostCount_Late(n) == capture_depth - n + 1
PostCount(n) == capture_depth - n

ForceIndex == IF samples_written = 0 THEN 0 ELSE samples_written - 1

(* force_trigger_pulse while armed: the trigger is put on the last sample. *)
ForceTrigger(bus) ==
    /\ trigger_index' = ForceIndex
    /\ trigger_value' = IF samples_written = 0 THEN bus ELSE last_sample
    /\ \/ /\ samples_written >= capture_depth
          /\ finish_capture(TRUE)
          /\ UNCHANGED post_remaining
       \/ /\ samples_written < capture_depth
          /\ state' = "CAPTURING"
          /\ post_remaining' = PostCount(samples_written)
          /\ capture_flags' = {"FORCED"}
          /\ UNCHANGED read_start_ptr
    /\ fired' = "force"
    /\ NoStore
    /\ UNCHANGED <<samples_written, capture_id, overflow, config_error, steady>>

(* The sample the trigger fires on.                                        *)
Hit(bus) ==
    /\ trigger_hit(bus)
    /\ Store(bus)
    /\ trigger_index' = samples_written
    /\ trigger_value' = bus
    /\ samples_written' = samples_written + 1
    /\ \/ /\ samples_written + 1 >= capture_depth
          /\ FillWindow(FALSE)
          /\ UNCHANGED post_remaining
       \/ /\ samples_written + 1 < capture_depth
          /\ state' = "CAPTURING"
          /\ post_remaining' = PostCount(samples_written + 1)
          /\ UNCHANGED <<capture_flags, read_start_ptr>>
    /\ fired' = mode
    /\ UNCHANGED <<capture_id, overflow, config_error, steady>>

(* Pre-trigger samples are counted up to the configured depth.             *)
PreCount == IF samples_written < pretrigger_depth THEN samples_written + 1
                                                  ELSE samples_written

(* A sample before the trigger.                                            *)
PreSample(bus) ==
    /\ ~trigger_hit(bus)
    /\ Store(bus)
    /\ samples_written' = PreCount
    /\ overflow' = (overflow \/ (samples_written >= pretrigger_depth
                                   /\ pretrigger_depth # 0))
    /\ UNCHANGED <<state, trigger_index, capture_id, config_error, capture_flags,
                   trigger_value, post_remaining, read_start_ptr, fired, steady>>

ArmedEdge(cmd, bus) ==
    /\ state = "ARMED"
    /\ \/ "stop" \in cmd /\ Stop(FALSE)
       \/ "stop" \notin cmd /\ "force" \in cmd /\ ForceTrigger(bus)
       \/ /\ "stop" \notin cmd /\ "force" \notin cmd
          /\ \/ sample_due /\ (Hit(bus) \/ PreSample(bus))
             \/ ~sample_due /\ Stay

(* A sample after the trigger.                                             *)
PostSample(bus) ==
    /\ Store(bus)
    /\ samples_written' = samples_written + 1
    /\ post_remaining' = post_remaining - 1
    /\ \/ post_remaining = 1 /\ FillWindow("FORCED" \in capture_flags)
       \/ post_remaining # 1 /\ UNCHANGED <<state, read_start_ptr, capture_flags>>
    /\ UNCHANGED <<trigger_index, capture_id, overflow, config_error,
                   trigger_value, fired, steady>>

CapturingEdge(cmd, bus) ==
    /\ state = "CAPTURING"
    /\ \/ "stop" \in cmd /\ Stop("FORCED" \in capture_flags)
       \/ "stop" \notin cmd /\ sample_due /\ post_remaining # 0 /\ PostSample(bus)
       \/ "stop" \notin cmd /\ ~(sample_due /\ post_remaining # 0) /\ Stay

(* One clock edge with the pulses cmd and the sample bus.                  *)
Edge(cmd, bus) ==
    /\ TrackPrevious(bus)
    /\ \/ "off" \in cmd /\ Clear
       \/ /\ "off" \notin cmd
          /\ Divide
          /\ \/ IdleEdge(cmd) \/ ArmedEdge(cmd, bus) \/ CapturingEdge(cmd, bus)
             \/ DoneEdge(cmd) \/ ReadoutEdge(cmd) \/ ErrorEdge(cmd)
    /\ UNCHANGED config

(* A write of one of the LA registers.  The monitor refuses a divisor of   *)
(* 0, a depth outside 1 .. SAMPLE_DEPTH and a pre-trigger depth that does  *)
(* not fit the depth of the moment; nothing is latched by a capture, and a *)
(* smaller depth does not move the pre-trigger depth.                      *)
ConfigWrite ==
    /\ \/ divisor' \in 1 .. DIV_MAX
          /\ UNCHANGED <<capture_depth, pretrigger_depth, mode>>
       \/ capture_depth' \in 1 .. SAMPLE_DEPTH
          /\ UNCHANGED <<divisor, pretrigger_depth, mode>>
       \/ pretrigger_depth' \in 0 .. capture_depth - 1
          /\ UNCHANGED <<divisor, capture_depth, mode>>
       \/ mode' \in Modes
          /\ UNCHANGED <<divisor, capture_depth, pretrigger_depth>>
    /\ steady' = FALSE
    /\ UNCHANGED <<control, memory, div_count, prev_sample, taken, fired>>

Clock == \E cmd \in Commands, bus \in 0 .. 1 : Edge(cmd, bus)

Next == Clock \/ ConfigWrite

Spec == Init /\ [][Next]_vars

(* The clock runs; nothing is assumed of the host or the sampled signals.  *)
FairSpec == Spec /\ WF_vars(Clock)

-----------------------------------------------------------------------------
States == {"IDLE", "ARMED", "CAPTURING", "DONE", "READOUT", "ERROR"}
Flags  == {"VALID", "TRIGGERED", "FORCED", "OVERFLOW", "PARTIAL"}

TypeOK == /\ state \in States /\ capture_flags \in SUBSET Flags
          /\ samples_written \in 0 .. SAMPLE_DEPTH
          /\ trigger_index \in 0 .. SAMPLE_DEPTH - 1
          /\ capture_id \in 0 .. ID_MOD - 1
          /\ overflow \in BOOLEAN /\ config_error \in BOOLEAN
          /\ buffer \in [0 .. SAMPLE_DEPTH - 1 -> {0, 1}]
          /\ {write_ptr, read_start_ptr} \subseteq 0 .. SAMPLE_DEPTH - 1
          /\ div_count \in 0 .. DIV_MOD - 1
          /\ post_remaining \in 0 .. SAMPLE_DEPTH
          /\ {trigger_value, last_sample, prev_sample} \subseteq 0 .. 1
          /\ divisor \in 1 .. DIV_MAX /\ mode \in Modes
          /\ capture_depth \in 1 .. SAMPLE_DEPTH
          /\ pretrigger_depth \in 0 .. SAMPLE_DEPTH - 1
          /\ taken \in Seq({0, 1}) /\ Len(taken) <= SAMPLE_DEPTH
          /\ fired \in {"none", "force"} \cup Modes
          /\ steady \in BOOLEAN

captured == state \in {"DONE", "READOUT"}

(* What the reader gets for index i of the window.                         *)
Word(i) == buffer[add_ptr(read_start_ptr, i)]

(* A finished window is the last samples_written samples that were taken,  *)
(* in the order they were taken, wherever the memory wrapped and whatever  *)
(* was reconfigured meanwhile (la_core 82-118, 211-258).                   *)
WindowIsLast ==
    captured => /\ samples_written <= Len(taken)
                /\ \A i \in 0 .. samples_written - 1 :
                       Word(i) = taken[Len(taken) - samples_written + 1 + i]

(* trigger_index marks the sample the trigger fired on: it holds the       *)
(* reported value, and for an edge trigger the sample before it in the     *)
(* window is on the other level.  A forced trigger marks the last sample   *)
(* before the command, when one was kept (la_core 197-237, la_trigger      *)
(* 20-64).                                                                 *)
TriggerMarksSample ==
    captured =>
      /\ fired \in {"level", "rising", "falling"} =>
           /\ trigger_index < samples_written
           /\ Word(trigger_index) = trigger_value
           /\ trigger_value = (IF fired = "falling" THEN 0 ELSE 1)
           /\ fired # "level" /\ trigger_index > 0
                => Word(trigger_index - 1) = 1 - trigger_value
      /\ fired = "force" /\ trigger_index > 0 => Word(trigger_index) = trigger_value

(* A capture that a trigger ended without a stop has the configured number *)
(* of samples, no matter when the trigger came (204-209, 224-233, 249).    *)
WindowIsFull ==
    captured /\ steady /\ "PARTIAL" \notin capture_flags
      => samples_written = capture_depth

(* What the reader relies on.                                              *)
Capture == INSTANCE LaCapture
             WITH DEPTH <- SAMPLE_DEPTH, Sample <- {0, 1},
                  state <- IF active_capture THEN "ACTIVE" ELSE state,
                  triggered <- "TRIGGERED" \in capture_flags,
                  window <- IF captured
                            THEN [i \in 1 .. samples_written |-> Word(i - 1)]
                            ELSE <<>>

(* Every step of the core is a step of the capture the reader sees.        *)
CoreIsCapture == Capture!Spec

(* Once triggered, a capture ends, whatever registers are written.         *)
CaptureEnds == state = "CAPTURING" ~> state # "CAPTURING"
=============================================================================
