---------------------------- MODULE LaCoreProofs ----------------------------
(***************************************************************************)
(* The capture core for every memory depth, every divisor and every order  *)
(* of pulses, samples and register writes.  A window is read from its      *)
(* start, but a capture knows its samples from the last one back: every    *)
(* part of the invariant counts places from the end of what was taken,     *)
(* because a sample moves those places by one and nothing else.            *)
(***************************************************************************)
EXTENDS LaCore, SequenceTheorems, BasicFacts

(* The k-th sample from the last.                                          *)
FromEnd(s, k) == s[Len(s) + 1 - k]

(* The memory behind the write pointer holds what was taken.               *)
MemoryHolds == \A k \in 1 .. Len(taken) :
                   buffer[calc_start_ptr(write_ptr, k)] = FromEnd(taken, k)

LastIsLast == Len(taken) > 0 => last_sample = FromEnd(taken, 1)

(* Samples are counted only if they were taken; a finished window starts   *)
(* that many words behind the write pointer.                               *)
WindowPlaced ==
    /\ active_capture \/ captured => samples_written <= Len(taken)
    /\ captured => read_start_ptr = calc_start_ptr(write_ptr, samples_written)

(* Before the trigger: there is room for the sample that fires it, and the *)
(* trigger compares with the last sample taken.                            *)
BeforeTrigger ==
    state = "ARMED" =>
      /\ capture_flags = {} /\ fired = "none"
      /\ samples_written < SAMPLE_DEPTH
      /\ Len(taken) > 0 => prev_sample = FromEnd(taken, 1)
      /\ steady => /\ pretrigger_depth < capture_depth
                   /\ samples_written <= pretrigger_depth

(* After the trigger: what is still to come fits, and completes the window *)
(* if the registers are those the capture began with.                      *)
AfterTrigger ==
    state = "CAPTURING" =>
      /\ capture_flags \in {{}, {"FORCED"}}
      /\ post_remaining # 0
      /\ samples_written + post_remaining <= SAMPLE_DEPTH
      /\ steady => samples_written + post_remaining = capture_depth

(* Index i of the window, counted from the end.                            *)
Place(i) == samples_written - i

(* The trigger mark, of the window so far.                                 *)
TriggerMarked ==
    state = "CAPTURING" \/ captured =>
      /\ fired \in {"level", "rising", "falling"} =>
           /\ trigger_index < samples_written
           /\ FromEnd(taken, Place(trigger_index)) = trigger_value
           /\ trigger_value = (IF fired = "falling" THEN 0 ELSE 1)
           /\ fired # "level" /\ trigger_index > 0
                => FromEnd(taken, Place(trigger_index) + 1) = 1 - trigger_value
      /\ fired = "force" /\ trigger_index > 0 =>
           /\ trigger_index < samples_written
           /\ FromEnd(taken, Place(trigger_index)) = trigger_value

(* Only a finished window is flagged as one.                               *)
FlagsFollow == /\ captured => "TRIGGERED" \in capture_flags
               /\ active_capture => "TRIGGERED" \notin capture_flags

CoreInv == /\ TypeOK /\ MemoryHolds /\ LastIsLast /\ WindowPlaced
           /\ BeforeTrigger /\ AfterTrigger /\ TriggerMarked
           /\ WindowIsFull /\ FlagsFollow

-----------------------------------------------------------------------------
(* Pointers of the circular memory.                                        *)
LEMMA PointerInMemory ==
    ASSUME NEW p \in 0 .. SAMPLE_DEPTH - 1, NEW n \in 0 .. SAMPLE_DEPTH
    PROVE  calc_start_ptr(p, n) \in 0 .. SAMPLE_DEPTH - 1
BY LaAssumption DEF calc_start_ptr

(* Going on by one and back by one more ends on the same word.             *)
LEMMA PlacesMove ==
    ASSUME NEW p \in 0 .. SAMPLE_DEPTH - 1, NEW n \in 0 .. SAMPLE_DEPTH - 1
    PROVE  /\ inc_ptr(p) \in 0 .. SAMPLE_DEPTH - 1
           /\ calc_start_ptr(inc_ptr(p), n + 1) = calc_start_ptr(p, n)
BY LaAssumption DEF calc_start_ptr, inc_ptr

(* Back by less than a whole turn is another word.                         *)
LEMMA BackIsElsewhere ==
    ASSUME NEW p \in 0 .. SAMPLE_DEPTH - 1, NEW n \in 1 .. SAMPLE_DEPTH - 1
    PROVE  calc_start_ptr(p, n) # p
BY LaAssumption DEF calc_start_ptr

(* Index i of n words that end before p is the (n - i)-th before p.        *)
LEMMA IndexFromEnd ==
    ASSUME NEW p \in 0 .. SAMPLE_DEPTH - 1, NEW n \in 0 .. SAMPLE_DEPTH,
           NEW i \in 0 .. n - 1
    PROVE  add_ptr(calc_start_ptr(p, n), i) = calc_start_ptr(p, n - i)
BY LaAssumption DEF calc_start_ptr, add_ptr

-----------------------------------------------------------------------------
(* A stored sample becomes the last, and the others move by one.           *)
LEMMA TakenMoves ==
    ASSUME NEW bus \in 0 .. 1, NEW s \in Seq({0, 1}), Len(s) <= SAMPLE_DEPTH,
           NEW t, t = LastOf(Append(s, bus))
    PROVE  /\ t \in Seq({0, 1})
           /\ Len(t) = IF Len(s) < SAMPLE_DEPTH THEN Len(s) + 1 ELSE SAMPLE_DEPTH
           /\ FromEnd(t, 1) = bus
           /\ \A k \in 1 .. Len(t) - 1 : FromEnd(t, k + 1) = FromEnd(s, k)
<1> USE LaAssumption
<1> DEFINE a == Append(s, bus)
<1>1. /\ Len(s) \in Nat /\ a \in Seq({0, 1}) /\ Len(a) = Len(s) + 1
      /\ \A i \in 1 .. Len(s) : a[i] = s[i]
      /\ a[Len(s) + 1] = bus
  <2>1. bus \in {0, 1}
    OBVIOUS
  <2> QED BY <2>1, AppendProperties, LenProperties
<1> HIDE DEF a
<1>2. t = IF Len(a) > SAMPLE_DEPTH THEN Tail(a) ELSE a
  BY DEF LastOf, a
<1>3. CASE Len(s) < SAMPLE_DEPTH
  <2>1. t = a
    BY <1>1, <1>2, <1>3
  <2>2. ASSUME NEW k \in 1 .. Len(s) PROVE FromEnd(t, k + 1) = FromEnd(s, k)
    <3>1. Len(s) + 1 + 1 - (k + 1) = Len(s) + 1 - k /\ Len(s) + 1 - k \in 1 .. Len(s)
      BY <1>1
    <3> QED BY <3>1, <2>1, <1>1 DEF FromEnd
  <2>3. FromEnd(t, 1) = bus
    BY <2>1, <1>1 DEF FromEnd
  <2> QED BY <2>1, <2>2, <2>3, <1>1, <1>3
<1>4. CASE Len(s) = SAMPLE_DEPTH
  <2>1. t = Tail(a) /\ a # <<>>
    BY <1>1, <1>2, <1>4
  <2>2. /\ t \in Seq({0, 1}) /\ Len(t) = Len(s)
        /\ \A i \in 1 .. Len(t) : t[i] = a[i + 1]
    BY <2>1, <1>1, HeadTailProperties
  <2> QED BY <2>2, <1>1, <1>4 DEF FromEnd
<1> QED BY <1>1, <1>3, <1>4

(* What a stored sample does to the memory.                                *)
LEMMA StoreStep ==
    ASSUME TypeOK, MemoryHolds, NEW bus \in 0 .. 1, Store(bus)
    PROVE  /\ buffer' \in [0 .. SAMPLE_DEPTH - 1 -> {0, 1}]
           /\ write_ptr' = inc_ptr(write_ptr) /\ write_ptr' \in 0 .. SAMPLE_DEPTH - 1
           /\ last_sample' = bus
           /\ taken' \in Seq({0, 1})
           /\ Len(taken') = IF Len(taken) < SAMPLE_DEPTH THEN Len(taken) + 1
                                                         ELSE SAMPLE_DEPTH
           /\ FromEnd(taken', 1) = bus
           /\ \A k \in 1 .. Len(taken') - 1 : FromEnd(taken', k + 1) = FromEnd(taken, k)
           /\ MemoryHolds'
<1> USE LaAssumption
<1>1. /\ buffer \in [0 .. SAMPLE_DEPTH - 1 -> {0, 1}]
      /\ write_ptr \in 0 .. SAMPLE_DEPTH - 1
      /\ taken \in Seq({0, 1}) /\ Len(taken) <= SAMPLE_DEPTH /\ Len(taken) \in Nat
  BY LenProperties DEF TypeOK
<1>2. /\ buffer' = [buffer EXCEPT ![write_ptr] = bus] /\ last_sample' = bus
      /\ write_ptr' = inc_ptr(write_ptr)
      /\ taken' = LastOf(Append(taken, bus))
  BY DEF Store
<1>3. /\ taken' \in Seq({0, 1})
      /\ Len(taken') = IF Len(taken) < SAMPLE_DEPTH THEN Len(taken) + 1 ELSE SAMPLE_DEPTH
      /\ FromEnd(taken', 1) = bus
      /\ \A k \in 1 .. Len(taken') - 1 : FromEnd(taken', k + 1) = FromEnd(taken, k)
  BY <1>1, <1>2, TakenMoves
<1>4. write_ptr' \in 0 .. SAMPLE_DEPTH - 1
  BY <1>1, <1>2, PlacesMove
<1>5. ASSUME NEW k \in 1 .. Len(taken')
      PROVE  buffer'[calc_start_ptr(write_ptr', k)] = FromEnd(taken', k)
  <2>1. k \in 1 .. SAMPLE_DEPTH /\ k - 1 \in 0 .. SAMPLE_DEPTH - 1 /\ (k - 1) + 1 = k
    BY <1>1, <1>3
  <2>2. calc_start_ptr(write_ptr', k) = calc_start_ptr(write_ptr, k - 1)
    BY <1>1, <1>2, <2>1, PlacesMove
  <2>3. CASE k = 1
    <3>1. calc_start_ptr(write_ptr, 0) = write_ptr
      BY <1>1 DEF calc_start_ptr
    <3>2. buffer'[write_ptr] = bus
      BY <1>1, <1>2
    <3> QED BY <2>2, <2>3, <3>1, <3>2, <1>3
  <2>4. CASE k # 1
    <3>1. k - 1 \in 1 .. SAMPLE_DEPTH - 1 /\ k - 1 \in 1 .. Len(taken)
          /\ k - 1 \in 1 .. Len(taken') - 1 /\ k - 1 \in 0 .. SAMPLE_DEPTH
      BY <1>1, <1>3, <2>1, <2>4
    <3>2. calc_start_ptr(write_ptr, k - 1) # write_ptr
      BY <1>1, <3>1, BackIsElsewhere
    <3>3. calc_start_ptr(write_ptr, k - 1) \in 0 .. SAMPLE_DEPTH - 1
      BY <1>1, <3>1, PointerInMemory
    <3>4. buffer'[calc_start_ptr(write_ptr, k - 1)] = FromEnd(taken, k - 1)
      BY <1>1, <1>2, <3>1, <3>2, <3>3 DEF MemoryHolds
    <3>5. FromEnd(taken', k) = FromEnd(taken, k - 1)
      BY <1>3, <2>1, <3>1
    <3> QED BY <2>2, <3>4, <3>5
  <2> QED BY <2>3, <2>4
<1>6. MemoryHolds'
  BY <1>5 DEF MemoryHolds, FromEnd, calc_start_ptr
<1>7. buffer' \in [0 .. SAMPLE_DEPTH - 1 -> {0, 1}]
  BY <1>1, <1>2
<1> QED BY <1>2, <1>3, <1>4, <1>6, <1>7

-----------------------------------------------------------------------------
(* What every edge that is not a clear does beside the capture.            *)
Beside(bus) == TrackPrevious(bus) /\ Divide /\ UNCHANGED config

LEMMA BesideTypes ==
    ASSUME TypeOK, NEW bus \in 0 .. 1, Beside(bus)
    PROVE  /\ prev_sample' \in 0 .. 1 /\ div_count' \in 0 .. DIV_MOD - 1
           /\ divisor' \in 1 .. DIV_MAX /\ mode' \in Modes
           /\ capture_depth' \in 1 .. SAMPLE_DEPTH
           /\ pretrigger_depth' \in 0 .. SAMPLE_DEPTH - 1
<1> USE LaAssumption DEF Beside
<1>1. prev_sample' \in 0 .. 1
  BY DEF TypeOK, TrackPrevious
<1>2. div_count' \in 0 .. DIV_MOD - 1
  <2>1. DIV_MOD \in Nat \ {0} /\ div_count + 1 \in Int
    BY DEF TypeOK
  <2>2. (div_count + 1) % DIV_MOD \in 0 .. DIV_MOD - 1
    BY <2>1, ModDef
  <2> QED BY <2>1, <2>2 DEF Divide
<1> QED BY <1>1, <1>2 DEF config, TypeOK

(* Nothing of the capture changes, or only its state within a finished one.*)
LEMMA QuietKeeps ==
    ASSUME CoreInv, NEW bus \in 0 .. 1, Beside(bus),
           state' = state \/ (captured /\ state' \in {"DONE", "READOUT"}),
           state = "ARMED" => ~sample_due,
           UNCHANGED <<samples_written, trigger_index, capture_id, overflow,
                       config_error, capture_flags, trigger_value,
                       post_remaining, read_start_ptr, memory, history>>
    PROVE  CoreInv'
<1>1. TypeOK'
  BY BesideTypes DEF CoreInv, TypeOK, memory, history, captured, States
<1>2. MemoryHolds' /\ LastIsLast'
  BY DEF CoreInv, MemoryHolds, LastIsLast, FromEnd, calc_start_ptr, memory, history
<1>3. WindowPlaced'
  BY DEF CoreInv, WindowPlaced, calc_start_ptr, memory, history, captured, active_capture
<1>4. BeforeTrigger'
  BY DEF CoreInv, BeforeTrigger, FromEnd, Beside, TrackPrevious, config, memory, history, captured
<1>5. AfterTrigger'
  BY DEF CoreInv, AfterTrigger, Beside, config, memory, history, captured
<1>6. TriggerMarked'
  BY DEF CoreInv, TriggerMarked, FromEnd, Place, memory, history, captured
<1>7. WindowIsFull' /\ FlagsFollow'
  BY DEF CoreInv, WindowIsFull, FlagsFollow, Beside, config, memory, history, captured, active_capture
<1> QED BY <1>1, <1>2, <1>3, <1>4, <1>5, <1>6, <1>7 DEF CoreInv

LEMMA ClearKeeps ==
    ASSUME CoreInv, NEW bus \in 0 .. 1, TrackPrevious(bus), Clear, UNCHANGED config
    PROVE  CoreInv'
<1> USE LaAssumption
<1>1. <<>> \in Seq({0, 1}) /\ Len(<<>>) = 0
  OBVIOUS
<1>2. prev_sample' \in 0 .. 1
  BY DEF CoreInv, TypeOK, TrackPrevious
<1>3. TypeOK'
  BY <1>1, <1>2 DEF CoreInv, TypeOK, Clear, config, States
<1>4. MemoryHolds' /\ LastIsLast'
  BY <1>1 DEF MemoryHolds, LastIsLast, Clear
<1> QED BY <1>3, <1>4 DEF CoreInv, WindowPlaced, BeforeTrigger, AfterTrigger, TriggerMarked,
           WindowIsFull, FlagsFollow, captured, active_capture, Clear

LEMMA BeginKeeps ==
    ASSUME CoreInv, NEW bus \in 0 .. 1, Beside(bus), BeginCapture
    PROVE  CoreInv'
<1> USE LaAssumption
<1>1. <<>> \in Seq({0, 1}) /\ Len(<<>>) = 0
  OBVIOUS
<1>2. capture_id' \in 0 .. ID_MOD - 1
  <2>1. capture_id + 1 \in Int
    BY DEF CoreInv, TypeOK
  <2>2. (capture_id + 1) % ID_MOD \in 0 .. ID_MOD - 1
    BY <2>1, ModDef
  <2> QED BY <2>2 DEF BeginCapture
<1>3. TypeOK'
  <2>1. /\ state' = "ARMED" /\ samples_written' = 0 /\ trigger_index' = 0
        /\ overflow' = FALSE /\ config_error' = FALSE /\ capture_flags' = {}
        /\ write_ptr' = 0 /\ post_remaining' = 0
        /\ taken' = <<>> /\ fired' = "none" /\ steady' = TRUE
        /\ UNCHANGED <<buffer, last_sample, trigger_value, read_start_ptr>>
    BY DEF BeginCapture
  <2>2. /\ prev_sample' \in 0 .. 1 /\ div_count' \in 0 .. DIV_MOD - 1
        /\ divisor' \in 1 .. DIV_MAX /\ mode' \in Modes
        /\ capture_depth' \in 1 .. SAMPLE_DEPTH
        /\ pretrigger_depth' \in 0 .. SAMPLE_DEPTH - 1
    BY BesideTypes DEF CoreInv
  <2>3. /\ {write_ptr, read_start_ptr}' \subseteq 0 .. SAMPLE_DEPTH - 1
        /\ {trigger_value, last_sample, prev_sample}' \subseteq 0 .. 1
        /\ buffer' \in [0 .. SAMPLE_DEPTH - 1 -> {0, 1}]
    BY <2>1, <2>2 DEF CoreInv, TypeOK
  <2>4. /\ 0 \in 0 .. SAMPLE_DEPTH - 1 /\ 0 \in 0 .. SAMPLE_DEPTH
        /\ Len(<<>>) <= SAMPLE_DEPTH
    BY <1>1
  <2> QED BY <2>1, <2>2, <2>3, <2>4, <1>1, <1>2 DEF TypeOK, States
<1>4. MemoryHolds' /\ LastIsLast'
  BY <1>1 DEF MemoryHolds, LastIsLast, BeginCapture
<1>5. BeforeTrigger'
  BY <1>1 DEF CoreInv, TypeOK, BeforeTrigger, BeginCapture, Beside, config, config_bad
<1> QED BY <1>1, <1>3, <1>4, <1>5 DEF CoreInv, WindowPlaced, AfterTrigger, TriggerMarked,
           WindowIsFull, FlagsFollow, captured, active_capture, BeginCapture

LEMMA RefuseKeeps ==
    ASSUME CoreInv, NEW bus \in 0 .. 1, Beside(bus), RefuseCapture
    PROVE  CoreInv'
<1>1. TypeOK'
  BY BesideTypes DEF CoreInv, TypeOK, RefuseCapture, memory, history, States
<1>2. MemoryHolds' /\ LastIsLast'
  BY DEF CoreInv, MemoryHolds, LastIsLast, FromEnd, calc_start_ptr, memory, history, RefuseCapture
<1> QED BY <1>1, <1>2 DEF CoreInv, WindowPlaced, BeforeTrigger, AfterTrigger, TriggerMarked,
           WindowIsFull, FlagsFollow, captured, active_capture, RefuseCapture

-----------------------------------------------------------------------------
(* A stop finishes what was captured; nothing is full that it cut short.   *)
LEMMA StopKeeps ==
    ASSUME CoreInv, active_capture, NEW bus \in 0 .. 1, Beside(bus),
           NEW forced \in BOOLEAN, Stop(forced)
    PROVE  CoreInv'
<1> USE DEF CoreInv
<1>1. /\ state' = "DONE"
      /\ read_start_ptr' = calc_start_ptr(write_ptr, samples_written)
      /\ "TRIGGERED" \in capture_flags' /\ capture_flags' \in SUBSET Flags
      /\ samples_written < capture_depth => "PARTIAL" \in capture_flags'
      /\ UNCHANGED <<samples_written, trigger_index, capture_id, overflow, config_error,
                     trigger_value, post_remaining, fired, steady,
                     buffer, last_sample, write_ptr, taken>>
  BY DEF Stop, finish_capture, NoStore, Flag, Flags
<1>2. TypeOK'
  <2>1. read_start_ptr' \in 0 .. SAMPLE_DEPTH - 1
    BY <1>1, PointerInMemory DEF TypeOK
  <2>2. /\ prev_sample' \in 0 .. 1 /\ div_count' \in 0 .. DIV_MOD - 1
        /\ divisor' \in 1 .. DIV_MAX /\ mode' \in Modes
        /\ capture_depth' \in 1 .. SAMPLE_DEPTH
        /\ pretrigger_depth' \in 0 .. SAMPLE_DEPTH - 1
    BY BesideTypes
  <2> QED BY <1>1, <2>1, <2>2 DEF TypeOK, States
<1>3. MemoryHolds' /\ LastIsLast'
  BY <1>1 DEF MemoryHolds, LastIsLast, FromEnd, calc_start_ptr
<1>4. WindowPlaced'
  BY <1>1 DEF WindowPlaced, calc_start_ptr, captured, active_capture
<1>5. BeforeTrigger' /\ AfterTrigger' /\ FlagsFollow'
  BY <1>1 DEF BeforeTrigger, AfterTrigger, FlagsFollow, captured, active_capture
<1>6. TriggerMarked'
  BY <1>1 DEF TriggerMarked, BeforeTrigger, FromEnd, Place, captured, active_capture
<1>7. WindowIsFull'
  BY <1>1 DEF WindowIsFull, BeforeTrigger, AfterTrigger, TypeOK, Beside, config,
              captured, active_capture
<1> QED BY <1>2, <1>3, <1>4, <1>5, <1>6, <1>7

(* A forced trigger marks the last sample, and ends a capture that has     *)
(* enough of them already.                                                 *)
LEMMA ForceKeeps ==
    ASSUME CoreInv, state = "ARMED", NEW bus \in 0 .. 1, Beside(bus), ForceTrigger(bus)
    PROVE  CoreInv'
<1> USE DEF CoreInv
<1>0. /\ samples_written \in 0 .. SAMPLE_DEPTH - 1 /\ capture_depth \in 1 .. SAMPLE_DEPTH
      /\ SAMPLE_DEPTH \in Nat
      /\ Len(taken) \in Nat /\ samples_written <= Len(taken)
  BY LaAssumption, LenProperties DEF TypeOK, BeforeTrigger, WindowPlaced, active_capture
<1>1. /\ trigger_index' = ForceIndex
      /\ trigger_value' = IF samples_written = 0 THEN bus ELSE last_sample
      /\ fired' = "force"
      /\ UNCHANGED <<samples_written, capture_id, overflow, config_error, steady,
                     buffer, last_sample, write_ptr, taken>>
  BY DEF ForceTrigger, NoStore
<1>2. \/ /\ samples_written >= capture_depth /\ state' = "DONE"
         /\ read_start_ptr' = calc_start_ptr(write_ptr, samples_written)
         /\ "TRIGGERED" \in capture_flags' /\ capture_flags' \in SUBSET Flags
         /\ post_remaining' = post_remaining
      \/ /\ samples_written < capture_depth /\ state' = "CAPTURING"
         /\ post_remaining' = capture_depth - samples_written
         /\ capture_flags' = {"FORCED"}
         /\ read_start_ptr' = read_start_ptr
  BY DEF ForceTrigger, finish_capture, Flag, Flags, PostCount
<1>3. TypeOK'
  <2>1. read_start_ptr' \in 0 .. SAMPLE_DEPTH - 1
    BY <1>2, PointerInMemory DEF TypeOK
  <2>2. /\ prev_sample' \in 0 .. 1 /\ div_count' \in 0 .. DIV_MOD - 1
        /\ divisor' \in 1 .. DIV_MAX /\ mode' \in Modes
        /\ capture_depth' \in 1 .. SAMPLE_DEPTH
        /\ pretrigger_depth' \in 0 .. SAMPLE_DEPTH - 1
    BY BesideTypes
  <2>3. post_remaining' \in 0 .. SAMPLE_DEPTH /\ state' \in States
        /\ capture_flags' \in SUBSET Flags
    BY <1>0, <1>2 DEF TypeOK, States, Flags
  <2>4. trigger_index' \in 0 .. SAMPLE_DEPTH - 1
    BY <1>0, <1>1 DEF ForceIndex
  <2>5. trigger_value' \in 0 .. 1
    BY <1>1 DEF TypeOK
  <2> QED BY <1>1, <2>1, <2>2, <2>3, <2>4, <2>5 DEF TypeOK
<1>4. MemoryHolds' /\ LastIsLast'
  BY <1>1 DEF MemoryHolds, LastIsLast, FromEnd, calc_start_ptr
<1>5. WindowPlaced'
  BY <1>0, <1>1, <1>2 DEF WindowPlaced, calc_start_ptr, captured, active_capture
<1>6. BeforeTrigger' /\ FlagsFollow'
  BY <1>2 DEF BeforeTrigger, FlagsFollow, captured, active_capture
<1>7. AfterTrigger'
  BY <1>0, <1>1, <1>2 DEF AfterTrigger, Beside, config
<1>8. TriggerMarked'
  <2>1. SUFFICES ASSUME trigger_index' > 0
                 PROVE  /\ trigger_index' < samples_written'
                        /\ FromEnd(taken', Place(trigger_index)') = trigger_value'
    BY <1>1 DEF TriggerMarked, FromEnd, Place
  <2>2. /\ samples_written > 0 /\ trigger_index' = samples_written - 1
        /\ trigger_value' = last_sample
    BY <2>1, <1>0, <1>1 DEF ForceIndex
  <2>3. Place(trigger_index)' = 1
    BY <2>2, <1>0, <1>1 DEF Place
  <2>4. FromEnd(taken', 1) = last_sample
    BY <2>2, <1>0, <1>1 DEF LastIsLast, FromEnd
  <2> QED BY <2>2, <2>3, <2>4, <1>0, <1>1
<1>9. WindowIsFull'
  BY <1>0, <1>1, <1>2 DEF WindowIsFull, BeforeTrigger, Beside, config, captured, TypeOK
<1> QED BY <1>3, <1>4, <1>5, <1>6, <1>7, <1>8, <1>9

(* A sample before the trigger.                                            *)
LEMMA PreSampleKeeps ==
    ASSUME CoreInv, state = "ARMED", sample_due, NEW bus \in 0 .. 1, Beside(bus),
           PreSample(bus)
    PROVE  CoreInv'
<1> USE DEF CoreInv
<1>0. /\ samples_written \in 0 .. SAMPLE_DEPTH - 1 /\ pretrigger_depth \in 0 .. SAMPLE_DEPTH - 1
      /\ SAMPLE_DEPTH \in Nat
      /\ Len(taken) \in Nat /\ samples_written <= Len(taken)
  BY LaAssumption, LenProperties DEF TypeOK, BeforeTrigger, WindowPlaced, active_capture
<1>1. /\ buffer' \in [0 .. SAMPLE_DEPTH - 1 -> {0, 1}]
      /\ write_ptr' \in 0 .. SAMPLE_DEPTH - 1
      /\ last_sample' = bus
      /\ taken' \in Seq({0, 1})
      /\ Len(taken') = IF Len(taken) < SAMPLE_DEPTH THEN Len(taken) + 1 ELSE SAMPLE_DEPTH
      /\ FromEnd(taken', 1) = bus
      /\ MemoryHolds'
  BY StoreStep DEF PreSample
<1>2. /\ samples_written' = PreCount
      /\ overflow' \in BOOLEAN
      /\ UNCHANGED <<state, trigger_index, capture_id, config_error, capture_flags,
                     trigger_value, post_remaining, read_start_ptr, fired, steady>>
  BY DEF PreSample, TypeOK
<1>3. samples_written' \in 0 .. SAMPLE_DEPTH - 1 /\ samples_written' <= Len(taken')
  BY <1>0, <1>1, <1>2 DEF PreCount
<1>4. prev_sample' = bus
  BY DEF Beside, TrackPrevious
<1>5. TypeOK'
  <2>1. /\ div_count' \in 0 .. DIV_MOD - 1
        /\ divisor' \in 1 .. DIV_MAX /\ mode' \in Modes
        /\ capture_depth' \in 1 .. SAMPLE_DEPTH
        /\ pretrigger_depth' \in 0 .. SAMPLE_DEPTH - 1
    BY BesideTypes
  <2>2. Len(taken') <= SAMPLE_DEPTH /\ samples_written' \in 0 .. SAMPLE_DEPTH
    BY <1>0, <1>1, <1>3
  <2> QED BY <1>1, <1>2, <1>4, <2>1, <2>2 DEF TypeOK
<1>6. LastIsLast'
  BY <1>1 DEF LastIsLast, FromEnd
<1>7. WindowPlaced'
  BY <1>2, <1>3 DEF WindowPlaced, captured
<1>8. BeforeTrigger'
  BY <1>0, <1>1, <1>2, <1>3, <1>4 DEF BeforeTrigger, FromEnd, Beside, config, PreCount
<1>9. AfterTrigger' /\ TriggerMarked' /\ WindowIsFull' /\ FlagsFollow'
  BY <1>2 DEF AfterTrigger, TriggerMarked, WindowIsFull, FlagsFollow, captured, active_capture
<1> QED BY <1>1, <1>5, <1>6, <1>7, <1>8, <1>9

(* The sample the trigger fires on.                                        *)
LEMMA HitKeeps ==
    ASSUME CoreInv, state = "ARMED", NEW bus \in 0 .. 1, Beside(bus), Hit(bus)
    PROVE  CoreInv'
<1> USE DEF CoreInv
<1>0. /\ samples_written \in 0 .. SAMPLE_DEPTH - 1 /\ capture_depth \in 1 .. SAMPLE_DEPTH
      /\ SAMPLE_DEPTH \in Nat
      /\ Len(taken) \in Nat /\ samples_written <= Len(taken)
  BY LaAssumption, LenProperties DEF TypeOK, BeforeTrigger, WindowPlaced, active_capture
<1>1. /\ buffer' \in [0 .. SAMPLE_DEPTH - 1 -> {0, 1}]
      /\ write_ptr' = inc_ptr(write_ptr) /\ write_ptr' \in 0 .. SAMPLE_DEPTH - 1
      /\ last_sample' = bus
      /\ taken' \in Seq({0, 1})
      /\ Len(taken') = IF Len(taken) < SAMPLE_DEPTH THEN Len(taken) + 1 ELSE SAMPLE_DEPTH
      /\ FromEnd(taken', 1) = bus
      /\ \A k \in 1 .. Len(taken') - 1 : FromEnd(taken', k + 1) = FromEnd(taken, k)
      /\ MemoryHolds'
  BY StoreStep DEF Hit
<1>2. /\ trigger_index' = samples_written /\ trigger_value' = bus
      /\ samples_written' = samples_written + 1
      /\ fired' = mode /\ mode \in Modes
      /\ UNCHANGED <<capture_id, overflow, config_error, steady>>
  BY DEF Hit, TypeOK
<1>3. \/ /\ samples_written' >= capture_depth /\ state' = "DONE"
         /\ read_start_ptr' = calc_start_ptr(write_ptr', samples_written')
         /\ "TRIGGERED" \in capture_flags' /\ capture_flags' \in SUBSET Flags
         /\ post_remaining' = post_remaining
      \/ /\ samples_written' < capture_depth /\ state' = "CAPTURING"
         /\ post_remaining' = capture_depth - samples_written'
         /\ capture_flags' = {}
         /\ read_start_ptr' = read_start_ptr
  BY <1>1, <1>2 DEF Hit, FillWindow, Flag, Flags, PostCount, BeforeTrigger
<1>4. /\ samples_written' \in 1 .. SAMPLE_DEPTH /\ samples_written' <= Len(taken')
      /\ Len(taken') <= SAMPLE_DEPTH
  BY <1>0, <1>1, <1>2
<1>5. TypeOK'
  <2>1. read_start_ptr' \in 0 .. SAMPLE_DEPTH - 1
    <3>1. samples_written' \in 0 .. SAMPLE_DEPTH
      BY <1>4, <1>0
    <3>2. calc_start_ptr(write_ptr', samples_written') \in 0 .. SAMPLE_DEPTH - 1
      BY <3>1, <1>1, PointerInMemory
    <3> QED BY <3>2, <1>3 DEF TypeOK
  <2>2. /\ prev_sample' \in 0 .. 1 /\ div_count' \in 0 .. DIV_MOD - 1
        /\ divisor' \in 1 .. DIV_MAX /\ mode' \in Modes
        /\ capture_depth' \in 1 .. SAMPLE_DEPTH
        /\ pretrigger_depth' \in 0 .. SAMPLE_DEPTH - 1
    BY BesideTypes
  <2>3. post_remaining' \in 0 .. SAMPLE_DEPTH /\ state' \in States
        /\ capture_flags' \in SUBSET Flags
    BY <1>0, <1>2, <1>3 DEF TypeOK, States, Flags
  <2>4. /\ {write_ptr, read_start_ptr}' \subseteq 0 .. SAMPLE_DEPTH - 1
        /\ {trigger_value, last_sample, prev_sample}' \subseteq 0 .. 1
    BY <1>1, <1>2, <2>1, <2>2
  <2>5. samples_written' \in 0 .. SAMPLE_DEPTH
    BY <1>0, <1>2
  <2> QED BY <1>0, <1>1, <1>2, <1>4, <2>2, <2>3, <2>4, <2>5 DEF TypeOK
<1>6. LastIsLast'
  BY <1>1 DEF LastIsLast, FromEnd
<1>7. WindowPlaced'
  BY <1>3, <1>4 DEF WindowPlaced, captured, active_capture, calc_start_ptr
<1>8. BeforeTrigger' /\ FlagsFollow'
  BY <1>3 DEF BeforeTrigger, FlagsFollow, captured, active_capture
<1>9. AfterTrigger'
  BY <1>0, <1>2, <1>3 DEF AfterTrigger, Beside, config
<1>10. TriggerMarked'
  <2>1. /\ trigger_index' < samples_written' /\ Place(trigger_index)' = 1
        /\ FromEnd(taken, Place(trigger_index))' = trigger_value'
    <3>1. Place(trigger_index)' = 1
      BY <1>0, <1>2 DEF Place
    <3> QED BY <3>1, <1>0, <1>1, <1>2 DEF FromEnd
  <2>2. /\ mode \in {"level", "rising", "falling"}
        /\ bus = (IF mode = "falling" THEN 0 ELSE 1)
        /\ mode # "level" => prev_sample = 1 - bus
    BY DEF Hit, trigger_hit
  <2>3. ASSUME samples_written > 0 PROVE FromEnd(taken, Place(trigger_index) + 1)' = prev_sample
    <3>1. 1 \in 1 .. Len(taken') - 1 /\ Len(taken) > 0
      BY <2>3, <1>0, <1>1
    <3>2. FromEnd(taken', 1 + 1) = FromEnd(taken, 1)
      BY <3>1, <1>1
    <3>3. FromEnd(taken, 1) = prev_sample
      BY <3>1 DEF BeforeTrigger
    <3> QED BY <2>1, <3>2, <3>3 DEF FromEnd
  <2> QED BY <2>1, <2>2, <2>3, <1>2 DEF TriggerMarked
<1>11. WindowIsFull'
  BY <1>0, <1>2, <1>3 DEF WindowIsFull, BeforeTrigger, Beside, config, captured, TypeOK
<1> QED BY <1>1, <1>5, <1>6, <1>7, <1>8, <1>9, <1>10, <1>11

(* A sample after the trigger: the mark stays on the sample it is on.      *)
LEMMA PostSampleKeeps ==
    ASSUME CoreInv, state = "CAPTURING", NEW bus \in 0 .. 1, Beside(bus), PostSample(bus)
    PROVE  CoreInv'
<1> USE DEF CoreInv
<1>0. /\ samples_written \in 0 .. SAMPLE_DEPTH - 1
      /\ post_remaining \in 1 .. SAMPLE_DEPTH
      /\ samples_written + post_remaining <= SAMPLE_DEPTH
      /\ SAMPLE_DEPTH \in Nat /\ trigger_index \in Nat
      /\ Len(taken) \in Nat /\ samples_written <= Len(taken)
  BY LaAssumption, LenProperties DEF TypeOK, AfterTrigger, WindowPlaced, active_capture
<1>1. /\ buffer' \in [0 .. SAMPLE_DEPTH - 1 -> {0, 1}]
      /\ write_ptr' = inc_ptr(write_ptr) /\ write_ptr' \in 0 .. SAMPLE_DEPTH - 1
      /\ last_sample' = bus
      /\ taken' \in Seq({0, 1})
      /\ Len(taken') = IF Len(taken) < SAMPLE_DEPTH THEN Len(taken) + 1 ELSE SAMPLE_DEPTH
      /\ FromEnd(taken', 1) = bus
      /\ \A k \in 1 .. Len(taken') - 1 : FromEnd(taken', k + 1) = FromEnd(taken, k)
      /\ MemoryHolds'
  BY StoreStep DEF PostSample
<1>2. /\ samples_written' = samples_written + 1
      /\ post_remaining' = post_remaining - 1
      /\ UNCHANGED <<trigger_index, capture_id, overflow, config_error,
                     trigger_value, fired, steady>>
  BY DEF PostSample
<1>3. \/ /\ post_remaining = 1 /\ state' = "DONE"
         /\ read_start_ptr' = calc_start_ptr(write_ptr', samples_written')
         /\ "TRIGGERED" \in capture_flags' /\ capture_flags' \in SUBSET Flags
      \/ /\ post_remaining # 1
         /\ UNCHANGED <<state, read_start_ptr, capture_flags>>
  BY <1>1, <1>2 DEF PostSample, FillWindow, Flag, Flags
<1>4. /\ samples_written' \in 1 .. SAMPLE_DEPTH /\ samples_written' <= Len(taken')
      /\ Len(taken') <= SAMPLE_DEPTH
  BY <1>0, <1>1, <1>2
<1>5. TypeOK'
  <2>1. read_start_ptr' \in 0 .. SAMPLE_DEPTH - 1
    <3>1. samples_written' \in 0 .. SAMPLE_DEPTH
      BY <1>4, <1>0
    <3>2. calc_start_ptr(write_ptr', samples_written') \in 0 .. SAMPLE_DEPTH - 1
      BY <3>1, <1>1, PointerInMemory
    <3> QED BY <3>2, <1>3 DEF TypeOK
  <2>2. /\ prev_sample' \in 0 .. 1 /\ div_count' \in 0 .. DIV_MOD - 1
        /\ divisor' \in 1 .. DIV_MAX /\ mode' \in Modes
        /\ capture_depth' \in 1 .. SAMPLE_DEPTH
        /\ pretrigger_depth' \in 0 .. SAMPLE_DEPTH - 1
    BY BesideTypes
  <2>3. post_remaining' \in 0 .. SAMPLE_DEPTH /\ state' \in States
        /\ capture_flags' \in SUBSET Flags
    BY <1>0, <1>2, <1>3 DEF TypeOK, States
  <2>4. /\ {write_ptr, read_start_ptr}' \subseteq 0 .. SAMPLE_DEPTH - 1
        /\ {trigger_value, last_sample, prev_sample}' \subseteq 0 .. 1
    BY <1>1, <1>2, <2>1, <2>2 DEF TypeOK
  <2>5. samples_written' \in 0 .. SAMPLE_DEPTH
    BY <1>0, <1>2
  <2> QED BY <1>0, <1>1, <1>2, <1>4, <2>2, <2>3, <2>4, <2>5 DEF TypeOK
<1>6. LastIsLast'
  BY <1>1 DEF LastIsLast, FromEnd
<1>7. WindowPlaced'
  BY <1>3, <1>4 DEF WindowPlaced, captured, active_capture, calc_start_ptr
<1>8. BeforeTrigger' /\ FlagsFollow'
  BY <1>3 DEF BeforeTrigger, FlagsFollow, captured, active_capture
<1>9. AfterTrigger'
  BY <1>0, <1>2, <1>3 DEF AfterTrigger, Beside, config
<1>10. TriggerMarked'
  <2>1. ASSUME trigger_index < samples_written
        PROVE  /\ trigger_index' < samples_written'
               /\ FromEnd(taken, Place(trigger_index))' = FromEnd(taken, Place(trigger_index))
    <3>1. /\ Place(trigger_index) \in 1 .. Len(taken') - 1
          /\ Place(trigger_index)' = Place(trigger_index) + 1
      BY <2>1, <1>0, <1>1, <1>2 DEF Place
    <3>2. FromEnd(taken', Place(trigger_index) + 1) = FromEnd(taken, Place(trigger_index))
      BY <3>1, <1>1
    <3> QED BY <2>1, <3>1, <3>2, <1>0, <1>2 DEF FromEnd
  <2>2. ASSUME trigger_index < samples_written, trigger_index > 0
        PROVE  FromEnd(taken, Place(trigger_index) + 1)' = FromEnd(taken, Place(trigger_index) + 1)
    <3>1. /\ Place(trigger_index) + 1 \in 1 .. Len(taken') - 1
          /\ Place(trigger_index)' = Place(trigger_index) + 1
      BY <2>2, <1>0, <1>1, <1>2 DEF Place
    <3>2. FromEnd(taken', (Place(trigger_index) + 1) + 1) = FromEnd(taken, Place(trigger_index) + 1)
      BY <3>1, <1>1
    <3> QED BY <3>1, <3>2 DEF FromEnd
  <2> HIDE DEF CoreInv
  <2>3. TriggerMarked
    BY DEF CoreInv
  <2> QED BY <2>1, <2>2, <2>3, <1>2 DEF TriggerMarked
<1>11. WindowIsFull'
  BY <1>0, <1>2, <1>3 DEF WindowIsFull, AfterTrigger, Beside, config, captured, TypeOK
<1> QED BY <1>1, <1>5, <1>6, <1>7, <1>8, <1>9, <1>10, <1>11

(* A register write changes nothing a capture has done.                    *)
LEMMA ConfigWriteKeeps ==
    ASSUME CoreInv, ConfigWrite
    PROVE  CoreInv'
<1> USE DEF CoreInv
<1>1. /\ divisor' \in 1 .. DIV_MAX /\ mode' \in Modes
      /\ capture_depth' \in 1 .. SAMPLE_DEPTH
      /\ pretrigger_depth' \in 0 .. SAMPLE_DEPTH - 1
      /\ steady' = FALSE
      /\ UNCHANGED <<control, memory, div_count, prev_sample, taken, fired>>
  BY LaAssumption DEF ConfigWrite, TypeOK
<1>2. TypeOK'
  BY <1>1 DEF TypeOK, control, memory
<1>3. MemoryHolds' /\ LastIsLast'
  BY <1>1 DEF MemoryHolds, LastIsLast, FromEnd, calc_start_ptr, memory
<1>4. WindowPlaced' /\ FlagsFollow'
  BY <1>1 DEF WindowPlaced, FlagsFollow, calc_start_ptr, memory, control, captured, active_capture
<1>5. BeforeTrigger' /\ AfterTrigger' /\ WindowIsFull'
  BY <1>1 DEF BeforeTrigger, AfterTrigger, WindowIsFull, FromEnd, control
<1>6. TriggerMarked'
  BY <1>1 DEF TriggerMarked, FromEnd, Place, control, captured
<1> QED BY <1>2, <1>3, <1>4, <1>5, <1>6

-----------------------------------------------------------------------------
LEMMA InitKeeps == Init => CoreInv
<1> SUFFICES ASSUME Init PROVE CoreInv
  OBVIOUS
<1> USE LaAssumption DEF Init
<1>1. <<>> \in Seq({0, 1}) /\ Len(<<>>) = 0
  OBVIOUS
<1>2. TypeOK
  <2>1. 0 \in 0 .. ID_MOD - 1 /\ 0 \in 0 .. DIV_MOD - 1 /\ 0 \in 0 .. SAMPLE_DEPTH - 1
        /\ 1 \in 1 .. DIV_MAX /\ SAMPLE_DEPTH \in 1 .. SAMPLE_DEPTH
    OBVIOUS
  <2> QED BY <1>1, <2>1 DEF TypeOK, States
<1>3. MemoryHolds /\ LastIsLast
  BY <1>1 DEF MemoryHolds, LastIsLast
<1> QED BY <1>2, <1>3 DEF CoreInv, WindowPlaced, BeforeTrigger, AfterTrigger, TriggerMarked,
           WindowIsFull, FlagsFollow, captured, active_capture

LEMMA EdgeKeeps ==
    ASSUME CoreInv, NEW cmd \in Commands, NEW bus \in 0 .. 1, Edge(cmd, bus)
    PROVE  CoreInv'
<1>1. CASE "off" \in cmd
  BY <1>1, ClearKeeps DEF Edge
<1>2. CASE "off" \notin cmd
  <2>1. Beside(bus)
    BY <1>2 DEF Edge, Beside
  <2>2. Stay => /\ state' = state
                /\ UNCHANGED <<samples_written, trigger_index, capture_id, overflow,
                               config_error, capture_flags, trigger_value,
                               post_remaining, read_start_ptr, memory, history>>
    BY DEF Stay, control
  <2>3. CASE IdleEdge(cmd)
    BY <2>1, <2>2, <2>3, BeginKeeps, RefuseKeeps, QuietKeeps DEF IdleEdge
  <2>4. CASE ArmedEdge(cmd, bus)
    <3>1. state = "ARMED" /\ active_capture
      BY <2>4 DEF ArmedEdge, active_capture
    <3>2. CASE Stop(FALSE)
      BY <2>1, <3>1, <3>2, StopKeeps
    <3>3. CASE ForceTrigger(bus)
      BY <2>1, <3>1, <3>3, ForceKeeps
    <3>4. CASE Hit(bus)
      BY <2>1, <3>1, <3>4, HitKeeps
    <3>5. CASE sample_due /\ PreSample(bus)
      BY <2>1, <3>1, <3>5, PreSampleKeeps
    <3>6. CASE ~sample_due /\ Stay
      BY <2>1, <2>2, <3>6, QuietKeeps
    <3> QED BY <2>4, <3>2, <3>3, <3>4, <3>5, <3>6 DEF ArmedEdge
  <2>5. CASE CapturingEdge(cmd, bus)
    <3>1. state = "CAPTURING" /\ active_capture
      BY <2>5 DEF CapturingEdge, active_capture
    <3>2. CASE Stop("FORCED" \in capture_flags)
      <4>1. ("FORCED" \in capture_flags) \in BOOLEAN
        OBVIOUS
      <4> QED BY <2>1, <3>1, <3>2, <4>1, StopKeeps
    <3>3. CASE PostSample(bus)
      BY <2>1, <3>1, <3>3, PostSampleKeeps
    <3>4. CASE Stay
      BY <2>1, <2>2, <3>1, <3>4, QuietKeeps
    <3> QED BY <2>5, <3>2, <3>3, <3>4 DEF CapturingEdge
  <2>6. CASE DoneEdge(cmd)
    <3>1. state = "DONE" /\ captured
      BY <2>6 DEF DoneEdge, captured
    <3>2. CASE BeginCapture \/ RefuseCapture
      BY <2>1, <3>2, BeginKeeps, RefuseKeeps
    <3>3. CASE ~(BeginCapture \/ RefuseCapture)
      BY <2>1, <2>2, <2>6, <3>1, <3>3, QuietKeeps DEF DoneEdge
    <3> QED BY <3>2, <3>3
  <2>7. CASE ReadoutEdge(cmd)
    BY <2>1, <2>7, QuietKeeps DEF ReadoutEdge, captured
  <2>8. CASE ErrorEdge(cmd)
    BY <2>1, <2>2, <2>8, BeginKeeps, QuietKeeps DEF ErrorEdge
  <2> QED BY <1>2, <2>3, <2>4, <2>5, <2>6, <2>7, <2>8 DEF Edge
<1> QED BY <1>1, <1>2

LEMMA NextKeeps == CoreInv /\ [Next]_vars => CoreInv'
<1> SUFFICES ASSUME CoreInv, [Next]_vars PROVE CoreInv'
  OBVIOUS
<1>1. CASE Clock
  BY <1>1, EdgeKeeps DEF Clock
<1>2. CASE ConfigWrite
  BY <1>2, ConfigWriteKeeps
<1>3. CASE UNCHANGED vars
  <2>1. UNCHANGED <<state, samples_written, trigger_index, capture_id, overflow,
                    config_error, capture_flags, trigger_value, post_remaining,
                    read_start_ptr, buffer, write_ptr, last_sample, div_count,
                    prev_sample, taken, fired, steady, divisor, capture_depth,
                    pretrigger_depth, mode>>
    BY <1>3 DEF vars, coreVars, control, memory, history, config
  <2>2. TypeOK'
    BY <2>1 DEF CoreInv, TypeOK
  <2>3. MemoryHolds' /\ LastIsLast' /\ WindowPlaced' /\ BeforeTrigger' /\ AfterTrigger'
    BY <2>1 DEF CoreInv, MemoryHolds, LastIsLast, WindowPlaced, BeforeTrigger, AfterTrigger,
                FromEnd, calc_start_ptr, captured, active_capture
  <2>4. TriggerMarked' /\ WindowIsFull' /\ FlagsFollow'
    BY <2>1 DEF CoreInv, TriggerMarked, WindowIsFull, FlagsFollow, FromEnd, Place,
                captured, active_capture
  <2> QED BY <2>2, <2>3, <2>4 DEF CoreInv
<1> QED BY <1>1, <1>2, <1>3 DEF Next

THEOREM CoreInvariant == Spec => []CoreInv
BY InitKeeps, NextKeeps, PTL DEF Spec

-----------------------------------------------------------------------------
(* What the reader gets for index i is the sample at that place.           *)
LEMMA WordIsTaken ==
    ASSUME CoreInv, captured, NEW i \in 0 .. samples_written - 1
    PROVE  /\ Word(i) = FromEnd(taken, samples_written - i)
           /\ Word(i) \in {0, 1}
<1> USE LaAssumption DEF CoreInv
<1>1. /\ samples_written \in 0 .. SAMPLE_DEPTH /\ samples_written <= Len(taken)
      /\ Len(taken) \in Nat /\ write_ptr \in 0 .. SAMPLE_DEPTH - 1
      /\ buffer \in [0 .. SAMPLE_DEPTH - 1 -> {0, 1}]
      /\ read_start_ptr = calc_start_ptr(write_ptr, samples_written)
  BY LenProperties DEF TypeOK, WindowPlaced
<1>2. /\ samples_written - i \in 1 .. Len(taken)
      /\ samples_written - i \in 0 .. SAMPLE_DEPTH
  BY <1>1
<1>3. add_ptr(read_start_ptr, i) = calc_start_ptr(write_ptr, samples_written - i)
  BY <1>1, IndexFromEnd
<1>4. buffer[calc_start_ptr(write_ptr, samples_written - i)] = FromEnd(taken, samples_written - i)
  BY <1>2 DEF MemoryHolds
<1>5. calc_start_ptr(write_ptr, samples_written - i) \in 0 .. SAMPLE_DEPTH - 1
  BY <1>1, <1>2, PointerInMemory
<1> QED BY <1>1, <1>3, <1>4, <1>5 DEF Word

LEMMA InvShowsWindow == CoreInv => WindowIsLast
<1> SUFFICES ASSUME CoreInv, captured
             PROVE  /\ samples_written <= Len(taken)
                    /\ \A i \in 0 .. samples_written - 1 :
                           Word(i) = taken[Len(taken) - samples_written + 1 + i]
  BY DEF WindowIsLast
<1>1. /\ samples_written <= Len(taken) /\ samples_written \in Nat /\ Len(taken) \in Nat
  BY LaAssumption, LenProperties DEF CoreInv, WindowPlaced, TypeOK
<1>2. ASSUME NEW i \in 0 .. samples_written - 1
      PROVE  Word(i) = taken[Len(taken) - samples_written + 1 + i]
  <2>1. Len(taken) + 1 - (samples_written - i) = Len(taken) - samples_written + 1 + i
    BY <1>1
  <2> QED BY <2>1, WordIsTaken DEF FromEnd
<1> QED BY <1>1, <1>2

LEMMA InvShowsTrigger == CoreInv => TriggerMarksSample
<1> SUFFICES ASSUME CoreInv, captured PROVE TriggerMarksSample
  BY DEF TriggerMarksSample
<1>1. samples_written \in Nat /\ trigger_index \in Nat
  BY LaAssumption DEF CoreInv, TypeOK
<1>2. trigger_index < samples_written
        => Word(trigger_index) = FromEnd(taken, Place(trigger_index))
  BY <1>1, WordIsTaken DEF Place
<1>3. trigger_index < samples_written /\ trigger_index > 0
        => Word(trigger_index - 1) = FromEnd(taken, Place(trigger_index) + 1)
  <2> SUFFICES ASSUME trigger_index < samples_written, trigger_index > 0
               PROVE  Word(trigger_index - 1) = FromEnd(taken, Place(trigger_index) + 1)
    OBVIOUS
  <2>1. /\ trigger_index - 1 \in 0 .. samples_written - 1
        /\ samples_written - (trigger_index - 1) = Place(trigger_index) + 1
    BY <1>1 DEF Place
  <2> QED BY <2>1, WordIsTaken
<1>4. TriggerMarked
  BY DEF CoreInv
<1> QED BY <1>2, <1>3, <1>4 DEF TriggerMarked, TriggerMarksSample

(* The registers, counters and pointers of the core keep their widths      *)
(* (la_core 12-80).                                                        *)
THEOREM CoreTypes == Spec => []TypeOK
<1>1. CoreInv => TypeOK
  BY DEF CoreInv
<1> QED BY <1>1, CoreInvariant, PTL

(* For every depth and divisor, whatever was reconfigured meanwhile, a     *)
(* finished window is the last samples taken, in their order (la_core      *)
(* 82-118, 211-258).                                                       *)
THEOREM WindowIsTheLastSamples == Spec => []WindowIsLast
BY InvShowsWindow, CoreInvariant, PTL

(* The trigger index marks the sample the trigger fired on, with its edge  *)
(* (la_core 197-237, la_trigger 20-64).                                    *)
THEOREM TriggerIsMarked == Spec => []TriggerMarksSample
BY InvShowsTrigger, CoreInvariant, PTL

(* A window that is not flagged partial is full (la_core 204-209, 224-233, *)
(* 249).                                                                   *)
THEOREM WindowIsComplete == Spec => []WindowIsFull
<1>1. CoreInv => WindowIsFull
  BY DEF CoreInv
<1> QED BY <1>1, CoreInvariant, PTL

-----------------------------------------------------------------------------
(* What the reader sees: one state for a capture that runs, and a window   *)
(* when it is finished.                                                    *)
ReaderState == IF active_capture THEN "ACTIVE" ELSE state
Triggered   == "TRIGGERED" \in capture_flags
Window      == IF captured THEN [i \in 1 .. samples_written |-> Word(i - 1)] ELSE <<>>

LEMMA WindowHasSamples == CoreInv /\ captured => Window \in [1 .. samples_written -> {0, 1}]
<1> SUFFICES ASSUME CoreInv, captured
             PROVE  Window \in [1 .. samples_written -> {0, 1}]
  OBVIOUS
<1>1. ASSUME NEW i \in 1 .. samples_written PROVE Word(i - 1) \in {0, 1}
  <2>1. i - 1 \in 0 .. samples_written - 1
    BY LaAssumption DEF CoreInv, TypeOK
  <2> QED BY <2>1, WordIsTaken
<1> QED BY <1>1 DEF Window

LEMMA NextWindowHasSamples ==
    (CoreInv /\ captured => Window \in [1 .. samples_written -> {0, 1}])'
BY WindowHasSamples, PTL

(* The window stands still while nothing it is made of changes.            *)
LEMMA WindowStands ==
    ASSUME UNCHANGED <<samples_written, read_start_ptr, buffer>>, captured' <=> captured
    PROVE  Window' = Window
BY DEF Window, Word, add_ptr

(* A step of a running capture.                                            *)
LEMMA ActiveRefines ==
    ASSUME CoreInv, CoreInv', active_capture, state' \in {"ARMED", "CAPTURING", "DONE"},
           samples_written' \in {samples_written, samples_written + 1},
           capture_id' = capture_id
    PROVE  Capture!Take \/ Capture!Finish
<1>1. samples_written' \in Capture!Counted
  <2>1. samples_written' \in 0 .. SAMPLE_DEPTH
    BY DEF CoreInv, TypeOK
  <2> QED BY <2>1 DEF Capture!Counted
<1>2. ReaderState = "ACTIVE" /\ Window = <<>> /\ Triggered = FALSE
  BY DEF ReaderState, Window, Triggered, active_capture, captured, CoreInv, FlagsFollow
<1>3. CASE state' = "DONE"
  <2>1. captured' /\ ReaderState' = "DONE" /\ Triggered'
    BY <1>3 DEF captured, ReaderState, active_capture, Triggered, CoreInv, FlagsFollow
  <2>2. Window' \in [1 .. samples_written' -> {0, 1}]
    BY <2>1, NextWindowHasSamples
  <2> QED BY <1>1, <2>1, <2>2 DEF Capture!Finish, ReaderState, Triggered, Window
<1>4. CASE state' # "DONE"
  <2>1. ReaderState' = "ACTIVE" /\ Window' = <<>> /\ Triggered' = FALSE
    BY <1>4 DEF ReaderState, Window, Triggered, active_capture, captured, CoreInv, FlagsFollow
  <2> QED BY <1>1, <1>2, <2>1 DEF Capture!Take, ReaderState, Triggered, Window
<1> QED BY <1>3, <1>4

(* An edge of the core is an edge of the capture.                          *)
LEMMA EdgeRefines ==
    ASSUME CoreInv, CoreInv', NEW cmd \in Commands, NEW bus \in 0 .. 1, Edge(cmd, bus)
    PROVE  Capture!Edge(cmd)
<1>1. CASE "off" \in cmd
  <2>1. Clear
    BY <1>1 DEF Edge
  <2>2. /\ ReaderState' = "IDLE" /\ Window' = <<>> /\ Triggered' = FALSE
        /\ samples_written' = 0 /\ capture_id' = capture_id
    BY <2>1 DEF Clear, ReaderState, Window, Triggered, active_capture, captured
  <2> QED BY <1>1, <2>2 DEF Capture!Edge, Capture!Clear, ReaderState, Window, Triggered
<1>2. CASE "off" \notin cmd
  <2>1. BeginCapture => Capture!Arm
    <3> SUFFICES ASSUME BeginCapture PROVE Capture!Arm
      OBVIOUS
    <3>1. /\ ReaderState' = "ACTIVE" /\ Window' = <<>> /\ Triggered' = FALSE
          /\ samples_written' = 0 /\ capture_id' = (capture_id + 1) % ID_MOD
      BY DEF BeginCapture, ReaderState, Window, Triggered, active_capture, captured
    <3> QED BY <3>1 DEF Capture!Arm, ReaderState, Window, Triggered
  <2>2. RefuseCapture => Capture!Refuse
    <3> SUFFICES ASSUME RefuseCapture PROVE Capture!Refuse
      OBVIOUS
    <3>1. /\ ReaderState' = "ERROR" /\ Window' = <<>> /\ Triggered' = Triggered
          /\ samples_written' = samples_written /\ capture_id' = capture_id
      BY DEF RefuseCapture, ReaderState, Window, Triggered, active_capture, captured
    <3> QED BY <3>1 DEF Capture!Refuse, ReaderState, Window, Triggered
  <2>3. ASSUME NEW to \in {"IDLE", "ERROR", "DONE", "READOUT"}, state' = to,
               ~active_capture, captured' <=> captured,
               UNCHANGED <<samples_written, capture_id, capture_flags,
                           read_start_ptr, buffer>>
        PROVE  Capture!Move(to)
    <3>1. /\ ReaderState' = to /\ Triggered' = Triggered /\ Window' = Window
      BY <2>3, WindowStands DEF ReaderState, Triggered, active_capture
    <3> QED BY <2>3, <3>1 DEF Capture!Move, ReaderState, Window, Triggered
  <2>4. Stay => UNCHANGED <<state, samples_written, capture_id, capture_flags,
                            read_start_ptr, buffer>>
    BY DEF Stay, control, memory
  <2>5. CASE IdleEdge(cmd)
    <3>1. state = "IDLE" /\ ReaderState = "IDLE" /\ ~active_capture /\ ~captured
      BY <2>5 DEF IdleEdge, ReaderState, active_capture, captured
    <3>2. CASE "arm" \in cmd
      BY <1>2, <2>1, <2>2, <2>5, <3>1, <3>2 DEF IdleEdge, Capture!Edge, ReaderState
    <3>3. CASE "arm" \notin cmd
      <4>1. Capture!Move("IDLE")
        BY <2>3, <2>4, <2>5, <3>1, <3>3 DEF IdleEdge, captured
      <4> QED BY <1>2, <3>1, <3>3, <4>1 DEF Capture!Edge, ReaderState
    <3> QED BY <3>2, <3>3
  <2>6. CASE ErrorEdge(cmd)
    <3>1. state = "ERROR" /\ ReaderState = "ERROR" /\ ~active_capture /\ ~captured
      BY <2>6 DEF ErrorEdge, ReaderState, active_capture, captured
    <3>2. CASE "arm" \in cmd /\ ~config_bad
      BY <1>2, <2>1, <2>6, <3>1, <3>2 DEF ErrorEdge, Capture!Edge, ReaderState
    <3>3. CASE ~("arm" \in cmd /\ ~config_bad)
      <4>1. Capture!Move("ERROR")
        BY <2>3, <2>4, <2>6, <3>1, <3>3 DEF ErrorEdge, captured
      <4>2. Capture!Refuse
        BY <3>1, <4>1 DEF Capture!Move, Capture!Refuse, Window, captured
      <4>3. Capture!Move("ERROR") /\ Capture!Refuse
        BY <4>1, <4>2
      <4> QED BY <1>2, <3>1, <4>3 DEF Capture!Edge, ReaderState
    <3> QED BY <3>2, <3>3
  <2>7. CASE DoneEdge(cmd)
    <3>1. state = "DONE" /\ ReaderState = "DONE" /\ ~active_capture /\ captured
      BY <2>7 DEF DoneEdge, ReaderState, active_capture, captured
    <3>2. CASE "start" \in cmd
      <4>1. Capture!Move("READOUT")
        BY <2>3, <2>7, <3>1, <3>2 DEF DoneEdge, captured, memory
      <4> QED BY <1>2, <3>1, <3>2, <4>1 DEF Capture!Edge, ReaderState
    <3>3. CASE "start" \notin cmd /\ "arm" \in cmd
      BY <1>2, <2>1, <2>2, <2>7, <3>1, <3>3 DEF DoneEdge, Capture!Edge, ReaderState
    <3>4. CASE "start" \notin cmd /\ "arm" \notin cmd
      <4>1. Capture!Move("DONE")
        BY <2>3, <2>4, <2>7, <3>1, <3>4 DEF DoneEdge, captured
      <4> QED BY <1>2, <3>1, <3>4, <4>1 DEF Capture!Edge, ReaderState
    <3> QED BY <3>2, <3>3, <3>4
  <2>8. CASE ReadoutEdge(cmd)
    <3>1. state = "READOUT" /\ ReaderState = "READOUT" /\ ~active_capture /\ captured
      BY <2>8 DEF ReadoutEdge, ReaderState, active_capture, captured
    <3>2. CASE "done" \in cmd
      <4>1. Capture!Move("DONE")
        BY <2>3, <2>8, <3>1, <3>2 DEF ReadoutEdge, captured, memory
      <4> QED BY <1>2, <3>1, <3>2, <4>1 DEF Capture!Edge, ReaderState
    <3>3. CASE "done" \notin cmd
      <4>1. Capture!Move("READOUT")
        BY <2>3, <2>8, <3>1, <3>3 DEF ReadoutEdge, captured, memory
      <4> QED BY <1>2, <3>1, <3>3, <4>1 DEF Capture!Edge, ReaderState
    <3> QED BY <3>2, <3>3
  <2>9. CASE ArmedEdge(cmd, bus) \/ CapturingEdge(cmd, bus)
    <3>1. active_capture /\ ReaderState = "ACTIVE"
      BY <2>9 DEF ArmedEdge, CapturingEdge, ReaderState, active_capture
    <3>2. /\ state' \in {"ARMED", "CAPTURING", "DONE"}
          /\ samples_written' \in {samples_written, samples_written + 1}
          /\ capture_id' = capture_id
      BY <2>4, <2>9, <3>1 DEF ArmedEdge, CapturingEdge, Stop, finish_capture, ForceTrigger,
         Hit, PreSample, PreCount, PostSample, FillWindow, active_capture
    <3> QED BY <1>2, <3>1, <3>2, ActiveRefines DEF Capture!Edge, ReaderState
  <2> QED BY <1>2, <2>5, <2>6, <2>7, <2>8, <2>9 DEF Edge
<1> QED BY <1>1, <1>2

(* The core implements the capture its reader relies on: the window        *)
(* appears when a capture ends and stands still until it is cleared or     *)
(* armed over, whatever registers are written (la_core 120-284).           *)
THEOREM CoreImplementsCapture == Spec => CoreIsCapture
<1>1. Init => Capture!Init
  BY DEF Init, Capture!Init, active_capture, captured
<1>2. ASSUME CoreInv, CoreInv', [Next]_vars
      PROVE  [Capture!Next]_(Capture!captureVars)
  <2>1. CASE Clock
    <3>1. PICK cmd \in Commands, bus \in 0 .. 1 : Edge(cmd, bus)
      BY <2>1 DEF Clock
    <3>2. Capture!Edge(cmd)
      BY <1>2, <3>1, EdgeRefines
    <3>3. Capture!Edge(cmd \cap {"off", "arm", "start", "done"})
      BY <3>2 DEF Capture!Edge
    <3> QED BY <3>3 DEF Capture!Next
  <2>2. CASE ConfigWrite \/ UNCHANGED vars
    <3>1. UNCHANGED <<state, samples_written, capture_id, capture_flags,
                      read_start_ptr, buffer>>
      BY <2>2 DEF ConfigWrite, vars, coreVars, control, memory
    <3>2. Window' = Window /\ ReaderState' = ReaderState /\ Triggered' = Triggered
      BY <3>1, WindowStands DEF captured, ReaderState, active_capture, Triggered
    <3> QED BY <3>1, <3>2 DEF Capture!captureVars, Window, ReaderState, Triggered
  <2> QED BY <1>2, <2>1, <2>2 DEF Next
<1> QED BY <1>1, <1>2, CoreInvariant, PTL DEF Spec, CoreIsCapture, Capture!Spec
=============================================================================
