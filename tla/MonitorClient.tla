---------------------------- MODULE MonitorClient ----------------------------
(***************************************************************************)
(* The Monitor of the Web viewer (src/tools/viewer/web/app.js): requests    *)
(* numbered by a sequence number and kept in a pending table until their    *)
(* response or their timeout, a chain of promises that writes them to the   *)
(* serial port one at a time, periodic polling, the writes of a whole       *)
(* logic-analyzer configuration, and the registers of the device at the     *)
(* other end, which also change by themselves.                              *)
(*                                                                          *)
(* A request carries a tag the code does not have: the number of requests   *)
(* made since the last clear, modulo SEQ_MAX, or NONE if it is older.       *)
(***************************************************************************)
EXTENDS RegisterBank, Null, Sequences, SequencesExt

CONSTANTS ConfigOrder,  \* the registers of a configuration, in the order written
          Configs,      \* configurations the user applies
          DefaultConfig,
          UserReads,    \* registers the user reads by hand
          UserWrites,   \* registers, values and masks the user writes by hand
          UNDERWAY,     \* bound on the requests under way
          SEQ_MAX,      \* largest sequence number (16 bits in the code)
          MAX_OLD,      \* bound on the requests queued or on the line when Clear is clicked
          MAX_BLIND,    \* bound on the registers of which a write response was lost
          APPLIERS      \* applications of a configuration under way at once

ConfigRegs == {ConfigOrder[i] : i \in DOMAIN ConfigOrder}

\* A configuration has plain registers, each once, and a value whose range
\* depends on the capture depth comes after it.
ASSUME MonitorAssumption ==
    /\ SEQ_MAX \in Nat \ {0} /\ APPLIERS \in Nat \ {0}
    /\ ConfigOrder \in Seq(Addr) \ {<<>>} /\ IsInjective(ConfigOrder)
    /\ ConfigRegs \subseteq Writable \ (W1C \cup Trigger)
    /\ \A a \in ConfigRegs : Live[a] = {}
    /\ CAPTURE_DEPTH \in ConfigRegs
    /\ \A i \in DOMAIN ConfigOrder, v, d, e \in Value :
          <<ConfigOrder[i], v, d>> \in BadValues =>
             \/ <<ConfigOrder[i], v, e>> \in BadValues
             \/ \E j \in DOMAIN ConfigOrder : j < i /\ ConfigOrder[j] = CAPTURE_DEPTH
    /\ Configs \subseteq [ConfigRegs -> Value] /\ DefaultConfig \in [ConfigRegs -> Value]
    /\ UserReads \subseteq Addr /\ UserWrites \subseteq Addr \X Value \X Value
    /\ \A x \in Value \cup Configs \cup {DefaultConfig} : x # NONE

VARIABLES
    seq,      \* state.monitor.seq
    issued,   \* history: requests made since the last clear, modulo SEQ_MAX
    pending,  \* state.monitor.pending, in order of insertion
    values,   \* state.monitor.values
    config,   \* state.logicAnalyzer.config
    own,      \* the configuration that each application still writes from an
              \* object that Clear has replaced since; NONE: the present one
    steps,    \* writes that each applyLogicAnalyzerConfig has issued; 0: none runs
    queue,    \* requests the promise chain has not written yet
    line,     \* responses on the serial line
    device,   \* registers of the device
    mismatch, \* history: has a response settled another request?
    blind,    \* history: registers of which a write response was lost
    applied   \* history: the last application of a configuration; NONE when a
              \* register of it was written by hand since, or a write of it failed

viewer      == <<seq, issued, pending, values, config, own, steps, queue>>
monitorVars   == <<viewer, line, device, mismatch, blind, applied>>

TagsOf(s) == {s[i].tag : i \in DOMAIN s}
UnderWay  == TagsOf(queue) \cup TagsOf(pending) \cup TagsOf(line)
Seqs(s)   == {s[i].seq : i \in DOMAIN s}

InitMonitor ==
    /\ seq = 1 /\ issued = 0 /\ pending = <<>> /\ queue = <<>> /\ line = <<>>
    /\ values = [a \in Addr |-> NONE]
    /\ config = DefaultConfig /\ own = [p \in 1..APPLIERS |-> NONE]
    /\ steps = [p \in 1..APPLIERS |-> 0]
    /\ device = ResetBank
    /\ mismatch = FALSE /\ blind = {} /\ applied = NONE

-----------------------------------------------------------------------------
(* Issuing requests.  v collects what a handler does to seq, pending and    *)
(* queue: a handler may issue several requests.                             *)

nextMonitorSeq(s) == IF s = SEQ_MAX THEN 1 ELSE s + 1

Client == [seq |-> seq, issued |-> issued, pending |-> pending, queue |-> queue]

\* A request is over before SEQ_MAX others are made: 65535 requests take longer
\* than a timeout or an answer does.
WrapIsFar(v) == v.issued \notin UnderWay

\* One place is left for the writes that a running configuration issues; a round
\* of polling may be longer than the bound.
CanIssue(n) == UnderWay = {} \/ Cardinality(UnderWay) + n < UNDERWAY

trackMonitorPending(entries, r) ==
    LET same == {i \in DOMAIN entries : entries[i].seq = r.seq}
    IN IF same = {} THEN Append(entries, r)
       ELSE [i \in DOMAIN entries |-> IF i \in same THEN r ELSE entries[i]]

\* encodeMonitorRead or encodeMonitorWrite, then sendMonitorBytes; a read has no
\* value and no mask.
Issue(v, op, addr, value, mask, by) ==
    [seq     |-> nextMonitorSeq(v.seq),
     issued  |-> (v.issued + 1) % SEQ_MAX,
     pending |-> trackMonitorPending(v.pending, [tag |-> v.issued, seq |-> v.seq]),
     queue   |-> Append(v.queue, [tag |-> v.issued, seq |-> v.seq, op |-> op,
                                  addr |-> addr, value |-> value, mask |-> mask, by |-> by])]

Commit(v) == seq' = v.seq /\ issued' = v.issued /\ pending' = v.pending /\ queue' = v.queue

monitorRead(addr) ==
    /\ CanIssue(1) /\ WrapIsFar(Client)
    /\ Commit(Issue(Client, "read", addr, {}, {}, 0))
    /\ UNCHANGED <<values, config, own, steps, line, device, mismatch, blind, applied>>

monitorWrite(addr, value, mask) ==
    /\ CanIssue(1) /\ WrapIsFar(Client)
    /\ Commit(Issue(Client, "write", addr, value, mask, 0))
    /\ applied' = IF addr \in ConfigRegs THEN NONE ELSE applied
    /\ UNCHANGED <<values, config, own, steps, line, device, mismatch, blind>>

\* The interval handler starts a round only when nothing is pending; whether
\* polling is enabled is the user's choice at any time.
MayPoll == pending = <<>>

Addresses == SetToSeq(Addr)

monitorReadAll(v) == FoldLeft(LAMBDA w, a : Issue(w, "read", a, {}, {}, 0), v, Addresses)

WrapIsFarForAll ==
    \A n \in 0..(Cardinality(Addr) - 1) : WrapIsFar([Client EXCEPT !.issued = (@ + n) % SEQ_MAX])

Poll ==
    /\ MayPoll
    /\ CanIssue(Cardinality(Addr)) /\ WrapIsFarForAll
    /\ Commit(monitorReadAll(Client))
    /\ UNCHANGED <<values, config, own, steps, line, device, mismatch, blind, applied>>

\* applyLogicAnalyzerConfig up to its first await.  It fills in the present
\* configuration, which an application that is running may be writing as well, and
\* takes the first number that no other has.
applyLogicAnalyzerConfig(p, value) ==
    /\ steps[p] = 0 /\ \A q \in 1..p - 1 : steps[q] # 0
    /\ CanIssue(1) /\ WrapIsFar(Client)
    /\ config' = value
    /\ Commit(Issue(Client, "write", ConfigOrder[1], value[ConfigOrder[1]], Bit, p))
    /\ steps' = [steps EXCEPT ![p] = 1]
    /\ applied' = [by |-> p, config |-> value]
    /\ UNCHANGED <<values, own, line, device, mismatch, blind>>

-----------------------------------------------------------------------------
(* The promise chain: sendMonitorBytesNow for the request at its head.     *)

Resumes(p) == p # 0 /\ steps[p] < Len(ConfigOrder)

\* Mutant: a running application writes the configuration that Clear has made.
ConfigFor_Present(p) == config

ConfigFor(p) == IF own[p] = NONE THEN config ELSE own[p]

\* The await of monitorWrite ends, and the next write of the configuration is
\* issued before anything else can run.
Resume(v, p) ==
    IF Resumes(p)
    THEN LET a == ConfigOrder[steps[p] + 1] IN Issue(v, "write", a, ConfigFor(p)[a], Bit, p)
    ELSE v

Done(p) ==
    /\ steps' = IF p = 0 THEN steps
                ELSE [steps EXCEPT ![p] = IF Resumes(p) THEN @ + 1 ELSE 0]
    /\ own' = IF p = 0 \/ Resumes(p) THEN own ELSE [own EXCEPT ![p] = NONE]

\* Mutant: each write starts when it is asked for, so that any may be first.
Turn_Any == DOMAIN queue

Turn == IF queue = <<>> THEN {} ELSE {1}

\* The device serves requests in the order they are written; when it does so is
\* seen only through its responses, so that it serves a request when written.
Serve(r) ==
    /\ device' = BankAfter(device, r)
    /\ line' = Append(line, [tag |-> r.tag, seq |-> r.seq, addr |-> r.addr, op |-> r.op,
                            ok |-> Accepts(device, r), value |-> AnswerTo(device, r)])

SendMonitorBytesNow(i, served) ==
    LET r == queue[i]
        v == [Client EXCEPT !.queue = RemoveAt(queue, i)]
    IN /\ Resumes(r.by) => Cardinality(UnderWay) < UNDERWAY /\ WrapIsFar(v)
       /\ Commit(Resume(v, r.by))
       /\ Done(r.by)
       /\ IF served THEN Serve(r) ELSE UNCHANGED <<line, device>>
       /\ applied' = IF ~served /\ applied # NONE /\ r.by = applied.by THEN NONE ELSE applied
       /\ UNCHANGED <<values, config, mismatch, blind>>

Written == \E i \in Turn : SendMonitorBytesNow(i, TRUE)

\* No port, a JTAG source, a write that fails, or one that the line garbles: an
\* error at most, and the chain goes on.
WriteFails == \E i \in Turn : SendMonitorBytesNow(i, FALSE)

-----------------------------------------------------------------------------
(* Timeouts and responses *)

\* pending.delete, for each of the requests that are gone
Without(entries, gone) ==
    FoldLeft(LAMBDA kept, e : IF e \in gone THEN kept ELSE Append(kept, e), <<>>, entries)

\* Mutant: the oldest request never expires.
Expirable_Later == DOMAIN pending \ {1}

Expirable == DOMAIN pending

\* expireMonitorPending: all the requests made before some moment, those included
\* that the chain has not written yet
expireMonitorPending ==
    \E n \in 1..Len(pending) :
        LET old == {i \in Expirable : i <= n}
        IN /\ old # {}
           /\ pending' = Without(pending, {pending[i] : i \in old})
           /\ UNCHANGED <<seq, issued, values, config, own, steps, queue, line, device,
                          mismatch, blind, applied>>

\* Mutant: a response is taken for the oldest request.
Matching_Oldest(r) == IF pending = <<>> THEN {} ELSE {1}

\* pending.get(seq)
Matching(r) == {i \in DOMAIN pending : pending[i].seq = r.seq}

\* Mutant: the value is shown only for a request that is still pending.
Shows_Known(r) == r.ok /\ Matching(r) # {}

Shows(r) == r.ok

\* decodeMonitorReadResponse, decodeMonitorWriteResponse
Response ==
    /\ line # <<>>
    /\ LET r    == Head(line)
           gone == {pending[i] : i \in Matching(r)}
       IN /\ pending' = Without(pending, gone)
          /\ mismatch' = (mismatch \/ (r.tag # NONE /\ \E e \in gone : e.tag # r.tag))
          /\ values' = IF Shows(r) THEN [values EXCEPT ![r.addr] = r.value] ELSE values
          /\ blind' = IF r.ok THEN blind \ {r.addr} ELSE blind
    /\ line' = Tail(line)
    /\ UNCHANGED <<seq, issued, config, own, steps, queue, device, applied>>

-----------------------------------------------------------------------------
(* The line loses responses, registers change by themselves; clear. *)

ResponseLost ==
    /\ line # <<>>
    /\ line' = Tail(line)
    /\ blind' = IF Head(line).op = "write" THEN blind \cup {Head(line).addr} ELSE blind
    /\ Cardinality(blind') <= MAX_BLIND
    /\ UNCHANGED <<viewer, device, mismatch, applied>>

DeviceChanges ==
    /\ \E a \in Addr, v \in Value :
          /\ v # device[a] /\ Drifts(a, device[a], v)
          /\ device' = [device EXCEPT ![a] = v]
    /\ UNCHANGED <<viewer, line, mismatch, blind, applied>>

Aged(s) == [i \in DOMAIN s |-> [s[i] EXCEPT !.tag = NONE]]

\* clearAll makes a new monitor state and a new configuration; what is queued or
\* on the line goes on, and so do the applications, with the configuration that
\* was there before.
clearAllRequests ==
    /\ Len(queue) + Len(line) <= MAX_OLD
    /\ seq' = 1 /\ issued' = 0 /\ pending' = <<>>
    /\ values' = [a \in Addr |-> NONE]
    /\ queue' = Aged(queue) /\ line' = Aged(line)
    /\ config' = DefaultConfig
    /\ own' = [p \in 1..APPLIERS |-> IF steps[p] = 0 THEN NONE ELSE ConfigFor(p)]
    /\ UNCHANGED <<steps, device, mismatch, blind, applied>>

NextMonitor ==
    \/ \E a \in UserReads : monitorRead(a)
    \/ \E w \in UserWrites : monitorWrite(w[1], w[2], w[3])
    \/ \E p \in 1..APPLIERS, x \in Configs : applyLogicAnalyzerConfig(p, x)
    \/ Poll \/ Written \/ WriteFails \/ expireMonitorPending
    \/ Response \/ ResponseLost \/ DeviceChanges \/ clearAllRequests

SpecMonitor == InitMonitor /\ [][NextMonitor]_monitorVars

\* The interval timer runs.
FairMonitor == SpecMonitor /\ WF_monitorVars(expireMonitorPending)

-----------------------------------------------------------------------------
(* Properties *)

\* A response to a request made since the last Clear settles that request and
\* no other, after timeouts, losses, failed writes and wraps of the sequence
\* number.  Clear numbers from 1 again and does not recall what is under way, so
\* that an older response may settle a newer request.
AnswersMatch == ~mismatch

\* What is shown of a register is what the device holds, but for what the register
\* did by itself since, as soon as no response to a write of it is on its way or
\* was lost: late responses count, a rejected write shows nothing, and a write that
\* is not stored as it was asked for is shown as it was stored.
ShownIsDevice ==
    \A a \in Addr :
        \/ values[a] = NONE
        \/ Drifts(a, values[a], device[a])
        \/ a \in blind
        \/ \E i \in DOMAIN line : line[i].addr = a /\ line[i].op = "write"

\* The device takes each value of a configuration that it is given whole.
Takeable(c) == \A a \in ConfigRegs : <<a, c[a], c[CAPTURE_DEPTH]>> \notin BadValues

\* However many configurations are applied at once, and whatever Clear replaces
\* meanwhile, the device ends with the one that was applied last, whole, if it can
\* take it, no write of it failed and none by hand came after it.
LastConfigWins ==
    (applied # NONE /\ steps[applied.by] = 0 /\ Takeable(applied.config))
    => \A a \in ConfigRegs : device[a] = applied.config[a]

\* Every request is settled, by its response or by its timeout, whatever the port
\* and the line do: the request numbered 1, and numbers are used in turn.
EveryRequestSettles == (1 \in Seqs(pending)) ~> (1 \notin Seqs(pending))
=============================================================================
