----------------------------- MODULE RenderLoop -----------------------------
(***************************************************************************)
(* How the Web viewer keeps its panels up to date (requestRender,          *)
(* flushRender, renderAll, setPaused, clearAll and the handlers that call  *)
(* them, src/tools/viewer/web/app.js).  Of the data a panel draws only one *)
(* thing is kept: whether it changed after the panel was drawn.            *)
(***************************************************************************)
EXTENDS Naturals, FiniteSets

CONSTANTS MAX_FRAMES_DUE,  \* bound: animation-frame callbacks waiting
          MAX_WRITES       \* bound: monitor requests being written

ASSUME RenderAssumption == MAX_FRAMES_DUE \in Nat \ {0} /\ MAX_WRITES \in Nat

\* One name for each render function.  Two things the logic-analyzer panel shows
\* are parts of their own, for what changes them does not ask for the panel at
\* once: a capture header, and the sample period that was configured, which is
\* shown while there is no header.
Panels == {"counters", "log", "watch", "events", "status", "trace", "monitor",
           "profiler", "la"}
OfLa   == {"laHeader", "laPeriod"}
Parts  == Panels \cup OfLa
PanelOf(p) == IF p \in OfLa THEN "la" ELSE p

VARIABLES
    stale,      \* parts whose data changed after they were drawn
    asked,      \* state.render.pending
    scheduled,  \* state.render.scheduled
    due,        \* flushRender callbacks the browser still has to call
    paused,     \* state.paused
    writing,    \* monitor requests in the pending map that are not written yet
    applying    \* runs of applyLogicAnalyzerConfig, each writing one of them

renderVars == <<stale, asked, scheduled, due, paused, writing, applying>>

TypeOK ==
    /\ stale \subseteq Parts /\ asked \subseteq Panels
    /\ scheduled \in BOOLEAN /\ paused \in BOOLEAN
    /\ due \in 0..MAX_FRAMES_DUE /\ writing \in 0..MAX_WRITES
    /\ applying \in 0..writing

\* The page starts with clearAll, which draws everything.
InitRender ==
    /\ stale = {} /\ asked = {} /\ scheduled = FALSE /\ due = 0
    /\ paused = FALSE /\ writing = 0 /\ applying = 0

-----------------------------------------------------------------------------
(* Decoding: which data each kind of frame changes, and which panels it     *)
(* asks for.  Every frame is counted and every chunk of bytes ends with a   *)
(* request for the counters.                                                *)

\* What changes besides the counters
Changes ==
    [none       |-> {},   \* bytes that hold no frame, or a short payload
     heartbeat  |-> {"log", "status"},
     print      |-> {"log"},
     event      |-> {"events", "log"},
     watch      |-> {"watch", "log"},
     status     |-> {"status", "log"},
     trace      |-> {"trace", "log"},
     response   |-> {"monitor", "log"},
     reserved   |-> {"monitor"},
     profiler   |-> {"profiler", "log"},
     la_header  |-> {"laHeader", "log"},
     la         |-> {"la", "log"},
     la_overlap |-> {"la"},
     unknown    |-> {"log"}]

Kinds == DOMAIN Changes

\* What the handlers ask for.  A header does not ask for the panel it changes.
Asks ==
    [none       |-> {},
     heartbeat  |-> {"log", "status"},
     print      |-> {"log"},
     event      |-> {"events", "log"},
     watch      |-> {"watch", "log"},
     status     |-> {"log", "status"},
     trace      |-> {"log", "trace"},
     response   |-> {"log", "monitor"},
     reserved   |-> {"monitor"},
     profiler   |-> {"log", "profiler"},
     la_header  |-> {"log"},
     la         |-> {"log", "la"},
     la_overlap |-> {"la"},
     unknown    |-> {"log"}]

Asked(kind) == Asks[kind] \cup {"counters"}

-----------------------------------------------------------------------------
(* Requests *)

\* requestRender of each panel of ps, where data of the parts cs has changed
requestRender(cs, ps) ==
    /\ stale' = stale \cup cs
    /\ IF paused \/ ps = {}
       THEN UNCHANGED <<asked, scheduled, due>>
       ELSE /\ asked' = asked \cup ps
            /\ scheduled' = TRUE
            /\ due' = IF scheduled THEN due ELSE due + 1

\* Mutant: the flag that a callback is due stays set.
DoneScheduling_Stays == UNCHANGED scheduled

DoneScheduling == scheduled' = FALSE

\* The browser calls flushRender, whether or not the page is paused.
flushRender ==
    /\ due > 0
    /\ due' = due - 1
    /\ stale' = {p \in stale : PanelOf(p) \notin asked}
    /\ asked' = {} /\ DoneScheduling
    /\ UNCHANGED <<paused, writing, applying>>

\* Mutant: resuming does not draw.
DrawnOnResume_No == {}

\* What setPaused draws when it resumes: renderAll
DrawnOnResume == Parts

setPaused ==
    /\ paused' = ~paused
    /\ stale' = IF paused THEN stale \ DrawnOnResume ELSE stale
    /\ UNCHANGED <<asked, scheduled, due, writing, applying>>

\* clearAll forgets the callback that is due: the next request adds another,
\* and the first of them to run draws for both.
clearAll ==
    /\ stale' = {} /\ asked' = {} /\ scheduled' = FALSE
    /\ UNCHANGED <<due, paused, writing, applying>>

-----------------------------------------------------------------------------
(* Handlers *)

\* A request made now keeps to the bound on callbacks.
Room == scheduled \/ paused \/ due < MAX_FRAMES_DUE

\* parseAvailableFrames with one frame; a chunk of many is many such steps.
ReceiveFrame ==
    /\ Room
    /\ \E kind \in Kinds : requestRender(Changes[kind] \cup {"counters"}, Asked(kind))
    /\ UNCHANGED <<paused, writing, applying>>

\* SESSION records, replayed files and the end of the serial stream are logged.
LogLine ==
    /\ Room /\ requestRender({"log"}, {"log"}) /\ UNCHANGED <<paused, writing, applying>>

\* monitorRead and monitorWrite: the request is pending, which the panel
\* shows, from here on; the panel is asked for when the bytes are written.
MonitorRequest ==
    /\ writing < MAX_WRITES
    /\ writing' = writing + 1
    /\ stale' = stale \cup {"monitor"}
    /\ UNCHANGED <<asked, scheduled, due, paused, applying>>

\* What the end of a write asks for, ps besides: the bytes are written, or
\* addMonitorError was called.
AskAfterWrite(cs, ps) ==
    \/ requestRender({"log"} \cup cs, {"log", "monitor"} \cup ps)
    \/ requestRender({"monitor"} \cup cs, {"monitor"} \cup ps)

MonitorWritten ==
    /\ Room /\ writing > applying
    /\ writing' = writing - 1
    /\ AskAfterWrite({}, {})
    /\ UNCHANGED <<paused, applying>>

\* applyLogicAnalyzerConfig changes the configured period and makes the first
\* of its monitor requests.
StartApplying ==
    /\ writing < MAX_WRITES
    /\ writing' = writing + 1 /\ applying' = applying + 1
    /\ stale' = stale \cup {"monitor", "laPeriod"}
    /\ UNCHANGED <<asked, scheduled, due, paused>>

\* One of its requests is written and it makes the next.  How many it makes is
\* left out.
GoOnApplying ==
    /\ Room /\ applying > 0
    /\ AskAfterWrite({"monitor"}, {})
    /\ UNCHANGED <<paused, writing, applying>>

\* Its last request is written, and it asks for the panel.
EndApplying ==
    /\ Room /\ applying > 0
    /\ writing' = writing - 1 /\ applying' = applying - 1
    /\ AskAfterWrite({}, {"la"})
    /\ UNCHANGED paused

expirePending ==
    /\ Room /\ requestRender({"monitor"}, {"monitor"}) /\ UNCHANGED <<paused, writing, applying>>

\* Zoom, cursors and channel boxes
ChangeViewport ==
    /\ Room /\ requestRender({"la"}, {"la"}) /\ UNCHANGED <<paused, writing, applying>>

\* Filters of the trace and profiler panels draw at once, paused or not.
ChangeFilter ==
    /\ \E panel \in {"trace", "profiler"} : stale' = stale \ {panel}
    /\ UNCHANGED <<asked, scheduled, due, paused, writing, applying>>

NextRender ==
    \/ ReceiveFrame \/ LogLine \/ MonitorRequest \/ MonitorWritten
    \/ StartApplying \/ GoOnApplying \/ EndApplying
    \/ expirePending \/ ChangeViewport \/ ChangeFilter
    \/ flushRender \/ setPaused \/ clearAll

SpecRender == InitRender /\ [][NextRender]_renderVars

\* The browser calls the callbacks it was given, as long as the page is visible,
\* and the few writes of a configuration end, well or badly.
FairRender == SpecRender /\ WF_renderVars(flushRender) /\ WF_renderVars(EndApplying)

-----------------------------------------------------------------------------
(* Properties *)

\* What may be out of date without a request: the monitor panel while a request
\* is being written, the configured period until the configuration is written,
\* and the header of a capture.
Excused(p) ==
    \/ p = "laHeader"
    \/ p = "laPeriod" /\ applying > 0
    \/ p = "monitor" /\ writing > 0

\* On a page that is not paused, whatever changed after its panel was drawn is
\* waiting for a flush that the browser has been asked for: no order of frames,
\* clears, pauses and flushes leaves a panel showing old data.
NothingStale ==
    /\ scheduled => due > 0
    /\ asked # {} => scheduled
    /\ ~paused => \A p \in stale : PanelOf(p) \in asked \/ Excused(p)

\* Again and again everything is drawn, what is excused for ever apart, unless
\* the user pauses the page; resuming draws it.
Fresh == []<>(paused \/ stale \subseteq {"monitor", "laHeader"})
=============================================================================
