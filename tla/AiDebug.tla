------------------------------ MODULE AiDebug ------------------------------
(***************************************************************************)
(* The AI debug panel of the Web viewer: the model of the page             *)
(* (ai_debug_model.js), which waits for snapshots and for answers while    *)
(* the user goes on clicking, and the controller of provider requests      *)
(* (AnalysisController, ai_provider.js).  A step is what runs between two  *)
(* turns of the event loop: a continuation that only waits for promises    *)
(* already settled belongs to the step that settles them.                  *)
(***************************************************************************)
EXTENDS Diagnosis

CONSTANTS Pages,       \* data the page may hold
          EmptyPage,   \* what clearAll leaves
          RETRIES,     \* retries of a request
          MAX_CLICKS,  \* bound: clicks on Run Local Analysis and Ask AI
          MAX_CLEARS   \* bound: clears of the page

ASSUME AiDebugAssumption ==
    /\ RETRIES \in Nat /\ MAX_CLICKS \in Nat /\ MAX_CLEARS \in Nat
    /\ Pages \cup {EmptyPage} \subseteq PageData
    /\ NONE \notin {build(p, scope) : p \in Pages \cup {EmptyPage}, scope \in {"session", "la_capture"}}

VARIABLES
    page,     \* the viewer's state, as far as snapshots read it
    ui,       \* AIDebugModel.state; epoch tells the objects clearAll makes apart
    consent,  \* the consent box
    builds,   \* snapshots being built, each with what waits for it
    ctl,      \* AnalysisController: its generation and the status of its state
    runs,     \* requests under way
    clicks    \* clicks so far

panelVars == <<page, ui, consent, builds, ctl, runs, clicks>>

Blank(epoch, scope) ==
    [epoch |-> epoch, status |-> "idle", scope |-> scope,
     snapshot |-> NONE, rules |-> NONE, diag |-> NONE]

InitPanel ==
    /\ page = EmptyPage /\ ui = Blank(0, "session") /\ consent = FALSE
    /\ builds = {} /\ runs = {} /\ clicks = 0
    /\ ctl = [gen |-> 0, status |-> "idle"]

-----------------------------------------------------------------------------
(* Requests.  An abort ends a request whose provider listens to the signal; *)
(* every provider of the repository does, and the generation is there for   *)
(* one that does not.                                                       *)

Ends(r) == r.heeds /\ r.gen = ctl.gen

\* askAI with the result of a request that did not complete
Unanswered(u, status) == [u EXCEPT !.status = status, !.diag = NONE]

\* AnalysisController.cancel and, of a request it ends, what follows
Cancelled(u) == IF \E r \in runs : Ends(r) THEN Unanswered(u, "cancelled") ELSE u

cancel ==
    /\ runs' = {r \in runs : ~Ends(r)}
    /\ ctl' = IF ctl.status = "running" THEN [ctl EXCEPT !.status = "cancelled"] ELSE ctl

\* AnalysisController.run up to the provider, with the page in state u.  The
\* request it replaces, if aborted, reports itself stale after it.
Start(u) ==
    \E heeds \in BOOLEAN :
        /\ ctl' = [gen |-> ctl.gen + 1, status |-> "running"]
        /\ runs' = {r \in runs : ~Ends(r)} \cup
               {[gen |-> ctl.gen + 1, heeds |-> heeds, attempt |-> 0, timer |-> TRUE,
                 snapshot |-> u.snapshot, sent |-> buildContext(u.snapshot, u.rules)]}
        /\ ui' = IF \E r \in runs : Ends(r)
                 THEN Unanswered(u, "stale") ELSE [u EXCEPT !.status = "running"]

-----------------------------------------------------------------------------
(* Local analysis *)

\* buildSnapshot reads the page at once and waits for the digest only.
Build(ask) ==
    /\ clicks < MAX_CLICKS /\ clicks' = clicks + 1
    /\ builds' = builds \cup {[n |-> clicks, ask |-> ask, epoch |-> ui.epoch,
                               snapshot |-> build(page, ui.scope)]}
    /\ ui' = [ui EXCEPT !.status = "building_snapshot"]
    /\ UNCHANGED <<page, consent, ctl, runs>>

ClickLocal == Build(FALSE)

\* The snapshot goes to the state object of the click, which a clear has replaced.
Assigned(b) == IF b.epoch = ui.epoch THEN [ui EXCEPT !.snapshot = b.snapshot] ELSE ui

\* Mutant: the old findings stay.
Analysed_Keeps(u) == [u EXCEPT !.rules = IF @ = NONE THEN evaluate(u.snapshot) ELSE @,
                               !.diag = NONE, !.status = "local_complete"]

Analysed(u) == [u EXCEPT !.rules = evaluate(u.snapshot), !.diag = NONE, !.status = "local_complete"]

\* evaluate throws: there is no snapshot, or it is one the rules refuse.
Refused(u) == IF u.snapshot = NONE THEN TRUE ELSE HasDuplicates(u.snapshot)

\* runLocal goes on, and askAI after it, unless the rules throw.
BuildDone ==
    \E b \in builds :
        LET u == Assigned(b)
        IN /\ builds' = builds \ {b}
           /\ \/ /\ Refused(u)
                 /\ ui' = [u EXCEPT !.status = "local_analyzing"]
                 /\ UNCHANGED <<ctl, runs>>
              \/ /\ ~Refused(u) /\ ~b.ask
                 /\ ui' = Analysed(u)
                 /\ UNCHANGED <<ctl, runs>>
              \/ /\ ~Refused(u) /\ b.ask
                 /\ Start(Analysed(u))
           /\ UNCHANGED <<page, consent, clicks>>

-----------------------------------------------------------------------------
(* Asking the provider *)

ClickAskWithoutConsent ==
    /\ ~consent /\ ui.status # "awaiting_consent"
    /\ ui' = [ui EXCEPT !.status = "awaiting_consent"]
    /\ UNCHANGED <<page, consent, builds, ctl, runs, clicks>>

ClickAskFirst == consent /\ ui.rules = NONE /\ Build(TRUE)

ClickAsk ==
    /\ consent /\ ui.rules # NONE
    /\ clicks < MAX_CLICKS /\ clicks' = clicks + 1
    /\ Start(ui)
    /\ UNCHANGED <<page, consent, builds>>

\* Mutant: an answer counts whatever request it answers.
Current_Any(r) == TRUE

Current(r) == r.gen = ctl.gen

Answer(r, raw) ==
    /\ runs' = runs \ {r}
    /\ \/ /\ ~Current(r)
          /\ ui' = Unanswered(ui, "stale") /\ UNCHANGED ctl
       \/ /\ Current(r) /\ validate(raw, r.sent.evidence)
          /\ ui' = [ui EXCEPT !.status = "completed",
                              !.diag = [gen |-> r.gen, cites |-> raw.cites, snapshot |-> r.snapshot]]
          /\ ctl' = [ctl EXCEPT !.status = "completed"]
       \/ /\ Current(r) /\ ~validate(raw, r.sent.evidence)
          /\ ui' = Unanswered(ui, "failed")
          /\ ctl' = [ctl EXCEPT !.status = "failed"]

\* An answer cites at most one item of what it may have heard of.
ProviderAnswers ==
    \E r \in runs :
        /\ \E cites \in {{}} \cup {{item} : item \in EvidenceOf(r.snapshot)} :
               Answer(r, [formed |-> TRUE, cites |-> cites])
        /\ UNCHANGED <<page, consent, builds, clicks>>

ProviderAnswersBadly ==
    \E r \in runs :
        /\ Answer(r, [formed |-> FALSE, cites |-> {}])
        /\ UNCHANGED <<page, consent, builds, clicks>>

ProviderFails ==
    \E r \in runs, retryable \in BOOLEAN :
        /\ \/ /\ retryable /\ r.attempt < RETRIES
              /\ runs' = (runs \ {r}) \cup {[r EXCEPT !.attempt = @ + 1]}
              /\ UNCHANGED <<ui, ctl>>
           \/ /\ ~retryable \/ r.attempt = RETRIES
              /\ runs' = runs \ {r}
              /\ \/ r.gen # ctl.gen /\ ui' = Unanswered(ui, "stale") /\ UNCHANGED ctl
                 \/ /\ r.gen = ctl.gen
                    /\ ui' = Unanswered(ui, IF ctl.status = "cancelled" THEN "cancelled" ELSE "failed")
                    /\ ctl' = [ctl EXCEPT !.status = ui'.status]
        /\ UNCHANGED <<page, consent, builds, clicks>>

\* Mutant: the timer ends nothing.
TimedOut_None(r) == {}

\* The timer of a request aborts the controller of the latest one.
TimedOut(r) == {s \in runs : Ends(s)}

TimerFires ==
    \E r \in runs :
        /\ r.timer
        /\ runs' = {IF s = r THEN [s EXCEPT !.timer = FALSE] ELSE s : s \in runs \ TimedOut(r)}
        /\ \/ TimedOut(r) = {} /\ UNCHANGED <<ui, ctl>>
           \/ /\ TimedOut(r) # {}
              /\ ui' = Unanswered(ui, "failed")
              /\ ctl' = [ctl EXCEPT !.status = "failed"]
        /\ UNCHANGED <<page, consent, builds, clicks>>

ClickCancel ==
    /\ ui.status = "running"
    /\ cancel
    /\ ui' = Cancelled([ui EXCEPT !.status = "cancelled"])
    /\ UNCHANGED <<page, consent, builds, clicks>>

-----------------------------------------------------------------------------
(* The page *)

ChangeScope ==
    \E scope \in {"session", "la_capture"} \ {ui.scope} :
        /\ cancel
        /\ ui' = Cancelled(Blank(ui.epoch, scope))
        /\ UNCHANGED <<page, consent, builds, clicks>>

ToggleConsent ==
    /\ consent' = ~consent
    /\ UNCHANGED <<page, ui, builds, ctl, runs, clicks>>

\* Frames change what the page holds.
NewData ==
    /\ page' \in Pages
    /\ UNCHANGED <<ui, consent, builds, ctl, runs, clicks>>

\* clearAll, which ends with reset
Clear ==
    /\ ui.epoch < MAX_CLEARS
    /\ cancel
    /\ ui' = Cancelled(Blank(ui.epoch + 1, "session"))
    /\ page' = EmptyPage /\ consent' = FALSE
    /\ UNCHANGED <<builds, clicks>>

NextPanel ==
    \/ ClickLocal \/ ClickAskWithoutConsent \/ ClickAskFirst \/ ClickAsk \/ ClickCancel
    \/ BuildDone \/ ProviderAnswers \/ ProviderAnswersBadly \/ ProviderFails \/ TimerFires
    \/ ChangeScope \/ ToggleConsent \/ NewData \/ Clear

SpecPanel == InitPanel /\ [][NextPanel]_panelVars

\* Timers fire.
FairPanel == SpecPanel /\ WF_panelVars(TimerFires)

-----------------------------------------------------------------------------
(* Properties *)

\* The findings shown are those of the snapshot shown, however builds, clears
\* and scope changes overlap; only a snapshot the rules refuse leaves the
\* findings of the one before it.
FindingsOfSnapshot ==
    ui.rules # NONE =>
        /\ ui.snapshot # NONE
        /\ HasDuplicates(ui.snapshot) \/ ui.rules = evaluate(ui.snapshot)

\* What is sent holds every item its findings cite and nothing the snapshot has
\* not, never leaves a warning on the data out, and keeps to the budget but for
\* that; what is shown of the answer cites what was sent.
Grounded ==
    /\ \A r \in runs : ~HasDuplicates(r.snapshot) =>
          LET quality == {f \in evaluate(r.snapshot) : IsQuality(f)}
          IN /\ \A f \in r.sent.findings : f.cites # {} /\ f.cites \subseteq r.sent.evidence
             /\ r.sent.evidence \subseteq EvidenceOf(r.snapshot)
             /\ quality \subseteq r.sent.findings
             /\ Size(r.sent) > BUDGET =>
                  r.sent.findings = quality /\ r.sent.evidence = UNION {f.cites : f \in quality}
    /\ ui.diag # NONE =>
          ui.diag.cites \subseteq buildContext(ui.diag.snapshot, evaluate(ui.diag.snapshot)).evidence
             \/ HasDuplicates(ui.diag.snapshot)

\* The answer of a request that a newer one has replaced is never shown, though
\* the older answer may come last.
LateNeverShown ==
    [][ui'.diag # NONE /\ ui'.diag # ui.diag => ui'.diag.gen = ctl.gen]_panelVars

\* The page does not stay at "running" with a request whose provider listens.
RunSettles ==
    \A g \in 1..MAX_CLICKS :
        LET running == ui.status = "running" /\ \E r \in runs : r.gen = g /\ r.heeds
        IN running ~> ~running
=============================================================================
