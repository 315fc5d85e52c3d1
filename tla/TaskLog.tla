------------------------------ MODULE TaskLog -------------------------------
(***************************************************************************)
(* What the lifecycle engine reads out of a task's event log.  The code    *)
(* re-reads the whole JSONL file and folds it from the start each time;    *)
(* here every fold is kept up to date one event at a time: a view is the   *)
(* record of all the folds and Apply(v, e) the view after e is appended.   *)
(* Module TaskLogFold checks that the two agree, fold by fold.             *)
(*                                                                         *)
(* An event is a record with the fields a reader looks at.  "stage" and    *)
(* "to" are data.stage and data.to, NoStage when absent.                   *)
(***************************************************************************)
EXTENDS Stages, Naturals

CONSTANTS
  Actors,       \* the agents and the engine's own actor names
  Handles,      \* worker ids a runtime may return from start
  MergeHandle,  \* the marker id the integrate stage records for its merge
  NoHandle,
  Commits,      \* commits an audit verdict may be read from
  NoCommit

ASSUME DistinctIds ==
  /\ NoHandle \notin Handles \cup {MergeHandle}
  /\ MergeHandle \notin Handles
  /\ NoCommit \notin Commits
  /\ NoActor \notin Actors

HandleIds == Handles \cup {MergeHandle, NoHandle}

EventTypes ==
  {"stage_starting", "stage_started", "stage_start_unknown", "stage_failed",
   "decision", "enforcement", "audit_verdict", "stage_done",
   "human_decision", "reopen"}

NoRule     == "no rule"
EnforcementRules == {"R-RUN-LIMIT", "R-PATH-SCOPE"}
Verdicts   == {"pass", "fail"}
NoVerdict  == "no verdict"

Event ==
  [type:     EventTypes,
   actor:    Actors \cup {NoActor},
   stage:    KnownStages \cup {NoStage},
   to:       KnownStages \cup {NoStage},
   action:   {"pause", "resume", "stop", NoAction},
   handle:   HandleIds,
   rule:     EnforcementRules \cup {NoRule},
   verdict:  Verdicts \cup {NoVerdict},
   commit:   Commits \cup {NoCommit},
   anchored: BOOLEAN]

BlankEvent(type, stage) ==
  [type |-> type, actor |-> NoActor, stage |-> stage, to |-> NoStage,
   action |-> NoAction, handle |-> NoHandle, rule |-> NoRule,
   verdict |-> NoVerdict, commit |-> NoCommit, anchored |-> FALSE]

StartedEvent(stage, handle) ==
  [BlankEvent("stage_started", stage) EXCEPT !.handle = handle]

EnforcementEvent(stage, rule) ==
  [BlankEvent("enforcement", stage) EXCEPT !.rule = rule]

VerdictEvent(verdict, commit) ==
  [BlankEvent("audit_verdict", "audit") EXCEPT !.verdict = verdict, !.commit = commit]

DoneEvent(stage, to, actor, anchored) ==
  [BlankEvent("stage_done", stage)
     EXCEPT !.to = to, !.actor = actor, !.anchored = anchored]

-----------------------------------------------------------------------------
(* The start bookkeeping of one stage (openStage): the handle being        *)
(* polled, the refusal recorded against it, and whether a start was begun  *)
(* whose outcome nobody recorded.                                          *)
OpenStart ==
  [handle: HandleIds, enforcement: EnforcementRules \cup {NoRule}, starting: BOOLEAN]

NothingOpen == [handle |-> NoHandle, enforcement |-> NoRule, starting |-> FALSE]

View ==
  [state:     LifecycleState(Actors),
   open:      [STAGES -> OpenStart],
   fold:      KnownStages \cup {NoStage},
   starts:    Nat,
   diagnosed: [STAGES -> Nat],
   verdict:   Verdicts \cup {NoVerdict},
   consumed:  SUBSET (Commits \cup {NoCommit})]

EmptyView ==
  [state     |-> initialState,
   open      |-> [s \in STAGES |-> NothingOpen],
   fold      |-> NoStage,
   starts    |-> 0,
   diagnosed |-> [s \in STAGES |-> 0],
   verdict   |-> NoVerdict,
   consumed  |-> {}]

-----------------------------------------------------------------------------
(* The stage machine's view of a logged event (replayInput).  A logged     *)
(* human decision moves by data.to, never by data.stage; a stage_done is   *)
(* replayed as it stands, and since an event carries no top-level stage it *)
(* is judged at whatever stage the replay has reached, not at data.stage.  *)
MachineInput(e) ==
  [type |-> e.type, actor |-> e.actor,
   stage |-> IF e.type = "human_decision" THEN e.to ELSE NoStage,
   action |-> e.action, anchored |-> e.anchored,
   skipPlan |-> FALSE, ruled |-> FALSE]

(* applyReopen: a human move where the machine allows one, a rewind where  *)
(* the machine is closed, nothing for a target that is not a stage.        *)
Reopened(state, to) ==
  IF to \in STAGES THEN [state EXCEPT !.stage = to, !.paused = FALSE] ELSE state

(* One step of replay: refusals leave the state where it was.              *)
Replayed(state, e) ==
  IF e.type = "reopen"
    THEN Reopened(state, e.to)
  ELSE IF e.type \in {"stage_done", "human_decision"}
    THEN transition(state, MachineInput(e), {}).next
  ELSE state

(* humanDecisionFor: data.stage or data.to names the stage.                *)
Names(e, stage) == e.type = "human_decision" /\ stage \in {e.stage, e.to}

OpenedFault(o, e, stage) ==
  IF e.stage # stage \/ e.type \notin {"stage_starting", "stage_started", "stage_done"}
    THEN o
    ELSE [NothingOpen EXCEPT !.starting = (e.type = "stage_starting"),
                             !.handle = e.handle]

(* One step of openStage for one stage.                                    *)
Opened(o, e, stage) ==
  IF Names(e, stage)
    THEN [o EXCEPT !.starting = FALSE]
  ELSE IF e.type = "human_decision" \/ e.stage # stage
    THEN o
  ELSE IF e.type = "stage_starting"
    THEN [NothingOpen EXCEPT !.starting = TRUE]
  ELSE IF e.type = "stage_started"
    THEN [NothingOpen EXCEPT !.handle = e.handle]
  ELSE IF e.type = "enforcement"
    THEN [o EXCEPT !.enforcement = e.rule]
  ELSE IF e.type \in {"stage_done", "stage_failed"}
    THEN NothingOpen
  ELSE o

(* One step of foldState, which yukl decide and yukl status read: data.stage *)
(* wins over data.to, so a stage_done folds to the stage it left.          *)
Folded(fold, e) ==
  IF e.stage # NoStage THEN e.stage
  ELSE IF e.to # NoStage THEN e.to
  ELSE fold

(* runAgentStarts counts every start but the merge marker.                 *)
IsAgentStart(e) == e.type = "stage_started" /\ e.handle # MergeHandle

JudgedFault(verdict, e) ==
  IF e.type = "audit_verdict" THEN e.verdict ELSE verdict

(* verdictThisAttempt: forgotten by the audit's next start.                *)
Judged(verdict, e) ==
  IF e.stage # "audit" THEN verdict
  ELSE IF e.type = "stage_started" THEN NoVerdict
  ELSE IF e.type = "audit_verdict" THEN e.verdict
  ELSE verdict

Apply(v, e) ==
  [state     |-> Replayed(v.state, e),
   open      |-> [s \in STAGES |-> Opened(v.open[s], e, s)],
   fold      |-> Folded(v.fold, e),
   starts    |-> v.starts + (IF IsAgentStart(e) THEN 1 ELSE 0),
   diagnosed |-> [s \in STAGES |->
                    v.diagnosed[s] + (IF e.type = "decision" /\ e.stage = s THEN 1 ELSE 0)],
   verdict   |-> Judged(v.verdict, e),
   consumed  |-> v.consumed \cup
                   (IF e.type = "audit_verdict" /\ e.stage = "audit" THEN {e.commit} ELSE {})]

=============================================================================
