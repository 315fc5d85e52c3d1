------------------------------- MODULE Engine -------------------------------
(***************************************************************************)
(* The lifecycle engine (scripts/lifecycle/engine.js) as yukl run drives   *)
(* it for one task: one run at a time reads the log, takes one step,       *)
(* awaits the runtime, the version control and the diagnosis, and appends  *)
(* what happened.  Workers run and exit on their own, humans record        *)
(* decisions with yukl decide, and the run's process may die anywhere.     *)
(*                                                                         *)
(* The run's process keeps three things across its awaits: its place (pc), *)
(* the view of the log it read (snap) and what it is doing (work).  All    *)
(* three die with the process; the log does not.                           *)
(***************************************************************************)
EXTENDS TaskLog, FiniteSets

CONSTANTS
  Runtimes,     \* the stages with a runtime adapter; the others are gates
  AgentOf,      \* the agent each runtime stage dispatches
  HumanEdges,   \* the edges the policy keeps for a human
  VerdictAt,    \* what the audit verdict at each commit reads as
  GateInjected, \* whether a gate check is wired (yukl run wires none)
  HasVcs,       \* whether a version control adapter is wired
  HasMerged,    \* whether that adapter implements the optional merged()
  Enforcing,    \* whether path enforcement is wired
  StartProof,   \* whether a runtime's failed start leaves nothing running
  StatusProof,  \* whether a runtime never fails to recognise a live worker
  MergeProof,   \* whether a merge that is reported failed was never made
  MaxStarts,    \* maxAgentStartsPerRun
  MaxAttempts,  \* maxAttemptsPerStage of the diagnosis
  Concurrent,   \* whether humans may decide while a step is in flight
  Decisions,    \* the decisions humans may take, as <<kind, stage>> pairs
  StartStage,   \* where a human placed the task before the model begins
  MaxRuns,      \* bound: runs launched
  MaxCrashes,   \* bound: processes killed
  MaxDecisions  \* bound: human decisions recorded

DecisionKinds == {"pause", "resume", "override", "stop", "approve"}
Modes == {"once", "attended", "unattended"}

ASSUME EngineAssumption ==
  /\ Runtimes \subseteq STAGES \ {"integrate"}
  /\ AgentOf \in [Runtimes -> Actors]
  /\ {"engine", "integrate"} \subseteq Actors
  /\ HumanEdges \subseteq AgentEdges
  /\ VerdictAt \in [Commits -> Verdicts \cup {NoVerdict}]
  /\ {GateInjected, HasVcs, HasMerged, Enforcing, StartProof, StatusProof,
      MergeProof, Concurrent}
       \subseteq BOOLEAN
  /\ MaxStarts \in Nat /\ MaxAttempts \in Nat
  /\ Decisions \subseteq DecisionKinds \X (STAGES \cup {NoStage})
  /\ StartStage \in STAGES
  /\ MaxRuns \in Nat /\ MaxCrashes \in Nat /\ MaxDecisions \in Nat

VARIABLES
  view,     \* the folds of the committed log
  pc,       \* where the run's process is
  mode,     \* how the run was launched
  base,     \* the agent starts in the log when the run was launched
  late,     \* whether the run has outlived maxWallMinutesPerRun
  snap,     \* the view the current step works from
  work,     \* what the current step has in hand
  workers,  \* the workers that exist outside: their stage and condition
  merges,   \* how often the task's branch was merged into the base
  human,    \* the decision a human's process has built but not appended
  spent,    \* the bounds used up
  hist      \* history kept for the properties only

run   == <<mode, base, late>>
world == <<workers, merges>>
vars  == <<view, pc, mode, base, late, snap, work, workers, merges,
           human, spent, hist>>

-----------------------------------------------------------------------------
(* What a step may have in hand: the worker it started or is judging, why  *)
(* the stage failed, the anchor it resolved.                               *)
Observations == {"none", "startError", "settled", "proofFailed", "mergeFailed"}

Work == [handle: HandleIds, observation: Observations,
         commit: Commits \cup {NoCommit}, anchored: BOOLEAN]

NoWork == [handle |-> NoHandle, observation |-> "none",
           commit |-> NoCommit, anchored |-> FALSE]

Places ==
  {"off", "loop", "limit", "step", "call", "record", "unknown", "enforce",
   "anchor", "judge", "verdict", "merge", "merging", "complete", "fail",
   "diagnose"}

Conditions == {"none", "live", "ok", "bad"}

NoWorker == [stage |-> NoStage, condition |-> "none"]

NoDecision == BlankEvent("decision", NoStage)

(* The stage the step works on and its open start, as the step read them.  *)
Stage == snap.state.stage
Open  == snap.open[Stage]

IsAgentStage == Stage \in Runtimes
IsGate       == Stage \in STAGES \ (Runtimes \cup {"integrate"})

Live == {h \in Handles : workers[h].condition = "live"}

Init ==
  /\ view = Apply(EmptyView,
                  [BlankEvent("human_decision", NoStage) EXCEPT !.to = StartStage])
  /\ pc = "off" /\ mode = "once" /\ base = 0 /\ late = FALSE
  /\ snap = EmptyView
  /\ work = NoWork
  /\ workers = [h \in Handles |-> NoWorker]
  /\ merges = 0
  /\ human = NoDecision
  /\ spent = [runs |-> 0, crashes |-> 0, decisions |-> 0]
  /\ hist = [unsettled |-> {}, named |-> {}, spawned |-> 0,
             verdicts |-> [c \in Commits |-> 0], escalated |-> {}]

-----------------------------------------------------------------------------
(* How a step goes on and how it ends.  Leave: the process exits.  Again:  *)
(* the loop goes round; a --once run has no loop.  Wait: only an           *)
(* unattended run sleeps and polls again.                                  *)
GoTo(place) == pc' = place /\ UNCHANGED <<snap, work>>

Leave == pc' = "off" /\ snap' = EmptyView /\ work' = NoWork

AgainFault ==
  /\ pc' = IF mode = "once" THEN "off" ELSE "step"
  /\ snap' = IF mode = "once" THEN EmptyView ELSE snap
  /\ work' = NoWork

Again ==
  /\ pc' = IF mode = "once" THEN "off" ELSE "loop"
  /\ snap' = EmptyView
  /\ work' = NoWork

Wait == IF mode = "unattended" THEN Again ELSE Leave

FailWith(observation) ==
  /\ pc' = "fail"
  /\ work' = [work EXCEPT !.observation = observation]

LogAppend(e) == view' = Apply(view, e)

(* A later read of the log inside a step: the counts are the new ones, but *)
(* the lifecycle state the step passes around is still the first read's.   *)
Reread(v) == [v EXCEPT !.state = snap.state]

Spawn(h) ==
  /\ workers[h].condition = "none"
  /\ workers' = [workers EXCEPT ![h] = [stage |-> Stage, condition |-> "live"]]
  /\ hist' = [hist EXCEPT
                !.unsettled = IF Stage \in hist.named THEN @ ELSE @ \cup {h},
                !.spawned = @ + 1]

-----------------------------------------------------------------------------
(* yukl run: launch, and runUntilBlocked's loop.                           *)
Launch(m) ==
  /\ pc = "off"
  /\ spent.runs < MaxRuns
  /\ Concurrent \/ human = NoDecision
  /\ pc' = "loop"
  /\ mode' = m /\ base' = view.starts /\ late' = FALSE
  /\ spent' = [spent EXCEPT !.runs = @ + 1]
  /\ hist' = [hist EXCEPT !.spawned = 0]
  /\ UNCHANGED <<view, snap, work, world, human>>

(* The wall clock passes maxWallMinutesPerRun; a --once run measures none. *)
ClockRunsOut ==
  /\ pc # "off" /\ mode # "once" /\ ~late
  /\ late' = TRUE
  /\ UNCHANGED <<view, pc, mode, base, snap, work, world, human, spent, hist>>

(* An attended run stops after maxSteps steps; the step counter itself is   *)
(* abstracted, so it may stop whenever the loop goes round.                *)
StepCap ==
  /\ pc = "loop" /\ mode = "attended"
  /\ Leave
  /\ UNCHANGED <<view, run, world, human, spent, hist>>

(* wallLimitBreach, before the next step: foldedStage reads the log ...    *)
WallBreach ==
  /\ pc = "loop" /\ late
  /\ pc' = "limit" /\ snap' = view
  /\ UNCHANGED <<view, run, work, world, human, spent, hist>>

(* ... and the breach is appended against that stage.                      *)
RecordWallBreach ==
  /\ pc = "limit"
  /\ LogAppend(EnforcementEvent(Stage, "R-RUN-LIMIT"))
  /\ Leave
  /\ UNCHANGED <<run, world, human, spent, hist>>

ReadLogFault ==
  /\ pc = "loop"
  /\ pc' = "step" /\ snap' = view
  /\ UNCHANGED <<view, run, work, world, human, spent, hist>>

ReadLog ==
  /\ pc = "loop" /\ ~late
  /\ pc' = "step" /\ snap' = view
  /\ UNCHANGED <<view, run, work, world, human, spent, hist>>

-----------------------------------------------------------------------------
(* step: the dispatch on the stage the log folds to.                       *)
StepTerminal ==
  /\ pc = "step" /\ Stage \in TERMINAL
  /\ Leave
  /\ UNCHANGED <<view, run, world, human, spent, hist>>

(* An enforcement already recorded against the open handle is returned     *)
(* again; a start of unknown outcome blocks.  Neither appends anything.    *)
StepRefused ==
  /\ pc = "step" /\ IsAgentStage
  /\ \/ Open.handle # NoHandle /\ Open.enforcement # NoRule
     \/ Open.handle = NoHandle /\ Open.starting
  /\ Leave
  /\ UNCHANGED <<view, run, world, human, spent, hist>>

Polls == pc = "step" /\ IsAgentStage /\ Open.handle # NoHandle /\ Open.enforcement = NoRule

(* inspectRuntime on a live worker.                                        *)
PollLive ==
  /\ Polls /\ workers[Open.handle].condition = "live"
  /\ Wait
  /\ UNCHANGED <<view, run, world, human, spent, hist>>

PollSucceeded ==
  /\ Polls /\ workers[Open.handle].condition = "ok"
  /\ GoTo("enforce")
  /\ UNCHANGED <<view, run, world, human, spent, hist>>

(* A non-zero exit, a timeout, or a runtime that cannot say: the last one  *)
(* may be a live worker whose runtime gave an unreadable answer.           *)
PollFailed ==
  /\ Polls /\ (workers[Open.handle].condition = "bad" \/ ~StatusProof)
  /\ FailWith("settled")
  /\ UNCHANGED <<view, run, snap, world, human, spent, hist>>

(* gateStage: with no check injected, or one that does not pass, it waits. *)
GateWaits ==
  /\ pc = "step" /\ IsGate
  /\ Wait
  /\ UNCHANGED <<view, run, world, human, spent, hist>>

GatePasses(anchored) ==
  /\ pc = "step" /\ IsGate /\ GateInjected
  /\ pc' = "complete"
  /\ work' = [work EXCEPT !.anchored = anchored]
  /\ UNCHANGED <<view, run, snap, world, human, spent, hist>>

StartsSpentFault == mode # "once" /\ snap.starts - base > MaxStarts

(* startLimitRefusal: no limits are handed to a --once step.               *)
StartsSpent == mode # "once" /\ snap.starts - base >= MaxStarts

MayStart == pc = "step" /\ IsAgentStage /\ Open.handle = NoHandle /\ ~Open.starting

RefuseStart ==
  /\ MayStart /\ StartsSpent
  /\ LogAppend(EnforcementEvent(Stage, "R-RUN-LIMIT"))
  /\ Leave
  /\ UNCHANGED <<run, world, human, spent, hist>>

-----------------------------------------------------------------------------
(* startStage: the start is recorded before the runtime is called ...      *)
BeginStart ==
  /\ MayStart /\ ~StartsSpent
  /\ LogAppend(BlankEvent("stage_starting", Stage))
  /\ GoTo("call")
  /\ hist' = [hist EXCEPT !.named = @ \ {Stage}]
  /\ UNCHANGED <<run, world, human, spent>>

(* ... the runtime creates a worker ...                                    *)
CallStarts(h) ==
  /\ pc = "call"
  /\ Spawn(h)
  /\ pc' = "record" /\ work' = [work EXCEPT !.handle = h]
  /\ UNCHANGED <<view, run, snap, merges, human, spent>>

(* ... or throws, proven to have left nothing running ...                  *)
CallThrows ==
  /\ pc = "call"
  /\ FailWith("startError")
  /\ UNCHANGED <<view, run, snap, world, human, spent, hist>>

(* ... or throws without naming the worker it created ...                  *)
CallLosesWorker(h) ==
  /\ pc = "call" /\ ~StartProof
  /\ Spawn(h)
  /\ FailWith("startError")
  /\ UNCHANGED <<view, run, snap, merges, human, spent>>

(* ... or throws startOutcomeUnknown, with or without a worker behind it.  *)
CallUnknown ==
  /\ pc = "call"
  /\ GoTo("unknown")
  /\ \/ \E h \in Handles : Spawn(h)
     \/ UNCHANGED <<workers, hist>>
  /\ UNCHANGED <<view, run, merges, human, spent>>

(* ... and the handle, or the unknown outcome, is recorded after it.       *)
RecordStarted ==
  /\ pc = "record"
  /\ LogAppend(StartedEvent(Stage, work.handle))
  /\ Again
  /\ UNCHANGED <<run, world, human, spent, hist>>

RecordUnknownFault ==
  /\ pc = "unknown"
  /\ LogAppend(BlankEvent("stage_failed", Stage))
  /\ Leave
  /\ UNCHANGED <<run, world, human, spent, hist>>

RecordUnknown ==
  /\ pc = "unknown"
  /\ LogAppend(BlankEvent("stage_start_unknown", Stage))
  /\ Leave
  /\ UNCHANGED <<run, world, human, spent, hist>>

-----------------------------------------------------------------------------
(* completeAgentStage: enforcement, anchor, and for an audit its verdict.  *)
(* R-PATH-SCOPE stands for every rule enforcement refuses by.              *)
EnforceRefuses ==
  /\ pc = "enforce" /\ Enforcing
  /\ LogAppend(EnforcementEvent(Stage, "R-PATH-SCOPE"))
  /\ Leave
  /\ UNCHANGED <<run, world, human, spent, hist>>

EnforcePasses ==
  /\ pc = "enforce"
  /\ GoTo("anchor")
  /\ UNCHANGED <<view, run, world, human, spent, hist>>

AnchorMissing ==
  /\ pc = "anchor"
  /\ Leave
  /\ UNCHANGED <<view, run, world, human, spent, hist>>

AnchorFoundFault(commit) ==
  /\ pc = "anchor"
  /\ (commit # NoCommit) = (Stage = "audit")
  /\ pc' = "complete"
  /\ work' = [work EXCEPT !.commit = commit, !.anchored = TRUE]
  /\ UNCHANGED <<view, run, snap, world, human, spent, hist>>

(* An audit anchors at the last commit of its verdict, old or new.         *)
AnchorFound(commit) ==
  /\ pc = "anchor"
  /\ (commit # NoCommit) = (Stage = "audit")
  /\ pc' = IF Stage = "audit" THEN "judge" ELSE "complete"
  /\ work' = [work EXCEPT !.commit = commit, !.anchored = TRUE]
  /\ UNCHANGED <<view, run, snap, world, human, spent, hist>>

(* judgeAudit: the log is read again; a verdict this attempt has already   *)
(* recorded is reused ...                                                  *)
ReuseVerdict ==
  /\ pc = "judge" /\ view.verdict # NoVerdict
  /\ snap' = Reread(view)
  /\ IF view.verdict = "pass"
       THEN pc' = "complete" /\ UNCHANGED work
       ELSE FailWith("proofFailed")
  /\ UNCHANGED <<view, run, world, human, spent, hist>>

ReadVerdict ==
  /\ pc = "judge" /\ view.verdict = NoVerdict
  /\ pc' = "verdict" /\ snap' = Reread(view)
  /\ UNCHANGED <<view, run, work, world, human, spent, hist>>

VerdictUsableFault == VerdictAt[work.commit] # NoVerdict

(* ... and a verdict that cannot be read, or that an earlier attempt        *)
(* consumed, blocks with R-NO-VERDICT.                                     *)
VerdictUsable == VerdictAt[work.commit] # NoVerdict /\ work.commit \notin snap.consumed

VerdictRefused ==
  /\ pc = "verdict" /\ ~VerdictUsable
  /\ Leave
  /\ UNCHANGED <<view, run, world, human, spent, hist>>

RecordVerdict ==
  LET verdict == VerdictAt[work.commit]
      event   == VerdictEvent(verdict, work.commit)
  IN  /\ pc = "verdict" /\ VerdictUsable
      /\ LogAppend(event)
      /\ snap' = Reread(Apply(view, event))
      /\ IF verdict = "pass"
           THEN pc' = "complete" /\ UNCHANGED work
           ELSE FailWith("proofFailed")
      /\ hist' = [hist EXCEPT !.verdicts[work.commit] = @ + 1]
      /\ UNCHANGED <<run, world, human, spent>>

-----------------------------------------------------------------------------
(* completeStage: the move is judged on the state the step read, and the   *)
(* event it appends is replayed by later readers on the state they reach.  *)
Actor ==
  IF Stage \in Runtimes THEN AgentOf[Stage]
  ELSE IF Stage = "integrate" THEN "integrate"
  ELSE "engine"

Outcome ==
  transition(snap.state,
             MachineInput(DoneEvent(Stage, NoStage, Actor, work.anchored)), HumanEdges)

CompleteAccepted ==
  /\ pc = "complete" /\ Outcome.ok
  /\ LogAppend(DoneEvent(Stage, Outcome.next.stage, Actor, work.anchored))
  /\ Again
  /\ UNCHANGED <<run, world, human, spent, hist>>

CompleteRefused ==
  /\ pc = "complete" /\ ~Outcome.ok
  /\ Leave
  /\ UNCHANGED <<view, run, world, human, spent, hist>>

-----------------------------------------------------------------------------
(* failStage: the failure, then the diagnosis, then its decision.          *)
RecordFailure ==
  /\ pc = "fail"
  /\ LogAppend(BlankEvent("stage_failed", Stage))
  /\ GoTo("diagnose")
  /\ UNCHANGED <<run, world, human, spent, hist>>

(* diagnose escalates at the attempt limit, counted in recorded decisions, *)
(* and whenever the failure is unclassified, as a start error is; any      *)
(* other failure may be tried again until the table is exhausted.          *)
MustEscalate ==
  snap.diagnosed[Stage] >= MaxAttempts \/ work.observation = "startError"

(* A failed start is rethrown after its decision is recorded; otherwise    *)
(* the loop stops on an escalation and goes round on anything else.        *)
RecordDecision(escalate) ==
  /\ pc = "diagnose"
  /\ MustEscalate => escalate
  /\ LogAppend(BlankEvent("decision", Stage))
  /\ IF escalate THEN Leave ELSE Again
  /\ hist' = [hist EXCEPT !.escalated = IF escalate THEN @ \cup {Stage} ELSE @ \ {Stage}]
  /\ UNCHANGED <<run, world, human, spent>>

-----------------------------------------------------------------------------
(* integrateStage: no adapter, a merge kept for a human, or an open merge  *)
(* nobody can ask about, blocks before anything is appended or called.     *)
AtIntegrate == pc = "step" /\ Stage = "integrate"

MayMerge == HasVcs /\ <<"integrate", "done">> \notin HumanEdges

IntegrateBlocked ==
  /\ AtIntegrate
  /\ ~MayMerge \/ (Open.handle # NoHandle /\ ~HasMerged)
  /\ Leave
  /\ UNCHANGED <<view, run, world, human, spent, hist>>

(* The merge is marked before it is made ...                               *)
MarkMerge ==
  /\ AtIntegrate /\ MayMerge /\ Open.handle = NoHandle
  /\ LogAppend(StartedEvent("integrate", MergeHandle))
  /\ GoTo("merge")
  /\ UNCHANGED <<run, world, human, spent, hist>>

ConfirmMergeFault(anchored) ==
  /\ AtIntegrate /\ MayMerge /\ Open.handle # NoHandle /\ HasMerged
  /\ GoTo("merge")
  /\ UNCHANGED <<view, run, world, human, spent, hist>>

(* ... and a marked merge is confirmed with the adapter, or made again.    *)
ConfirmMerge(anchored) ==
  /\ AtIntegrate /\ MayMerge /\ Open.handle # NoHandle /\ HasMerged
  /\ IF merges > 0
       THEN /\ pc' = "complete"
            /\ work' = [work EXCEPT !.anchored = anchored]
       ELSE pc' = "merge" /\ UNCHANGED work
  /\ UNCHANGED <<view, run, snap, world, human, spent, hist>>

(* mergeIntegrate reads the log again for the run head, then merges.       *)
ReadHead ==
  /\ pc = "merge"
  /\ pc' = "merging" /\ snap' = Reread(view)
  /\ UNCHANGED <<view, run, work, world, human, spent, hist>>

MergeSucceeds(anchored) ==
  /\ pc = "merging"
  /\ merges' = merges + 1
  /\ pc' = "complete" /\ work' = [work EXCEPT !.anchored = anchored]
  /\ UNCHANGED <<view, run, snap, workers, human, spent, hist>>

(* The reply may be lost once the merge is made: gh fails then all the     *)
(* same, update-ref does not.                                              *)
MergeFails ==
  /\ pc = "merging"
  /\ UNCHANGED merges \/ (~MergeProof /\ merges' = merges + 1)
  /\ FailWith("mergeFailed")
  /\ UNCHANGED <<view, run, snap, workers, human, spent, hist>>

-----------------------------------------------------------------------------
(* yukl decide: the log is read and folded, the decision is checked against *)
(* the folded stage, and only then appended.                               *)
FoldedStage == IF view.fold = NoStage THEN "intent" ELSE view.fold

DecisionEvent(kind, target, current) ==
  LET blank == BlankEvent("human_decision", NoStage)
  IN  CASE kind = "override" -> [blank EXCEPT !.to = target]
        [] kind = "stop"     -> [blank EXCEPT !.to = "stopped", !.action = "stop"]
        [] kind = "approve"  -> [blank EXCEPT !.stage = current]
        [] kind \in {"pause", "resume"} -> [blank EXCEPT !.action = kind]

(* What transition is asked is not what is persisted: an approve names the *)
(* folded stage at top level, a stop names none.                           *)
DecisionInput(kind, target, current) ==
  [MachineInput(DecisionEvent(kind, target, current))
     EXCEPT !.stage = CASE kind = "override" -> target
                        [] kind = "approve"  -> current
                        [] OTHER             -> NoStage]

DecideRead(kind, target) ==
  /\ human = NoDecision
  /\ Concurrent \/ pc = "off"
  /\ spent.decisions < MaxDecisions
  /\ transition([initialState EXCEPT !.stage = FoldedStage],
                DecisionInput(kind, target, FoldedStage), {}).ok
  /\ human' = DecisionEvent(kind, target, FoldedStage)
  /\ spent' = [spent EXCEPT !.decisions = @ + 1]
  /\ UNCHANGED <<view, pc, run, snap, work, world, hist>>

DecideAppend ==
  /\ human # NoDecision
  /\ LogAppend(human)
  /\ human' = NoDecision
  /\ hist' = [hist EXCEPT
                !.unsettled = {h \in @ : ~Names(human, workers[h].stage)},
                !.named     = @ \cup {s \in STAGES : Names(human, s)},
                !.escalated = {s \in @ : ~Names(human, s)}]
  /\ UNCHANGED <<pc, run, snap, work, world, spent>>

-----------------------------------------------------------------------------
(* The world: workers settle when they like, and the process may be killed *)
(* at any point; what it has not appended is lost, what it caused is not.  *)
WorkerExits(h, condition) ==
  /\ workers[h].condition = "live"
  /\ workers' = [workers EXCEPT ![h].condition = condition]
  /\ UNCHANGED <<view, pc, run, snap, work, merges, human, spent, hist>>

Crash ==
  /\ pc # "off"
  /\ spent.crashes < MaxCrashes
  /\ Leave
  /\ spent' = [spent EXCEPT !.crashes = @ + 1]
  /\ UNCHANGED <<view, run, world, human, hist>>

-----------------------------------------------------------------------------
LoopStep == StepCap \/ WallBreach \/ RecordWallBreach \/ ReadLog

DispatchStep ==
  \/ StepTerminal \/ StepRefused \/ PollLive \/ PollSucceeded \/ PollFailed
  \/ GateWaits \/ (\E anchored \in BOOLEAN : GatePasses(anchored))
  \/ RefuseStart

StartStep ==
  \/ BeginStart \/ CallThrows \/ CallUnknown \/ RecordStarted \/ RecordUnknown
  \/ \E h \in Handles : CallStarts(h) \/ CallLosesWorker(h)

FinishStep ==
  \/ EnforceRefuses \/ EnforcePasses \/ AnchorMissing
  \/ (\E commit \in Commits \cup {NoCommit} : AnchorFound(commit))
  \/ ReuseVerdict \/ ReadVerdict \/ VerdictRefused \/ RecordVerdict
  \/ CompleteAccepted \/ CompleteRefused
  \/ RecordFailure \/ (\E escalate \in BOOLEAN : RecordDecision(escalate))

IntegrateStep ==
  \/ IntegrateBlocked \/ MarkMerge \/ ReadHead \/ MergeFails
  \/ \E anchored \in BOOLEAN : ConfirmMerge(anchored) \/ MergeSucceeds(anchored)

RunStep == LoopStep \/ DispatchStep \/ StartStep \/ FinishStep \/ IntegrateStep

HumanStep ==
  \/ \E d \in Decisions : DecideRead(d[1], d[2])
  \/ DecideAppend

Environment ==
  \/ ClockRunsOut \/ Crash
  \/ \E h \in Handles, c \in {"ok", "bad"} : WorkerExits(h, c)

Next == (\E m \in Modes : Launch(m)) \/ RunStep \/ HumanStep \/ Environment

Spec == Init /\ [][Next]_vars

(* The process is scheduled, its calls return, and time passes.            *)
FairSpec == Spec /\ WF_vars(RunStep) /\ WF_vars(ClockRunsOut)

=============================================================================
