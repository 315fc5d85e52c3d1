---------------------------- MODULE EngineProofs ----------------------------
(***************************************************************************)
(* Proofs about Engine for every value of its constants: first its types,  *)
(* then its safety invariants, then how it moves a task and merges it.     *)
(* Last, about TaskLogFold: the folds it reads are what the log says.      *)
(***************************************************************************)
EXTENDS EngineProperties, TaskLogFold, WellFoundedInduction, TLAPS

-----------------------------------------------------------------------------
(* The stage machine and the folds keep their types.                       *)

LEMMA NextStageType == NEXT_STAGE \in [STAGES -> KnownStages]
BY DEF NEXT_STAGE, STAGES, KnownStages, TERMINAL

(* What the stage machine reads of a logged event.                         *)
Input ==
  [type: EventTypes, actor: Actors \cup {NoActor}, stage: KnownStages \cup {NoStage},
   action: {"pause", "resume", "stop", NoAction}, anchored: BOOLEAN,
   skipPlan: {FALSE}, ruled: {FALSE}]

LEMMA MachineInputType ==
  ASSUME NEW e \in Event
  PROVE  MachineInput(e) \in Input
BY DEF MachineInput, Event, Input

LEMMA TransitionType ==
  ASSUME NEW s \in LifecycleState(Actors), NEW i \in Input, NEW edges
  PROVE  /\ transition(s, i, edges).next \in LifecycleState(Actors)
         /\ transition(s, i, edges).ok \in BOOLEAN
<1>1. /\ s.stage \in KnownStages /\ s.implementActors \in SUBSET Actors /\ s.paused \in BOOLEAN
      /\ s = [stage |-> s.stage, implementActors |-> s.implementActors, paused |-> s.paused]
  BY DEF LifecycleState
<1>2. \A r : /\ Refuse(s, r).next \in LifecycleState(Actors)
             /\ Refuse(s, r).ok \in BOOLEAN
  BY DEF Refuse
<1>3. \A n \in LifecycleState(Actors) :
        \A r : /\ Allow(n, r).next \in LifecycleState(Actors)
               /\ Allow(n, r).ok \in BOOLEAN
  BY DEF Allow
<1>4. /\ ByHuman(s, i).next \in LifecycleState(Actors)
      /\ ByHuman(s, i).ok \in BOOLEAN
  <2>1. ASSUME NEW t \in KnownStages, NEW p \in BOOLEAN
        PROVE  /\ [s EXCEPT !.stage = t, !.paused = p] \in LifecycleState(Actors)
               /\ [s EXCEPT !.paused = p] \in LifecycleState(Actors)
    BY <1>1 DEF LifecycleState
  <2>2. "stopped" \in KnownStages
    BY DEF KnownStages, TERMINAL
  <2> QED
    BY <1>2, <1>3, <2>1, <2>2 DEF ByHuman, Input
<1>5. ASSUME s.stage \notin CLOSED, s.stage # "escalated"
      PROVE  /\ ByAgent(s, i, edges).next \in LifecycleState(Actors)
             /\ ByAgent(s, i, edges).ok \in BOOLEAN
  <2>1. s.stage \in STAGES
    BY <1>1, <1>5 DEF KnownStages, TERMINAL, CLOSED
  <2>2. AgentTarget(s, i) \in KnownStages
    BY <2>1, NextStageType DEF AgentTarget, KnownStages, STAGES
  <2>3. i.actor # NoActor => AgentMove(s, i) \in LifecycleState(Actors)
    BY <1>1, <2>2 DEF AgentMove, LifecycleState, Input
  <2> QED
    BY <1>2, <1>3, <2>3 DEF ByAgent
<1> QED
  BY <1>2, <1>4, <1>5 DEF transition

LEMMA ReplayedType ==
  ASSUME NEW s \in LifecycleState(Actors), NEW e \in Event
  PROVE  Replayed(s, e) \in LifecycleState(Actors)
<1>1. Reopened(s, e.to) \in LifecycleState(Actors)
  BY DEF Reopened, LifecycleState, KnownStages
<1> QED
  BY <1>1, TransitionType, MachineInputType DEF Replayed

LEMMA OpenedType ==
  ASSUME NEW o \in OpenStart, NEW e \in Event, NEW s \in STAGES
  PROVE  Opened(o, e, s) \in OpenStart
<1>1. NothingOpen \in OpenStart
  BY DEF NothingOpen, OpenStart, HandleIds
<1>2. e.handle \in HandleIds /\ e.rule \in EnforcementRules \cup {NoRule}
  BY DEF Event
<1> QED
  BY <1>1, <1>2 DEF Opened, OpenStart, NothingOpen

(* Appending an event keeps the folds of the log well typed.               *)
LEMMA ApplyType ==
  ASSUME NEW v \in View, NEW e \in Event
  PROVE  Apply(v, e) \in View
<1>1. Replayed(v.state, e) \in LifecycleState(Actors)
  BY ReplayedType DEF View
<1>2. [s \in STAGES |-> Opened(v.open[s], e, s)] \in [STAGES -> OpenStart]
  BY OpenedType DEF View
<1>3. Folded(v.fold, e) \in KnownStages \cup {NoStage}
  BY DEF Folded, View, Event
<1>4. v.starts + (IF IsAgentStart(e) THEN 1 ELSE 0) \in Nat
  BY DEF View
<1>5. [s \in STAGES |-> v.diagnosed[s] + (IF e.type = "decision" /\ e.stage = s THEN 1 ELSE 0)]
        \in [STAGES -> Nat]
  BY DEF View
<1>6. Judged(v.verdict, e) \in Verdicts \cup {NoVerdict}
  BY DEF Judged, View, Event
<1>7. v.consumed \subseteq Commits \cup {NoCommit}
  BY DEF View
<1> QED
  BY <1>1, <1>2, <1>3, <1>4, <1>5, <1>6, <1>7 DEF Apply, View, Event

-----------------------------------------------------------------------------
(* The values the engine builds are well typed.                            *)

LEMMA EmptyViewType == EmptyView \in View
<1>1. initialState \in LifecycleState(Actors)
  BY DEF initialState, LifecycleState, KnownStages, STAGES
<1>2. NothingOpen \in OpenStart
  BY DEF NothingOpen, OpenStart, HandleIds
<1> QED
  BY <1>1, <1>2 DEF EmptyView, View

LEMMA NoWorkType == NoWork \in Work
BY DEF NoWork, Work, HandleIds, Observations

LEMMA BlankEventType ==
  ASSUME NEW t \in EventTypes, NEW s \in KnownStages \cup {NoStage}
  PROVE  BlankEvent(t, s) \in Event
BY DEF BlankEvent, Event, HandleIds

LEMMA EngineEventTypes ==
  ASSUME NEW s \in KnownStages
  PROVE  /\ \A h \in HandleIds : StartedEvent(s, h) \in Event
         /\ \A r \in EnforcementRules : EnforcementEvent(s, r) \in Event
         /\ \A t \in KnownStages, a \in Actors, b \in BOOLEAN :
              DoneEvent(s, t, a, b) \in Event
<1>1. /\ BlankEvent("stage_started", s) \in Event
      /\ BlankEvent("enforcement", s) \in Event
      /\ BlankEvent("stage_done", s) \in Event
  BY BlankEventType DEF EventTypes
<1>2. ASSUME NEW h \in HandleIds PROVE StartedEvent(s, h) \in Event
  BY <1>1 DEF StartedEvent, Event
<1>3. ASSUME NEW r \in EnforcementRules PROVE EnforcementEvent(s, r) \in Event
  BY <1>1 DEF EnforcementEvent, Event
<1>4. ASSUME NEW t \in KnownStages, NEW a \in Actors, NEW b \in BOOLEAN
      PROVE  DoneEvent(s, t, a, b) \in Event
  BY <1>1 DEF DoneEvent, Event
<1> QED
  BY <1>2, <1>3, <1>4

LEMMA VerdictEventType ==
  ASSUME NEW v \in Verdicts, NEW c \in Commits
  PROVE  VerdictEvent(v, c) \in Event
<1>1. "audit" \in KnownStages /\ "audit_verdict" \in EventTypes
  BY DEF KnownStages, STAGES, EventTypes
<1>2. BlankEvent("audit_verdict", "audit") \in Event
  BY <1>1, BlankEventType
<1> QED
  BY <1>2 DEF VerdictEvent, Event

(* The view a step rereads has the new counts and the old state.           *)
LEMMA RereadType ==
  ASSUME snap \in View, NEW v \in View
  PROVE  /\ Reread(v) \in View
         /\ Reread(v).state = snap.state
BY DEF Reread, View

(* Where the process is says which stage its step works on.                *)
AgentPlaces == {"call", "record", "unknown", "enforce", "anchor", "judge", "verdict"}

Placed ==
  /\ pc \in AgentPlaces => Stage \in Runtimes
  /\ pc \in {"judge", "verdict"} => Stage = "audit" /\ work.commit \in Commits
  /\ pc \in {"merge", "merging"} => Stage = "integrate"
  /\ pc \in {"complete", "fail", "diagnose"} => Stage \in STAGES

LEMMA StageType ==
  ASSUME TypeOK
  PROVE  Stage \in KnownStages
BY DEF TypeOK, View, LifecycleState, Stage

LEMMA OpenType ==
  ASSUME TypeOK, Stage \in STAGES
  PROVE  Open \in OpenStart
BY DEF TypeOK, View, Open, Stage

LEMMA InitTypes == Init => TypeOK /\ Placed
<1> SUFFICES ASSUME Init PROVE TypeOK /\ Placed
  OBVIOUS
<1> USE EngineAssumption DEF Init
<1>1. "human_decision" \in EventTypes /\ NoStage \in KnownStages \cup {NoStage}
  BY DEF EventTypes
<1>2. [BlankEvent("human_decision", NoStage) EXCEPT !.to = StartStage] \in Event
  BY <1>1, BlankEventType DEF Event, KnownStages
<1>3. view \in View
  BY <1>2, ApplyType, EmptyViewType
<1>4. NoDecision \in Event
  BY BlankEventType DEF NoDecision, EventTypes
<1>5. workers \in Workers
  BY DEF NoWorker, Conditions, Workers
<1> QED
  BY <1>3, <1>4, <1>5, EmptyViewType, NoWorkType
     DEF TypeOK, Placed, Places, Modes, AgentPlaces, History

-----------------------------------------------------------------------------
(* Every action keeps the types and the places.                            *)

IType == TypeOK /\ Placed

(* A process that leaves, or goes round, forgets its snap and its work.    *)
LEMMA LeaveTypes ==
  ASSUME IType, view' \in View, Leave \/ Again,
         UNCHANGED <<world, human, spent>>, UNCHANGED run,
         hist' \in History
  PROVE  IType'
BY EmptyViewType, NoWorkType
   DEF IType, TypeOK, Placed, AgentPlaces, Leave, Again, Places, run, world

LEMMA LoopTypes == IType /\ LoopStep => IType'
<1> SUFFICES ASSUME IType, LoopStep PROVE IType'
  OBVIOUS
<1>1. CASE StepCap
  BY <1>1, LeaveTypes DEF StepCap, IType, TypeOK
<1>2. CASE WallBreach
  BY <1>2 DEF WallBreach, IType, TypeOK, Placed, AgentPlaces, Places, run, world
<1>3. CASE RecordWallBreach
  <2>1. EnforcementEvent(Stage, "R-RUN-LIMIT") \in Event
    BY StageType, EngineEventTypes DEF IType, EnforcementRules
  <2> QED
    BY <1>3, <2>1, ApplyType, LeaveTypes DEF RecordWallBreach, LogAppend, IType, TypeOK
<1>4. CASE ReadLog
  BY <1>4 DEF ReadLog, IType, TypeOK, Placed, AgentPlaces, Places, run, world
<1> QED
  BY <1>1, <1>2, <1>3, <1>4 DEF LoopStep

LEMMA DispatchTypes == IType /\ DispatchStep => IType'
<1> SUFFICES ASSUME IType, DispatchStep PROVE IType'
  OBVIOUS
<1> USE DEF IType
<1>1. CASE StepTerminal
  BY <1>1, LeaveTypes DEF StepTerminal, TypeOK
<1>2. CASE StepRefused
  BY <1>2, LeaveTypes DEF StepRefused, TypeOK
<1>3. CASE PollLive
  BY <1>3, LeaveTypes DEF PollLive, Wait, TypeOK
<1>4. CASE PollSucceeded
  BY <1>4 DEF PollSucceeded, GoTo, Polls, IsAgentStage, Stage,
              TypeOK, Placed, AgentPlaces, Places, run, world
<1>5. CASE PollFailed
  BY <1>5, EngineAssumption
     DEF PollFailed, FailWith, Polls, IsAgentStage, Stage,
         TypeOK, Placed, AgentPlaces, Places, Work, Observations, run, world
<1>6. CASE GateWaits
  BY <1>6, LeaveTypes DEF GateWaits, Wait, TypeOK
<1>7. ASSUME NEW anchored \in BOOLEAN, GatePasses(anchored)
      PROVE  IType'
  BY <1>7 DEF GatePasses, IsGate, Stage,
              TypeOK, Placed, AgentPlaces, Places, Work, run, world
<1>8. CASE RefuseStart
  <2>1. EnforcementEvent(Stage, "R-RUN-LIMIT") \in Event
    BY StageType, EngineEventTypes DEF EnforcementRules
  <2> QED
    BY <1>8, <2>1, ApplyType, LeaveTypes DEF RefuseStart, LogAppend, TypeOK
<1> QED
  BY <1>1, <1>2, <1>3, <1>4, <1>5, <1>6, <1>7, <1>8 DEF DispatchStep

(* Creating a worker keeps the workers and the history typed.              *)
LEMMA SpawnTypes ==
  ASSUME IType, Stage \in STAGES, NEW h \in Handles, Spawn(h)
  PROVE  /\ workers' \in Workers
         /\ hist' \in History
<1>1. workers' \in Workers
  BY DEF IType, TypeOK, Spawn, Conditions, Workers
<1>2. hist \in History
  BY DEF IType, TypeOK
<1>3. PICK U \in SUBSET Handles :
        hist' = [hist EXCEPT !.unsettled = U, !.spawned = hist.spawned + 1]
  <2>1. hist.unsettled \in SUBSET Handles
    BY <1>2 DEF History
  <2>2. CASE Stage \in hist.named
    BY <2>1, <2>2 DEF Spawn
  <2>3. CASE Stage \notin hist.named
    BY <2>1, <2>3 DEF Spawn
  <2> QED
    BY <2>2, <2>3
<1>4. hist' \in History
  <2>1. \A u \in SUBSET Handles, n \in Nat :
           [hist EXCEPT !.unsettled = u, !.spawned = n] \in History
    BY <1>2 DEF History
  <2>2. hist.spawned + 1 \in Nat
    BY <1>2 DEF History
  <2> QED
    BY <1>3, <2>1, <2>2
<1> QED
  BY <1>1, <1>4

LEMMA StartTypes == IType /\ StartStep => IType'
<1> SUFFICES ASSUME IType, StartStep PROVE IType'
  OBVIOUS
<1> USE DEF IType
<1>a. \A t \in {"stage_starting", "stage_start_unknown"} : BlankEvent(t, Stage) \in Event
  BY StageType, BlankEventType DEF EventTypes
<1>b. Runtimes \subseteq STAGES
  BY EngineAssumption
<1>1. CASE BeginStart
  <2>1. view' \in View
    BY <1>1, <1>a, ApplyType DEF BeginStart, LogAppend, TypeOK
  <2> QED
    BY <1>1, <2>1 DEF BeginStart, GoTo, MayStart, IsAgentStage, Stage, History,
                      TypeOK, Placed, AgentPlaces, Places, run, world
<1>2. ASSUME NEW h \in Handles, CallStarts(h)
      PROVE  IType'
  <2>1. Stage \in STAGES
    BY <1>2, <1>b DEF CallStarts, Placed, AgentPlaces
  <2> QED
    BY <1>2, <2>1, SpawnTypes
       DEF CallStarts, Stage, TypeOK, Placed, AgentPlaces, Places, Work, HandleIds, run, world
<1>3. CASE CallThrows
  BY <1>3, <1>b DEF CallThrows, FailWith, Stage,
                    TypeOK, Placed, AgentPlaces, Places, Work, Observations, run, world
<1>4. ASSUME NEW h \in Handles, CallLosesWorker(h)
      PROVE  IType'
  <2>1. Stage \in STAGES
    BY <1>4, <1>b DEF CallLosesWorker, Placed, AgentPlaces
  <2> QED
    BY <1>4, <2>1, SpawnTypes
       DEF CallLosesWorker, FailWith, Stage,
           TypeOK, Placed, AgentPlaces, Places, Work, Observations, run, world
<1>5. CASE CallUnknown
  <2>1. Stage \in STAGES
    BY <1>5, <1>b DEF CallUnknown, Placed, AgentPlaces
  <2>2. /\ workers' \in Workers
        /\ hist' \in History
    BY <1>5, <2>1, SpawnTypes DEF CallUnknown, TypeOK
  <2> QED
    BY <1>5, <2>2 DEF CallUnknown, GoTo, Stage, TypeOK, Placed, AgentPlaces, Places, run
<1>6. CASE RecordStarted
  <2>1. StartedEvent(Stage, work.handle) \in Event
    BY StageType, EngineEventTypes DEF TypeOK, Work
  <2> QED
    BY <1>6, <2>1, ApplyType, LeaveTypes DEF RecordStarted, LogAppend, TypeOK
<1>7. CASE RecordUnknown
  BY <1>7, <1>a, ApplyType, LeaveTypes DEF RecordUnknown, LogAppend, TypeOK
<1> QED
  BY <1>1, <1>2, <1>3, <1>4, <1>5, <1>6, <1>7 DEF StartStep

LEMMA FinishTypes == IType /\ FinishStep => IType'
<1> SUFFICES ASSUME IType, FinishStep PROVE IType'
  OBVIOUS
<1> USE DEF IType
<1>a. Runtimes \subseteq STAGES
  BY EngineAssumption
<1>b. \A t \in {"stage_failed", "decision"} : BlankEvent(t, Stage) \in Event
  BY StageType, BlankEventType DEF EventTypes
<1>1. CASE EnforceRefuses
  <2>1. EnforcementEvent(Stage, "R-PATH-SCOPE") \in Event
    BY StageType, EngineEventTypes DEF EnforcementRules
  <2> QED
    BY <1>1, <2>1, ApplyType, LeaveTypes DEF EnforceRefuses, LogAppend, TypeOK
<1>2. CASE EnforcePasses
  BY <1>2 DEF EnforcePasses, GoTo, Stage, TypeOK, Placed, AgentPlaces, Places, run, world
<1>3. CASE AnchorMissing
  BY <1>3, LeaveTypes DEF AnchorMissing, TypeOK
<1>4. ASSUME NEW commit \in Commits \cup {NoCommit}, AnchorFound(commit)
      PROVE  IType'
  BY <1>4, <1>a DEF AnchorFound, Stage, TypeOK, Placed, AgentPlaces, Places, Work, run, world
<1>5. CASE ReuseVerdict
  <2>1. /\ snap' \in View /\ snap'.state = snap.state
        /\ view' = view /\ UNCHANGED <<run, world, human, spent, hist>>
        /\ pc' \in {"complete", "fail"} /\ work' \in Work
        /\ pc = "judge"
    BY <1>5, RereadType DEF ReuseVerdict, FailWith, TypeOK, Work, Observations
  <2> QED
    BY <2>1, <1>a DEF Stage, TypeOK, Placed, AgentPlaces, Places, run, world
<1>6. CASE ReadVerdict
  <2>1. /\ snap' \in View /\ snap'.state = snap.state
        /\ view' = view /\ UNCHANGED <<run, work, world, human, spent, hist>>
        /\ pc' = "verdict" /\ pc = "judge"
    BY <1>6, RereadType DEF ReadVerdict, TypeOK
  <2> QED
    BY <2>1 DEF Stage, TypeOK, Placed, AgentPlaces, Places, run, world
<1>7. CASE VerdictRefused
  BY <1>7, LeaveTypes DEF VerdictRefused, TypeOK
<1>8. CASE RecordVerdict
  <2>1. work.commit \in Commits /\ VerdictAt[work.commit] \in Verdicts
    BY <1>8, EngineAssumption DEF RecordVerdict, VerdictUsable, Placed
  <2>2. VerdictEvent(VerdictAt[work.commit], work.commit) \in Event
    BY <2>1, VerdictEventType
  <2>3. /\ view' \in View /\ snap' \in View /\ snap'.state = snap.state
        /\ UNCHANGED <<run, world, human, spent>>
        /\ pc' \in {"complete", "fail"} /\ work' \in Work /\ pc = "verdict"
        /\ hist' = [hist EXCEPT !.verdicts[work.commit] = @ + 1]
    BY <1>8, <2>2, RereadType, ApplyType
       DEF RecordVerdict, LogAppend, FailWith, TypeOK, Work, Observations
  <2>4. hist' \in History
    BY <2>1, <2>3 DEF TypeOK, History
  <2> QED
    BY <2>3, <2>4, <1>a DEF Stage, TypeOK, Placed, AgentPlaces, Places, run, world
<1>9. CASE CompleteAccepted
  <2>1. Stage \in STAGES
    BY <1>9 DEF CompleteAccepted, Placed
  <2>2. Actor \in Actors
    BY EngineAssumption DEF Actor
  <2>3. DoneEvent(Stage, NoStage, Actor, work.anchored) \in Event
    <3>1. BlankEvent("stage_done", Stage) \in Event
      BY StageType, BlankEventType DEF EventTypes
    <3> QED
      BY <3>1, <2>2 DEF DoneEvent, Event, TypeOK, Work
  <2>4. Outcome.next.stage \in KnownStages
    <3>1. Outcome.next \in LifecycleState(Actors)
      BY <2>3, MachineInputType, TransitionType DEF Outcome, TypeOK, View
    <3> QED
      BY <3>1 DEF LifecycleState
  <2>5. DoneEvent(Stage, Outcome.next.stage, Actor, work.anchored) \in Event
    BY <2>2, <2>4, StageType, EngineEventTypes DEF TypeOK, Work
  <2> QED
    BY <1>9, <2>5, ApplyType, LeaveTypes DEF CompleteAccepted, LogAppend, TypeOK
<1>10. CASE CompleteRefused
  BY <1>10, LeaveTypes DEF CompleteRefused, TypeOK
<1>11. CASE RecordFailure
  <2>1. view' \in View
    BY <1>11, <1>b, ApplyType DEF RecordFailure, LogAppend, TypeOK
  <2> QED
    BY <1>11, <2>1 DEF RecordFailure, GoTo, Stage,
                       TypeOK, Placed, AgentPlaces, Places, run, world
<1>12. ASSUME NEW escalate \in BOOLEAN, RecordDecision(escalate)
       PROVE  IType'
  <2>1. view' \in View
    BY <1>12, <1>b, ApplyType DEF RecordDecision, LogAppend, TypeOK
  <2>2. Stage \in STAGES
    BY <1>12 DEF RecordDecision, Placed
  <2> QED
    BY <1>12, <2>1, <2>2, LeaveTypes DEF RecordDecision, TypeOK, History
<1> QED
  BY <1>1, <1>2, <1>3, <1>4, <1>5, <1>6, <1>7, <1>8, <1>9, <1>10, <1>11, <1>12
     DEF FinishStep

LEMMA IntegrateTypes == IType /\ IntegrateStep => IType'
<1> SUFFICES ASSUME IType, IntegrateStep PROVE IType'
  OBVIOUS
<1> USE DEF IType
<1>a. "integrate" \in STAGES
  BY DEF STAGES
<1>1. CASE IntegrateBlocked
  BY <1>1, LeaveTypes DEF IntegrateBlocked, TypeOK
<1>2. CASE MarkMerge
  <2>1. StartedEvent("integrate", MergeHandle) \in Event
    BY <1>a, EngineEventTypes DEF KnownStages, HandleIds
  <2> QED
    BY <1>2, <2>1, ApplyType
       DEF MarkMerge, LogAppend, GoTo, AtIntegrate, Stage,
           TypeOK, Placed, AgentPlaces, Places, run, world
<1>3. ASSUME NEW anchored \in BOOLEAN, ConfirmMerge(anchored)
      PROVE  IType'
  BY <1>3, <1>a DEF ConfirmMerge, AtIntegrate, Stage,
                    TypeOK, Placed, AgentPlaces, Places, Work, run, world
<1>4. CASE ReadHead
  <2>1. /\ snap' \in View /\ snap'.state = snap.state
        /\ UNCHANGED <<view, run, work, world, human, spent, hist>>
        /\ pc' = "merging" /\ pc = "merge"
    BY <1>4, RereadType DEF ReadHead, TypeOK
  <2> QED
    BY <2>1 DEF Stage, TypeOK, Placed, AgentPlaces, Places, run, world
<1>5. ASSUME NEW anchored \in BOOLEAN, MergeSucceeds(anchored)
      PROVE  IType'
  BY <1>5, <1>a DEF MergeSucceeds, Stage,
                    TypeOK, Placed, AgentPlaces, Places, Work, run
<1>6. CASE MergeFails
  BY <1>6, <1>a DEF MergeFails, FailWith, Stage,
                    TypeOK, Placed, AgentPlaces, Places, Work, Observations, run, world
<1> QED
  BY <1>1, <1>2, <1>3, <1>4, <1>5, <1>6 DEF IntegrateStep

LEMMA DecisionEventType ==
  ASSUME NEW kind \in DecisionKinds, NEW target \in STAGES \cup {NoStage},
         NEW current \in KnownStages
  PROVE  /\ DecisionEvent(kind, target, current) \in Event
         /\ DecisionEvent(kind, target, current).type = "human_decision"
<1>1. BlankEvent("human_decision", NoStage) \in Event
  BY BlankEventType DEF EventTypes
<1>2. BlankEvent("human_decision", NoStage).type = "human_decision"
  BY DEF BlankEvent
<1>3. CASE kind = "override"
  BY <1>1, <1>2, <1>3 DEF DecisionEvent, Event, KnownStages
<1>4. CASE kind = "stop"
  BY <1>1, <1>2, <1>4 DEF DecisionEvent, Event, KnownStages, TERMINAL
<1>5. CASE kind = "approve"
  BY <1>1, <1>2, <1>5 DEF DecisionEvent, Event
<1>6. CASE kind \in {"pause", "resume"}
  BY <1>1, <1>2, <1>6 DEF DecisionEvent, Event
<1> QED
  BY <1>3, <1>4, <1>5, <1>6 DEF DecisionKinds

LEMMA NoDecisionType == NoDecision \in Event /\ NoDecision.type = "decision"
<1>1. NoDecision \in Event
  BY BlankEventType DEF NoDecision, EventTypes
<1> QED
  BY <1>1 DEF NoDecision, BlankEvent

LEMMA HumanTypes == IType /\ HumanStep => IType'
<1> SUFFICES ASSUME IType, HumanStep PROVE IType'
  OBVIOUS
<1> USE DEF IType
<1>1. ASSUME NEW d \in Decisions, DecideRead(d[1], d[2])
      PROVE  IType'
  <2>1. d[1] \in DecisionKinds /\ d[2] \in STAGES \cup {NoStage}
    BY EngineAssumption
  <2>2. FoldedStage \in KnownStages
    BY DEF FoldedStage, TypeOK, View, KnownStages, STAGES
  <2>3. human' \in Event
    BY <1>1, <2>1, <2>2, DecisionEventType DEF DecideRead
  <2> QED
    BY <1>1, <2>3 DEF DecideRead, Stage, TypeOK, Placed, run, world
<1>2. CASE DecideAppend
  <2>1. view' \in View
    BY <1>2, ApplyType DEF DecideAppend, LogAppend, TypeOK
  <2>2. hist' \in History
    BY <1>2 DEF DecideAppend, TypeOK, History
  <2> QED
    BY <1>2, <2>1, <2>2, NoDecisionType DEF DecideAppend, Stage, TypeOK, Placed, run, world
<1> QED
  BY <1>1, <1>2 DEF HumanStep

LEMMA EnvironmentTypes == IType /\ Environment => IType'
<1> SUFFICES ASSUME IType, Environment PROVE IType'
  OBVIOUS
<1> USE DEF IType
<1>1. CASE ClockRunsOut
  BY <1>1 DEF ClockRunsOut, Stage, TypeOK, Placed, world
<1>2. CASE Crash
  BY <1>2, EmptyViewType, NoWorkType
     DEF Crash, Leave, TypeOK, Placed, AgentPlaces, Places, run, world
<1>3. ASSUME NEW h \in Handles, NEW c \in {"ok", "bad"}, WorkerExits(h, c)
      PROVE  IType'
  <2>1. workers' \in Workers
    BY <1>3 DEF WorkerExits, TypeOK, Workers, Conditions
  <2> QED
    BY <1>3, <2>1 DEF WorkerExits, Stage, TypeOK, Placed, run
<1> QED
  BY <1>1, <1>2, <1>3 DEF Environment

LEMMA LaunchTypes ==
  ASSUME IType, NEW m \in Modes, Launch(m)
  PROVE  IType'
<1>1. view.starts \in Nat
  BY DEF IType, TypeOK, View
<1>2. hist' \in History
  BY DEF Launch, IType, TypeOK, History
<1>3. spent' \in [runs: Nat, crashes: Nat, decisions: Nat]
  BY DEF Launch, IType, TypeOK
<1>4. TypeOK'
  BY <1>1, <1>2, <1>3 DEF Launch, IType, TypeOK, Places, world
<1>5. Placed'
  BY DEF Launch, Placed, AgentPlaces
<1> QED
  BY <1>4, <1>5 DEF IType

LEMMA StutterTypes == IType /\ UNCHANGED vars => IType'
BY DEF IType, TypeOK, Placed, Stage, vars

LEMMA NextTypes == IType /\ [Next]_vars => IType'
BY LoopTypes, DispatchTypes, StartTypes, FinishTypes, IntegrateTypes, HumanTypes,
   EnvironmentTypes, LaunchTypes, StutterTypes
   DEF Next, RunStep

(* Every variable of the engine keeps its type, and the process never      *)
(* works on a stage its place does not belong to (engine.js step and the   *)
(* handlers it dispatches to).                                             *)
THEOREM TypeInvariant == Spec => []IType
<1>1. Init => IType
  BY InitTypes DEF IType
<1> QED
  BY <1>1, NextTypes, PTL DEF Spec

THEOREM TypesHold == Spec => []TypeOK
BY TypeInvariant, PTL DEF IType

-----------------------------------------------------------------------------
(***************************************************************************)
(* The safety invariants.                                                  *)
(*                                                                         *)
(* Most steps of a run neither start a worker nor append an event the      *)
(* start bookkeeping counts: QuietStep says so once, and the lemmas of     *)
(* this section show it for the steps of Engine, with where they lead.     *)
(* Each invariant is then proved against the few steps that are not quiet. *)
(***************************************************************************)

(* What an appended event changes in the folds the invariants speak of.    *)

SameBooks(v, w) ==
  /\ w.starts = v.starts
  /\ w.consumed = v.consumed
  /\ \A s \in STAGES : /\ w.open[s].handle = v.open[s].handle
                       /\ w.open[s].starting = v.open[s].starting

LEMMA ApplyFolds ==
  ASSUME NEW v \in View, NEW e
  PROVE  /\ \A s \in STAGES : Apply(v, e).open[s] = Opened(v.open[s], e, s)
         /\ IsAgentStart(e) => Apply(v, e).starts = v.starts + 1
         /\ ~IsAgentStart(e) => Apply(v, e).starts = v.starts
         /\ e.type = "audit_verdict" /\ e.stage = "audit"
              => Apply(v, e).consumed = v.consumed \cup {e.commit}
         /\ e.type # "audit_verdict" => Apply(v, e).consumed = v.consumed
<1>1. v.starts \in Nat
  BY DEF View
<1>2. v.consumed \cup {} = v.consumed
  OBVIOUS
<1>3. Apply(v, e).starts = v.starts + (IF IsAgentStart(e) THEN 1 ELSE 0)
  BY DEF Apply
<1>4. Apply(v, e).consumed
        = v.consumed \cup (IF e.type = "audit_verdict" /\ e.stage = "audit" THEN {e.commit} ELSE {})
  BY DEF Apply
<1>5. \A s \in STAGES : Apply(v, e).open[s] = Opened(v.open[s], e, s)
  BY DEF Apply
<1>6. IsAgentStart(e) \in BOOLEAN
  BY DEF IsAgentStart
<1> QED
  BY <1>1, <1>2, <1>3, <1>4, <1>5, <1>6

(* Only four kinds of event are bookkeeping.                               *)
LEMMA OtherEvents ==
  ASSUME NEW v \in View, NEW e \in Event,
         e.type \in {"enforcement", "decision", "stage_start_unknown"}
  PROVE  SameBooks(v, Apply(v, e))
<1>1. ASSUME NEW s \in STAGES
      PROVE  /\ Opened(v.open[s], e, s).handle = v.open[s].handle
             /\ Opened(v.open[s], e, s).starting = v.open[s].starting
  BY DEF Opened, Names, View, OpenStart
<1> QED
  BY <1>1, ApplyFolds DEF SameBooks, IsAgentStart

(* A bookkeeping event of a stage leaves the other stages alone, and the   *)
(* starts and the verdicts too unless it is a start or a verdict.          *)
LEMMA StageEvents ==
  ASSUME NEW v \in View, NEW e \in Event, e.type # "human_decision"
  PROVE  /\ \A s \in STAGES \ {e.stage} : Apply(v, e).open[s] = v.open[s]
         /\ e.type # "stage_started" => Apply(v, e).starts = v.starts
         /\ e.type # "audit_verdict" => Apply(v, e).consumed = v.consumed
<1>1. \A s \in STAGES \ {e.stage} : Opened(v.open[s], e, s) = v.open[s]
  BY DEF Opened, Names
<1> QED
  BY <1>1, ApplyFolds DEF IsAgentStart

LEMMA HumanEvents ==
  ASSUME NEW v \in View, NEW e \in Event, e.type = "human_decision"
  PROVE  /\ Apply(v, e).starts = v.starts
         /\ Apply(v, e).consumed = v.consumed
         /\ \A s \in STAGES :
              /\ Apply(v, e).open[s].handle = v.open[s].handle
              /\ Apply(v, e).open[s].starting
                   = (v.open[s].starting /\ ~Names(e, s))
<1>1. ASSUME NEW s \in STAGES
      PROVE  /\ Opened(v.open[s], e, s).handle = v.open[s].handle
             /\ Opened(v.open[s], e, s).starting
                  = (v.open[s].starting /\ ~Names(e, s))
  <2>1. v.open[s] \in OpenStart
    BY DEF View
  <2>2. CASE Names(e, s)
    BY <2>1, <2>2 DEF Opened, OpenStart
  <2>3. CASE ~Names(e, s)
    BY <2>1, <2>3 DEF Opened, OpenStart
  <2> QED
    BY <2>2, <2>3
<1> QED
  BY <1>1, ApplyFolds DEF IsAgentStart

(* The fields of the events the engine appends.                            *)
LEMMA EventFields ==
  ASSUME NEW s
  PROVE  /\ \A t : BlankEvent(t, s).type = t /\ BlankEvent(t, s).stage = s
         /\ \A h : /\ StartedEvent(s, h).type = "stage_started"
                   /\ StartedEvent(s, h).stage = s
                   /\ StartedEvent(s, h).handle = h
         /\ \A r : EnforcementEvent(s, r).type = "enforcement"
         /\ \A v, c : /\ VerdictEvent(v, c).type = "audit_verdict"
                      /\ VerdictEvent(v, c).commit = c
         /\ \A t, a, b : /\ DoneEvent(s, t, a, b).type = "stage_done"
                         /\ DoneEvent(s, t, a, b).stage = s
BY DEF BlankEvent, StartedEvent, EnforcementEvent, VerdictEvent, DoneEvent

-----------------------------------------------------------------------------
(* The quiet steps of a run, and where they lead.                          *)

QuietStep ==
  /\ SameBooks(view, view')
  /\ UNCHANGED <<workers, mode, base>>
  /\ hist'.unsettled = hist.unsettled /\ hist'.named = hist.named
  /\ hist'.spawned = hist.spawned /\ hist'.verdicts = hist.verdicts

LEMMA SameView == view' = view => SameBooks(view, view')
BY DEF SameBooks

LEMMA LoopIsQuiet ==
  ASSUME IType, LoopStep
  PROVE  /\ QuietStep
         /\ pc \in {"loop", "limit"} /\ pc' \in {"off", "limit", "step"}
         /\ pc' = "step" => snap' = view /\ view' = view
<1>1. SameBooks(view, view')
  <2>1. CASE RecordWallBreach
    <3>1. EnforcementEvent(Stage, "R-RUN-LIMIT") \in Event
      BY StageType, EngineEventTypes DEF IType, EnforcementRules
    <3> QED
      BY <2>1, <3>1, EventFields, OtherEvents DEF RecordWallBreach, LogAppend, IType, TypeOK
  <2>2. CASE StepCap \/ WallBreach \/ ReadLog
    BY <2>2, SameView DEF StepCap, WallBreach, ReadLog
  <2> QED
    BY <2>1, <2>2 DEF LoopStep
<1> QED
  BY <1>1 DEF LoopStep, StepCap, WallBreach, RecordWallBreach, ReadLog, Leave,
              QuietStep, run, world

LEMMA DispatchIsQuiet ==
  ASSUME IType, DispatchStep
  PROVE  /\ QuietStep
         /\ pc = "step" /\ pc' \in {"off", "loop", "enforce", "fail", "complete"}
         /\ pc' \notin {"off", "loop"} => snap' = snap
         /\ pc' \in {"enforce", "fail"} =>
              /\ Open.handle # NoHandle
              /\ StatusProof => workers[Open.handle].condition # "live"
         /\ pc' = "complete" => Stage \notin Runtimes
         /\ pc' = "fail" => work'.observation = "settled"
<1>1. SameBooks(view, view')
  <2>1. CASE RefuseStart
    <3>1. EnforcementEvent(Stage, "R-RUN-LIMIT") \in Event
      BY StageType, EngineEventTypes DEF IType, EnforcementRules
    <3> QED
      BY <2>1, <3>1, EventFields, OtherEvents DEF RefuseStart, LogAppend, IType, TypeOK
  <2>2. CASE ~RefuseStart
    BY <2>2, SameView
       DEF DispatchStep, StepTerminal, StepRefused, PollLive, PollSucceeded, PollFailed,
           GateWaits, GatePasses
  <2> QED
    BY <2>1, <2>2
<1>2. StepTerminal \/ StepRefused \/ RefuseStart \/ PollLive \/ GateWaits
        => /\ pc = "step" /\ pc' \in {"off", "loop"}
           /\ UNCHANGED <<workers, mode, base, hist>>
  BY DEF StepTerminal, StepRefused, RefuseStart, MayStart, PollLive, Polls, GateWaits, Wait,
         Leave, Again, run, world
<1>3. PollSucceeded =>
        /\ pc = "step" /\ pc' = "enforce" /\ snap' = snap
        /\ Open.handle # NoHandle /\ workers[Open.handle].condition # "live"
        /\ UNCHANGED <<workers, mode, base, hist>>
  BY DEF PollSucceeded, Polls, GoTo, run, world
<1>4. PollFailed =>
        /\ pc = "step" /\ pc' = "fail" /\ snap' = snap
        /\ Open.handle # NoHandle
        /\ StatusProof => workers[Open.handle].condition # "live"
        /\ work'.observation = "settled"
        /\ UNCHANGED <<workers, mode, base, hist>>
  BY DEF PollFailed, Polls, FailWith, run, world, IType, TypeOK, Work
<1>5. ASSUME NEW anchored \in BOOLEAN, GatePasses(anchored)
      PROVE  /\ pc = "step" /\ pc' = "complete" /\ snap' = snap
             /\ Stage \notin Runtimes
             /\ UNCHANGED <<workers, mode, base, hist>>
  BY <1>5 DEF GatePasses, IsGate, run, world
<1> QED
  BY <1>1, <1>2, <1>3, <1>4, <1>5 DEF DispatchStep, QuietStep

(* The steps of completeAgentStage that append nothing or an enforcement.  *)
JudgingStep ==
  \/ EnforceRefuses \/ EnforcePasses \/ AnchorMissing
  \/ (\E commit \in Commits \cup {NoCommit} : AnchorFound(commit))
  \/ ReuseVerdict \/ ReadVerdict \/ VerdictRefused \/ CompleteRefused

LEMMA JudgingIsQuiet ==
  ASSUME IType, JudgingStep
  PROVE  /\ QuietStep
         /\ pc \in {"enforce", "anchor", "judge", "verdict", "complete"}
         /\ pc' \in {"off", "anchor", "judge", "verdict", "complete", "fail"}
         /\ pc' # "off" => Stage' = Stage
         /\ pc' = "verdict" => snap'.consumed = view.consumed
         /\ pc' = "fail" => work'.observation = "proofFailed"
<1>1. SameBooks(view, view')
  <2>1. CASE EnforceRefuses
    <3>1. EnforcementEvent(Stage, "R-PATH-SCOPE") \in Event
      BY StageType, EngineEventTypes DEF IType, EnforcementRules
    <3> QED
      BY <2>1, <3>1, EventFields, OtherEvents DEF EnforceRefuses, LogAppend, IType, TypeOK
  <2>2. CASE ~EnforceRefuses
    BY <2>2, SameView
       DEF JudgingStep, EnforcePasses, AnchorMissing, AnchorFound, ReuseVerdict, ReadVerdict,
           VerdictRefused, CompleteRefused
  <2> QED
    BY <2>1, <2>2
<1>2. EnforceRefuses \/ AnchorMissing \/ VerdictRefused \/ CompleteRefused
        => /\ pc \in {"enforce", "anchor", "verdict", "complete"} /\ pc' = "off"
           /\ UNCHANGED <<workers, mode, base, hist>>
  BY DEF EnforceRefuses, AnchorMissing, VerdictRefused, CompleteRefused, Leave, run, world
<1>3. EnforcePasses => /\ pc = "enforce" /\ pc' = "anchor" /\ Stage' = Stage
                       /\ UNCHANGED <<workers, mode, base, hist>>
  BY DEF EnforcePasses, GoTo, Stage, run, world
<1>4. ASSUME NEW commit, AnchorFound(commit)
      PROVE  /\ pc = "anchor" /\ pc' \in {"judge", "complete"} /\ Stage' = Stage
             /\ UNCHANGED <<workers, mode, base, hist>>
  BY <1>4 DEF AnchorFound, Stage, run, world
<1>5. /\ Reread(view).state = snap.state
      /\ Reread(view).consumed = view.consumed
  BY DEF IType, TypeOK, Reread, View
<1>6. ReuseVerdict =>
        /\ pc = "judge" /\ pc' \in {"complete", "fail"} /\ Stage' = Stage
        /\ pc' = "fail" => work'.observation = "proofFailed"
        /\ UNCHANGED <<workers, mode, base, hist>>
  BY <1>5 DEF ReuseVerdict, FailWith, Stage, run, world, IType, TypeOK, Work
<1>7. ReadVerdict =>
        /\ pc = "judge" /\ pc' = "verdict" /\ Stage' = Stage
        /\ snap'.consumed = view.consumed
        /\ UNCHANGED <<workers, mode, base, hist>>
  BY <1>5 DEF ReadVerdict, Stage, run, world
<1> QED
  BY <1>1, <1>2, <1>3, <1>4, <1>6, <1>7 DEF JudgingStep, QuietStep

(* The steps of integrateStage but the one that records the marker.        *)
MergingStep ==
  \/ IntegrateBlocked \/ ReadHead \/ MergeFails
  \/ \E anchored \in BOOLEAN : ConfirmMerge(anchored) \/ MergeSucceeds(anchored)

LEMMA MergingIsQuiet ==
  ASSUME IType, MergingStep
  PROVE  /\ QuietStep
         /\ pc \in {"step", "merge", "merging"} /\ Stage = "integrate"
         /\ pc' \in {"off", "merge", "merging", "complete", "fail"}
         /\ pc' # "off" => Stage' = Stage
         /\ pc' = "fail" => work'.observation = "mergeFailed"
<1>1. SameBooks(view, view')
  BY SameView DEF MergingStep, IntegrateBlocked, ReadHead, MergeFails, ConfirmMerge,
                  MergeSucceeds
<1>2. Reread(view).state = snap.state
  BY DEF IType, TypeOK, Reread, View
<1>3. IntegrateBlocked => /\ pc = "step" /\ Stage = "integrate" /\ pc' = "off"
                          /\ UNCHANGED <<workers, mode, base, hist>>
  BY DEF IntegrateBlocked, AtIntegrate, Leave, run, world
<1>4. ReadHead => /\ pc = "merge" /\ pc' = "merging" /\ Stage' = Stage
                  /\ UNCHANGED <<workers, mode, base, hist>>
  BY <1>2 DEF ReadHead, Stage, run, world
<1>5. MergeFails => /\ pc = "merging" /\ pc' = "fail" /\ Stage' = Stage
                    /\ work'.observation = "mergeFailed"
                    /\ UNCHANGED <<workers, mode, base, hist>>
  BY DEF MergeFails, FailWith, Stage, run, world, IType, TypeOK, Work
<1>6. ASSUME NEW anchored \in BOOLEAN, ConfirmMerge(anchored)
      PROVE  /\ pc = "step" /\ Stage = "integrate" /\ pc' \in {"merge", "complete"}
             /\ Stage' = Stage /\ UNCHANGED <<workers, mode, base, hist>>
  BY <1>6 DEF ConfirmMerge, AtIntegrate, Stage, run, world
<1>7. ASSUME NEW anchored \in BOOLEAN, MergeSucceeds(anchored)
      PROVE  /\ pc = "merging" /\ pc' = "complete" /\ Stage' = Stage
             /\ UNCHANGED <<workers, mode, base, hist>>
  BY <1>7 DEF MergeSucceeds, Stage, run
<1> QED
  BY <1>1, <1>3, <1>4, <1>5, <1>6, <1>7 DEF MergingStep, QuietStep, IType, Placed

(* The steps that are not quiet: those of a start and of a failure, and    *)
(* the appends of a verdict, a completion and a merge marker.              *)
LEMMA RunStepCases ==
  RunStep =>
    \/ LoopStep \/ DispatchStep \/ StartStep \/ JudgingStep \/ MergingStep
    \/ RecordVerdict \/ CompleteAccepted \/ RecordFailure
    \/ (\E escalate \in BOOLEAN : RecordDecision(escalate))
    \/ MarkMerge
BY DEF RunStep, FinishStep, IntegrateStep, JudgingStep, MergingStep

-----------------------------------------------------------------------------
(* What a human's process holds is a human decision.                       *)

HumanDecides == human # NoDecision => human.type = "human_decision"

LEMMA RunKeepsHuman == RunStep => human' = human
<1>1. LoopStep => human' = human
  BY DEF LoopStep, StepCap, WallBreach, RecordWallBreach, ReadLog
<1>2. DispatchStep => human' = human
  BY DEF DispatchStep, StepTerminal, StepRefused, PollLive, PollSucceeded, PollFailed,
         GateWaits, GatePasses, RefuseStart
<1>3. StartStep => human' = human
  BY DEF StartStep, BeginStart, CallStarts, CallThrows, CallLosesWorker, CallUnknown,
         RecordStarted, RecordUnknown
<1>4. FinishStep => human' = human
  BY DEF FinishStep, EnforceRefuses, EnforcePasses, AnchorMissing, AnchorFound, ReuseVerdict,
         ReadVerdict, VerdictRefused, RecordVerdict, CompleteAccepted, CompleteRefused,
         RecordFailure, RecordDecision
<1>5. IntegrateStep => human' = human
  BY DEF IntegrateStep, IntegrateBlocked, MarkMerge, ReadHead, MergeFails, ConfirmMerge,
         MergeSucceeds
<1> QED
  BY <1>1, <1>2, <1>3, <1>4, <1>5 DEF RunStep

LEMMA EnvironmentKeepsLog ==
  (\E m \in Modes : Launch(m)) \/ Environment => UNCHANGED <<view, human>>
BY DEF Launch, Environment, ClockRunsOut, Crash, WorkerExits

LEMMA HumanDecidesStep == IType /\ HumanDecides /\ [Next]_vars => HumanDecides'
<1> SUFFICES ASSUME IType, HumanDecides, [Next]_vars PROVE HumanDecides'
  OBVIOUS
<1>1. ASSUME NEW d \in Decisions, DecideRead(d[1], d[2])
      PROVE  HumanDecides'
  <2>1. d[1] \in DecisionKinds /\ d[2] \in STAGES \cup {NoStage}
    BY EngineAssumption
  <2>2. FoldedStage \in KnownStages
    BY DEF FoldedStage, IType, TypeOK, View, KnownStages, STAGES
  <2> QED
    BY <1>1, <2>1, <2>2, DecisionEventType DEF DecideRead, HumanDecides
<1>2. CASE DecideAppend
  BY <1>2 DEF DecideAppend, HumanDecides, NoDecision
<1>3. CASE human' = human
  BY <1>3 DEF HumanDecides, NoDecision
<1> QED
  BY <1>1, <1>2, <1>3, RunKeepsHuman, EnvironmentKeepsLog DEF Next, HumanStep, vars

THEOREM HumanInvariant == Spec => []HumanDecides
<1>1. Init => HumanDecides
  BY DEF Init, HumanDecides
<1> QED
  BY <1>1, HumanDecidesStep, TypeInvariant, PTL DEF Spec

(* Types and the human's decision, which every later proof starts from.    *)
Base == IType /\ HumanDecides

LEMMA BaseInvariant == Spec => []Base
BY TypeInvariant, HumanInvariant, PTL DEF Base

-----------------------------------------------------------------------------
(* A verdict is judged once.                                               *)

JudgedOnceInv ==
  /\ \A c \in Commits : /\ hist.verdicts[c] <= 1
                        /\ hist.verdicts[c] = 1 => c \in view.consumed
  /\ pc = "verdict" => snap.consumed = view.consumed

LEMMA JudgedOnceKept ==
  ASSUME JudgedOnceInv, hist'.verdicts = hist.verdicts,
         view.consumed \subseteq view'.consumed,
         pc' = "verdict" => snap'.consumed = view'.consumed
  PROVE  JudgedOnceInv'
BY DEF JudgedOnceInv

LEMMA ConsumedGrows ==
  ASSUME IType, NEW e, view' = Apply(view, e)
  PROVE  view.consumed \subseteq view'.consumed
BY DEF Apply

LEMMA JudgedOnceStep == Base /\ JudgedOnceInv /\ [Next]_vars => JudgedOnceInv'
<1> SUFFICES ASSUME Base, JudgedOnceInv, [Next]_vars PROVE JudgedOnceInv'
  OBVIOUS
<1> USE DEF Base
<1>1. CASE LoopStep \/ DispatchStep \/ JudgingStep \/ MergingStep
  BY <1>1, LoopIsQuiet, DispatchIsQuiet, JudgingIsQuiet, MergingIsQuiet, JudgedOnceKept
     DEF QuietStep, SameBooks
<1>2. CASE StartStep
  <2>1. /\ hist'.verdicts = hist.verdicts /\ pc' # "verdict"
        /\ view' = view \/ \E e : view' = Apply(view, e)
    <3>1. \A h \in Handles : Spawn(h) => hist'.verdicts = hist.verdicts
      BY DEF Spawn, IType, TypeOK, History
    <3> QED
      BY <1>2, <3>1
         DEF StartStep, BeginStart, CallStarts, CallThrows, CallLosesWorker, CallUnknown,
             RecordStarted, RecordUnknown, LogAppend, GoTo, FailWith, Leave, Again,
             IType, TypeOK, History
  <2> QED
    BY <2>1, ConsumedGrows, JudgedOnceKept
<1>3. CASE CompleteAccepted \/ RecordFailure \/ MarkMerge
           \/ \E escalate \in BOOLEAN : RecordDecision(escalate)
  <2>1. /\ hist'.verdicts = hist.verdicts /\ pc' # "verdict"
        /\ \E e : view' = Apply(view, e)
    BY <1>3 DEF CompleteAccepted, RecordFailure, MarkMerge, RecordDecision, LogAppend, GoTo,
                Leave, Again, IType, TypeOK, History
  <2> QED
    BY <2>1, ConsumedGrows, JudgedOnceKept
<1>4. CASE RecordVerdict
  <2>1. /\ work.commit \in Commits /\ work.commit \notin view.consumed
    BY <1>4 DEF RecordVerdict, VerdictUsable, JudgedOnceInv, IType, Placed
  <2>2. view'.consumed = view.consumed \cup {work.commit}
    <3>1. view' = Apply(view, VerdictEvent(VerdictAt[work.commit], work.commit))
      BY <1>4 DEF RecordVerdict, LogAppend
    <3>2. /\ VerdictEvent(VerdictAt[work.commit], work.commit).type = "audit_verdict"
          /\ VerdictEvent(VerdictAt[work.commit], work.commit).stage = "audit"
          /\ VerdictEvent(VerdictAt[work.commit], work.commit).commit = work.commit
      BY DEF VerdictEvent, BlankEvent
    <3>3. view \in View
      BY DEF IType, TypeOK
    <3> QED
      BY <3>1, <3>2, <3>3, ApplyFolds
  <2>3. hist.verdicts \in [Commits -> Nat] /\ hist.verdicts[work.commit] = 0
    BY <2>1 DEF JudgedOnceInv, IType, TypeOK, History
  <2>4. hist'.verdicts = [hist.verdicts EXCEPT ![work.commit] = 1]
    BY <1>4, <2>3 DEF RecordVerdict, IType, TypeOK, History
  <2>5. pc' # "verdict"
    BY <1>4 DEF RecordVerdict, FailWith
  <2> QED
    BY <2>1, <2>2, <2>3, <2>4, <2>5 DEF JudgedOnceInv
<1>5. CASE DecideAppend
  <2>1. view'.consumed = view.consumed
    BY <1>5, HumanEvents DEF DecideAppend, LogAppend, HumanDecides, IType, TypeOK
  <2>2. hist'.verdicts = hist.verdicts /\ UNCHANGED <<pc, snap>>
    BY <1>5 DEF DecideAppend, IType, TypeOK, History
  <2> QED
    BY <2>1, <2>2 DEF JudgedOnceInv
<1>6. CASE (\E d \in Decisions : DecideRead(d[1], d[2])) \/ Environment
  BY <1>6 DEF DecideRead, Environment, ClockRunsOut, Crash, WorkerExits, Leave, JudgedOnceInv
<1>7. ASSUME NEW m \in Modes, Launch(m)
      PROVE  JudgedOnceInv'
  BY <1>7 DEF Launch, JudgedOnceInv, IType, TypeOK, History
<1>8. CASE UNCHANGED vars
  BY <1>8 DEF vars, JudgedOnceInv
<1> QED
  BY <1>1, <1>2, <1>3, <1>4, <1>5, <1>6, <1>7, <1>8, RunStepCases DEF Next, HumanStep

(* However often an audit's step is interrupted and resumed, and whichever *)
(* attempt anchors at it again, a verdict commit is judged once (engine.js *)
(* judgeAudit, verdictThisAttempt and verdictConsumed).                    *)
THEOREM VerdictIsJudgedOnce == Spec => []VerdictJudgedOnce
<1>1. Init => JudgedOnceInv
  BY DEF Init, JudgedOnceInv
<1>2. JudgedOnceInv => VerdictJudgedOnce
  BY DEF JudgedOnceInv, VerdictJudgedOnce
<1> QED
  BY <1>1, <1>2, JudgedOnceStep, BaseInvariant, PTL DEF Spec

-----------------------------------------------------------------------------
(* A run keeps to its start limit.                                         *)

(* Where a worker may exist that the log does not yet, or will never, show *)
(* as a start.                                                             *)
Untold ==
  \/ pc \in {"record", "unknown"}
  \/ pc \in {"fail", "diagnose"} /\ work.observation = "startError"

LimitInv ==
  /\ pc = "step" => snap.starts = view.starts
  /\ pc = "record" => work.handle \in Handles
  /\ mode # "once" =>
       /\ hist.spawned <= MaxStarts
       /\ Untold => base + hist.spawned <= view.starts + 1
       /\ pc # "off" /\ ~Untold => base + hist.spawned <= view.starts
       /\ pc = "call" => view.starts - base < MaxStarts

(* A step that starts nothing keeps to the limit, if it knows what it read *)
(* and does not forget a worker the log does not show.                     *)
LEMMA LimitKept ==
  ASSUME Base, Base', LimitInv, UNCHANGED <<mode, base>>,
         view'.starts = view.starts, hist'.spawned = hist.spawned,
         pc' = "step" => snap'.starts = view'.starts,
         pc' \notin {"call", "record"},
         pc # "off", Untold => Untold' \/ pc' = "off"
  PROVE  LimitInv'
<1>1. /\ view.starts \in Nat /\ base \in Nat /\ hist.spawned \in Nat
  BY DEF Base, IType, TypeOK, View, History
<1>2. MaxStarts \in Nat
  BY EngineAssumption
<1>3. Untold \in BOOLEAN /\ Untold' \in BOOLEAN
  BY DEF Untold
<1> HIDE DEF Untold
<1> QED
  BY <1>1, <1>2, <1>3 DEF LimitInv

LEMMA SpawnCounts ==
  ASSUME IType, NEW h \in Handles, Spawn(h)
  PROVE  hist'.spawned = hist.spawned + 1
BY DEF Spawn, IType, TypeOK, History

LEMMA LimitStart ==
  ASSUME Base, Base', LimitInv, StartStep
  PROVE  LimitInv'
<1> USE DEF Base
<1>a. /\ view \in View /\ view.starts \in Nat /\ base \in Nat /\ hist.spawned \in Nat
      /\ MaxStarts \in Nat
  BY EngineAssumption DEF IType, TypeOK, View, History
<1>1. CASE BeginStart
  <2>1. view'.starts = view.starts
    <3>1. view' = Apply(view, BlankEvent("stage_starting", Stage))
      BY <1>1 DEF BeginStart, LogAppend
    <3>2. ~IsAgentStart(BlankEvent("stage_starting", Stage))
      BY DEF BlankEvent, IsAgentStart
    <3> QED
      BY <1>a, <3>1, <3>2, ApplyFolds
  <2>2. /\ pc = "step" /\ pc' = "call" /\ UNCHANGED <<mode, base>>
        /\ hist'.spawned = hist.spawned
        /\ mode # "once" => ~(snap.starts - base >= MaxStarts)
    BY <1>1 DEF BeginStart, MayStart, StartsSpent, GoTo, run, IType, TypeOK, History
  <2> QED
    BY <1>a, <2>1, <2>2 DEF LimitInv, Untold
<1>2. ASSUME NEW h \in Handles, CallStarts(h)
      PROVE  LimitInv'
  <2>1. /\ pc = "call" /\ pc' = "record" /\ UNCHANGED <<mode, base, view>>
        /\ work'.handle = h /\ hist'.spawned = hist.spawned + 1
    BY <1>2, SpawnCounts DEF CallStarts, run, IType, TypeOK, Work
  <2> QED
    BY <1>a, <2>1 DEF LimitInv, Untold
<1>3. CASE CallThrows
  <2>1. /\ pc = "call" /\ pc' = "fail" /\ UNCHANGED <<mode, base, view, hist>>
        /\ work'.observation = "startError"
    BY <1>3 DEF CallThrows, FailWith, run, IType, TypeOK, Work
  <2> QED
    BY <1>a, <2>1 DEF LimitInv, Untold
<1>4. ASSUME NEW h \in Handles, CallLosesWorker(h)
      PROVE  LimitInv'
  <2>1. /\ pc = "call" /\ pc' = "fail" /\ UNCHANGED <<mode, base, view>>
        /\ work'.observation = "startError" /\ hist'.spawned = hist.spawned + 1
    BY <1>4, SpawnCounts DEF CallLosesWorker, FailWith, run, IType, TypeOK, Work
  <2> QED
    BY <1>a, <2>1 DEF LimitInv, Untold
<1>5. CASE CallUnknown
  <2>1. /\ pc = "call" /\ pc' = "unknown" /\ UNCHANGED <<mode, base, view>>
        /\ hist'.spawned \in {hist.spawned, hist.spawned + 1}
    BY <1>5, SpawnCounts DEF CallUnknown, GoTo, run
  <2> QED
    BY <1>a, <2>1 DEF LimitInv, Untold
<1>6. CASE RecordStarted
  <2>1. view'.starts = view.starts + 1
    <3>1. work.handle # MergeHandle
      BY <1>6, DistinctIds DEF RecordStarted, LimitInv
    <3>2. view' = Apply(view, StartedEvent(Stage, work.handle))
      BY <1>6 DEF RecordStarted, LogAppend
    <3>3. IsAgentStart(StartedEvent(Stage, work.handle))
      BY <3>1, EventFields DEF IsAgentStart
    <3> QED
      BY <1>a, <3>2, <3>3, ApplyFolds
  <2>2. /\ pc = "record" /\ pc' \in {"off", "loop"} /\ UNCHANGED <<mode, base, hist>>
    BY <1>6 DEF RecordStarted, Again, run
  <2> QED
    BY <1>a, <2>1, <2>2 DEF LimitInv, Untold
<1>7. CASE RecordUnknown
  <2>1. view'.starts = view.starts
    <3>1. view' = Apply(view, BlankEvent("stage_start_unknown", Stage))
      BY <1>7 DEF RecordUnknown, LogAppend
    <3>2. ~IsAgentStart(BlankEvent("stage_start_unknown", Stage))
      BY EventFields DEF IsAgentStart
    <3> QED
      BY <1>a, <3>1, <3>2, ApplyFolds
  <2>2. /\ pc = "unknown" /\ pc' = "off" /\ UNCHANGED <<mode, base, hist>>
    BY <1>7 DEF RecordUnknown, Leave, run
  <2> QED
    BY <1>a, <2>1, <2>2 DEF LimitInv, Untold
<1> QED
  BY <1>1, <1>2, <1>3, <1>4, <1>5, <1>6, <1>7 DEF StartStep

LEMMA LimitStep == Base /\ Base' /\ LimitInv /\ [Next]_vars => LimitInv'
<1> SUFFICES ASSUME Base, Base', LimitInv, [Next]_vars PROVE LimitInv'
  OBVIOUS
<1> USE DEF Base
<1>a. view \in View
  BY DEF IType, TypeOK
<1>1. CASE LoopStep \/ DispatchStep \/ JudgingStep \/ MergingStep
  BY <1>1, LoopIsQuiet, DispatchIsQuiet, JudgingIsQuiet, MergingIsQuiet, LimitKept
     DEF QuietStep, SameBooks, Untold
<1>2. CASE StartStep
  BY <1>2, LimitStart
<1>3. CASE RecordVerdict
  <2>1. view'.starts = view.starts
    <3>1. view' = Apply(view, VerdictEvent(VerdictAt[work.commit], work.commit))
      BY <1>3 DEF RecordVerdict, LogAppend
    <3>2. ~IsAgentStart(VerdictEvent(VerdictAt[work.commit], work.commit))
      BY DEF VerdictEvent, BlankEvent, IsAgentStart
    <3> QED
      BY <1>a, <3>1, <3>2, ApplyFolds
  <2>2. /\ pc = "verdict" /\ pc' \in {"complete", "fail"} /\ UNCHANGED <<mode, base>>
        /\ hist'.spawned = hist.spawned
    BY <1>3 DEF RecordVerdict, FailWith, run, IType, TypeOK, History
  <2> QED
    BY <2>1, <2>2, LimitKept DEF Untold
<1>4. CASE CompleteAccepted \/ RecordFailure \/ MarkMerge
  <2>1. view'.starts = view.starts
    <3>1. \E e : view' = Apply(view, e) /\ ~IsAgentStart(e)
      BY <1>4, EventFields DEF CompleteAccepted, RecordFailure, MarkMerge, LogAppend, IsAgentStart
    <3> QED
      BY <1>a, <3>1, ApplyFolds
  <2>2. /\ pc \in {"complete", "fail", "step"} /\ pc' \in {"off", "loop", "diagnose", "merge"}
        /\ UNCHANGED <<mode, base, hist>>
        /\ Untold => pc' = "diagnose" /\ work' = work
    BY <1>4 DEF CompleteAccepted, RecordFailure, MarkMerge, AtIntegrate, GoTo, Again, Untold, run
  <2>3. Untold => Untold'
    BY <2>2 DEF Untold
  <2> QED
    BY <2>1, <2>2, <2>3, LimitKept
<1>5. ASSUME NEW escalate \in BOOLEAN, RecordDecision(escalate)
      PROVE  LimitInv'
  <2>1. view'.starts = view.starts
    <3>1. view' = Apply(view, BlankEvent("decision", Stage))
      BY <1>5 DEF RecordDecision, LogAppend
    <3>2. ~IsAgentStart(BlankEvent("decision", Stage))
      BY DEF BlankEvent, IsAgentStart
    <3> QED
      BY <1>a, <3>1, <3>2, ApplyFolds
  <2>2. /\ pc = "diagnose" /\ pc' \in {"off", "loop"} /\ UNCHANGED <<mode, base>>
        /\ hist'.spawned = hist.spawned
        /\ Untold => pc' = "off"
    BY <1>5 DEF RecordDecision, MustEscalate, Leave, Again, Untold, run, IType, TypeOK, History
  <2> QED
    BY <2>1, <2>2, LimitKept
<1>6. CASE DecideAppend
  <2>1. view'.starts = view.starts
    BY <1>6, HumanEvents DEF DecideAppend, LogAppend, HumanDecides, IType, TypeOK
  <2>2. hist'.spawned = hist.spawned /\ UNCHANGED <<pc, snap, work, mode, base>>
    BY <1>6 DEF DecideAppend, run, IType, TypeOK, History
  <2> QED
    BY <2>1, <2>2 DEF LimitInv, Untold
<1>7. CASE \E d \in Decisions : DecideRead(d[1], d[2])
  BY <1>7 DEF DecideRead, run, LimitInv, Untold
<1>8. CASE Environment
  <2>1. CASE Crash
    BY <2>1 DEF Crash, Leave, run, LimitInv, Untold
  <2>2. CASE ~Crash
    BY <1>8, <2>2 DEF Environment, ClockRunsOut, WorkerExits, run, LimitInv, Untold
  <2> QED
    BY <2>1, <2>2
<1>9. ASSUME NEW m \in Modes, Launch(m)
      PROVE  LimitInv'
  <2>1. /\ pc' = "loop" /\ base' = view.starts /\ view' = view /\ hist'.spawned = 0
        /\ view.starts \in Nat
    BY <1>9, <1>a DEF Launch, IType, TypeOK, History, View
  <2> QED
    BY <2>1, EngineAssumption DEF LimitInv, Untold
<1>10. CASE UNCHANGED vars
  BY <1>10 DEF vars, LimitInv, Untold
<1> QED
  BY <1>1, <1>2, <1>3, <1>4, <1>5, <1>6, <1>7, <1>8, <1>9, <1>10, RunStepCases
     DEF Next, HumanStep

(* A run that is handed limits never starts more agents than its limit,    *)
(* counting those it lost track of (engine.js startLimitRefusal,           *)
(* runAgentStarts and startStage).                                         *)
THEOREM RunKeepsToStartLimit == Spec => []RunWithinStartLimit
<1>1. Init => LimitInv
  BY DEF Init, LimitInv
<1>2. LimitInv => RunWithinStartLimit
  BY DEF LimitInv, RunWithinStartLimit
<1> QED
  BY <1>1, <1>2, LimitStep, BaseInvariant, PTL DEF Spec

-----------------------------------------------------------------------------
(* No second worker beside an unsettled one.                               *)

Unsettled == hist.unsettled \cap Live

UnsettledAt(s) == {h \in Unsettled : workers[h].stage = s}

(* Every unsettled worker is the open handle of its stage, or its stage    *)
(* has a start of unknown outcome.                                         *)
Accounted ==
  \A h \in Unsettled :
     /\ workers[h].stage \in Runtimes
     /\ \/ view.open[workers[h].stage].handle = h
        \/ view.open[workers[h].stage].starting

(* A stage with an open handle has no start of unknown outcome.            *)
NotBoth ==
  \A s \in STAGES : view.open[s].handle # NoHandle => ~view.open[s].starting

(* The view a step dispatches on differs from the log only by what humans  *)
(* cleared since.                                                          *)
FreshRead ==
  pc = "step" =>
    \A s \in STAGES : /\ snap.open[s].handle = view.open[s].handle
                      /\ view.open[s].starting => snap.open[s].starting

(* Where the step's stage has no unsettled worker, and what surrounds a    *)
(* start.                                                                  *)
ClearPlaces == {"call", "enforce", "anchor", "judge", "verdict", "complete", "fail", "diagnose"}

ClearStage == pc \in ClearPlaces => UnsettledAt(Stage) = {}

StartUnderWay ==
  /\ pc = "call" => Stage \in hist.named \/ view.open[Stage].starting
  /\ pc = "record" => /\ work.handle \in Handles
                      /\ UnsettledAt(Stage) \subseteq {work.handle}

UsedHandles == \A h \in hist.unsettled : workers[h].condition # "none"

StartInv ==
  /\ OneUnsettledWorkerPerStage
  /\ Accounted /\ NotBoth /\ FreshRead /\ ClearStage /\ StartUnderWay /\ UsedHandles

(* A step that leaves the starts, the workers and the names alone, and     *)
(* that arrives only where no unsettled worker is.                         *)
LEMMA StartKept ==
  ASSUME Base, Base', StartInv,
         \A s \in STAGES : /\ view'.open[s].handle = view.open[s].handle
                           /\ view'.open[s].starting = view.open[s].starting,
         workers' = workers, hist'.unsettled = hist.unsettled, hist'.named = hist.named,
         pc' = "step" => snap' = view /\ view' = view,
         pc' \notin {"call", "record"},
         pc' \in ClearPlaces => UnsettledAt(Stage') = {}
  PROVE  StartInv'
<1>1. Live' = Live /\ Unsettled' = Unsettled
  BY DEF Live, Unsettled
<1>2. \A s : UnsettledAt(s)' = UnsettledAt(s)
  BY <1>1 DEF UnsettledAt
<1>3. Runtimes \subseteq STAGES
  BY EngineAssumption
<1>4. OneUnsettledWorkerPerStage'
  BY <1>1 DEF StartInv, OneUnsettledWorkerPerStage
<1>5. Accounted'
  BY <1>1, <1>3 DEF StartInv, Accounted
<1>6. NotBoth'
  BY DEF StartInv, NotBoth
<1>7. FreshRead'
  BY DEF FreshRead
<1>8. ClearStage'
  BY <1>2 DEF ClearStage
<1>9. StartUnderWay' /\ UsedHandles'
  BY DEF StartInv, StartUnderWay, UsedHandles
<1> QED
  BY <1>4, <1>5, <1>6, <1>7, <1>8, <1>9 DEF StartInv

(* A stage without a runtime has no worker, and one whose open handle is   *)
(* not live has none either.                                               *)
LEMMA NoWorkerThere ==
  ASSUME Base, StartInv
  PROVE  /\ \A s : s \notin Runtimes => UnsettledAt(s) = {}
         /\ (/\ pc = "step" /\ Stage \in STAGES
             /\ Open.handle # NoHandle /\ workers[Open.handle].condition # "live")
               => UnsettledAt(Stage) = {}
<1>1. \A s : s \notin Runtimes => UnsettledAt(s) = {}
  BY DEF StartInv, Accounted, UnsettledAt
<1>2. ASSUME pc = "step", Stage \in STAGES,
             Open.handle # NoHandle, workers[Open.handle].condition # "live"
      PROVE  UnsettledAt(Stage) = {}
  <2>1. view.open[Stage].handle = Open.handle /\ ~view.open[Stage].starting
    BY <1>2 DEF StartInv, FreshRead, NotBoth, Open
  <2> SUFFICES ASSUME NEW h \in UnsettledAt(Stage) PROVE FALSE
    OBVIOUS
  <2>2. h = Open.handle
    BY <2>1 DEF StartInv, Accounted, UnsettledAt
  <2>3. workers[h].condition = "live"
    BY DEF UnsettledAt, Unsettled, Live
  <2> QED
    BY <1>2, <2>2, <2>3
<1> QED
  BY <1>1, <1>2

LEMMA StartQuiet ==
  ASSUME Base, Base', StartInv, StatusProof,
         LoopStep \/ DispatchStep \/ JudgingStep \/ MergingStep
  PROVE  StartInv'
<1> USE DEF Base
<1>1. CASE LoopStep
  BY <1>1, LoopIsQuiet, StartKept DEF QuietStep, SameBooks, ClearPlaces
<1>2. CASE DispatchStep
  <2>1. pc' \in ClearPlaces => UnsettledAt(Stage') = {}
    <3> SUFFICES ASSUME pc' \in ClearPlaces PROVE UnsettledAt(Stage') = {}
      OBVIOUS
    <3>1. Stage' = Stage /\ pc' \in {"enforce", "fail", "complete"}
      BY <1>2, DispatchIsQuiet DEF ClearPlaces, Stage
    <3>2. Stage \in STAGES
      BY <3>1, EngineAssumption DEF IType, Placed, AgentPlaces
    <3> QED
      BY <1>2, <3>1, <3>2, DispatchIsQuiet, NoWorkerThere
  <2> QED
    BY <1>2, <2>1, DispatchIsQuiet, StartKept DEF QuietStep, SameBooks
<1>3. CASE JudgingStep
  <2>1. pc' \in ClearPlaces => UnsettledAt(Stage') = {}
    BY <1>3, JudgingIsQuiet DEF StartInv, ClearStage, ClearPlaces
  <2> QED
    BY <1>3, <2>1, JudgingIsQuiet, StartKept DEF QuietStep, SameBooks
<1>4. CASE MergingStep
  <2>1. pc' \in ClearPlaces => UnsettledAt(Stage') = {}
    BY <1>4, MergingIsQuiet, NoWorkerThere, EngineAssumption DEF ClearPlaces
  <2> QED
    BY <1>4, <2>1, MergingIsQuiet, StartKept DEF QuietStep, SameBooks
<1> QED
  BY <1>1, <1>2, <1>3, <1>4

(* A new worker is the only unsettled one of its stage.                    *)
LEMMA StartSpawn ==
  ASSUME Base, StartInv, pc = "call", NEW h \in Handles, Spawn(h), view' = view,
         snap' = snap, pc' \in {"record", "unknown"},
         pc' = "record" => work'.handle = h
  PROVE  StartInv'
<1> USE DEF Base
<1>1. /\ workers[h].condition = "none" /\ workers'[h].condition = "live"
      /\ workers'[h].stage = Stage
      /\ \A g \in Handles \ {h} : workers'[g] = workers[g]
  <2>1. DOMAIN workers = Handles
    BY DEF IType, TypeOK, Workers
  <2> QED
    BY <2>1 DEF Spawn
<1>2. /\ hist.unsettled \subseteq Handles /\ h \notin hist.unsettled
      /\ hist'.named = hist.named
      /\ Stage \in hist.named => hist'.unsettled = hist.unsettled
      /\ Stage \notin hist.named => hist'.unsettled = hist.unsettled \cup {h}
  <2>1. hist \in History
    BY DEF IType, TypeOK
  <2>2. h \notin hist.unsettled
    BY <1>1 DEF StartInv, UsedHandles
  <2> QED
    BY <2>1, <2>2 DEF Spawn, History
<1>3. Stage \in Runtimes /\ Stage' = Stage /\ UnsettledAt(Stage) = {}
  BY DEF IType, Placed, AgentPlaces, StartInv, ClearStage, ClearPlaces, Stage
<1>4. ASSUME NEW g \in Unsettled'
      PROVE  \/ g \in Unsettled /\ g # h /\ workers'[g] = workers[g]
                /\ workers[g].stage # Stage
             \/ g = h /\ Stage \notin hist.named /\ workers'[g].stage = Stage
  BY <1>1, <1>2, <1>3 DEF Unsettled, UnsettledAt, Live
<1>5. OneUnsettledWorkerPerStage'
  BY <1>4 DEF OneUnsettledWorkerPerStage, Unsettled, StartInv
<1>6. Accounted'
  BY <1>3, <1>4 DEF Accounted, StartInv, StartUnderWay
<1>7. NotBoth' /\ FreshRead' /\ ClearStage'
  BY DEF NotBoth, FreshRead, ClearStage, ClearPlaces, StartInv
<1>8. StartUnderWay'
  BY <1>3, <1>4 DEF StartUnderWay, UnsettledAt
<1>9. UsedHandles'
  BY <1>1, <1>2 DEF UsedHandles, StartInv
<1> QED
  BY <1>5, <1>6, <1>7, <1>8, <1>9 DEF StartInv

(* A step that writes one stage's bookkeeping where the only unsettled     *)
(* worker, if any, is the handle it writes.                                *)
LEMMA StartWritten ==
  ASSUME Base, Base', StartInv, NEW s0 \in STAGES,
         \A s \in STAGES \ {s0} : view'.open[s] = view.open[s],
         ~view'.open[s0].starting,
         \A h \in UnsettledAt(s0) : view'.open[s0].handle = h,
         workers' = workers, hist'.unsettled = hist.unsettled, hist'.named = hist.named,
         pc' \notin {"call", "record", "step"},
         pc' \in ClearPlaces => UnsettledAt(Stage') = {}
  PROVE  StartInv'
<1>1. Live' = Live /\ Unsettled' = Unsettled
  BY DEF Live, Unsettled
<1>2. \A s : UnsettledAt(s)' = UnsettledAt(s)
  BY <1>1 DEF UnsettledAt
<1>3. Runtimes \subseteq STAGES
  BY EngineAssumption
<1>4. OneUnsettledWorkerPerStage'
  BY <1>1 DEF StartInv, OneUnsettledWorkerPerStage
<1>5. Accounted'
  <2> SUFFICES ASSUME NEW h \in Unsettled
               PROVE  /\ workers[h].stage \in Runtimes
                      /\ \/ view'.open[workers[h].stage].handle = h
                         \/ view'.open[workers[h].stage].starting
    BY <1>1 DEF Accounted
  <2>1. workers[h].stage \in Runtimes
    BY DEF StartInv, Accounted
  <2>2. CASE workers[h].stage = s0
    BY <2>1, <2>2 DEF UnsettledAt
  <2>3. CASE workers[h].stage # s0
    BY <1>3, <2>1, <2>3 DEF StartInv, Accounted
  <2> QED
    BY <2>1, <2>2, <2>3
<1>6. NotBoth'
  BY DEF StartInv, NotBoth
<1>7. FreshRead' /\ ClearStage'
  BY <1>2 DEF FreshRead, ClearStage
<1>8. StartUnderWay' /\ UsedHandles'
  BY DEF StartInv, StartUnderWay, UsedHandles
<1> QED
  BY <1>4, <1>5, <1>6, <1>7, <1>8 DEF StartInv

(* A step of the world or of a human's process, with the run where it was: *)
(* workers only settle.                                                    *)
LEMMA StartBeside ==
  ASSUME StartInv, UNCHANGED <<view, pc, snap, work, hist>>,
         \A h \in Handles : /\ workers'[h].stage = workers[h].stage
                            /\ workers'[h].condition = "live"
                                 => workers[h].condition = "live"
                            /\ workers'[h].condition = "none"
                                 => workers[h].condition = "none",
         hist.unsettled \subseteq Handles
  PROVE  StartInv'
<1>1. Unsettled' \subseteq Unsettled
  BY DEF Live, Unsettled
<1>2. \A s : UnsettledAt(s)' \subseteq UnsettledAt(s)
  BY <1>1 DEF UnsettledAt, Unsettled, Live
<1>3. \A h \in Unsettled' : h \in Handles /\ workers'[h].stage = workers[h].stage
  BY DEF Unsettled, Live
<1>4. OneUnsettledWorkerPerStage'
  BY <1>1, <1>3 DEF StartInv, OneUnsettledWorkerPerStage, Unsettled
<1>5. Accounted'
  BY <1>1, <1>3 DEF StartInv, Accounted
<1>6. NotBoth' /\ FreshRead'
  BY DEF StartInv, NotBoth, FreshRead
<1>7. ClearStage' /\ StartUnderWay'
  BY <1>2 DEF StartInv, ClearStage, StartUnderWay, Stage
<1>8. UsedHandles'
  BY DEF StartInv, UsedHandles
<1> QED
  BY <1>4, <1>5, <1>6, <1>7, <1>8 DEF StartInv

LEMMA StartBegun ==
  ASSUME Base, Base', StartInv, BeginStart
  PROVE  StartInv'
<1> USE DEF Base
<1>1. Stage \in Runtimes /\ Stage \in STAGES
  BY EngineAssumption DEF BeginStart, MayStart, IsAgentStage
<1>2. /\ pc = "step" /\ pc' = "call" /\ Stage' = Stage /\ workers' = workers
      /\ hist'.unsettled = hist.unsettled /\ hist'.named = hist.named \ {Stage}
  BY DEF BeginStart, MayStart, GoTo, Stage, world, IType, TypeOK, History
<1>3. /\ \A s \in STAGES \ {Stage} : view'.open[s] = view.open[s]
      /\ view'.open[Stage].starting /\ view'.open[Stage].handle = NoHandle
  <2>1. view' = Apply(view, BlankEvent("stage_starting", Stage)) /\ view \in View
    BY DEF BeginStart, LogAppend, IType, TypeOK
  <2>2. /\ BlankEvent("stage_starting", Stage).type = "stage_starting"
        /\ BlankEvent("stage_starting", Stage).stage = Stage
    BY EventFields
  <2>3. \A s \in STAGES :
          view'.open[s] = Opened(view.open[s], BlankEvent("stage_starting", Stage), s)
    BY <2>1, ApplyFolds
  <2>4. Opened(view.open[Stage], BlankEvent("stage_starting", Stage), Stage)
          = [NothingOpen EXCEPT !.starting = TRUE]
    BY <2>2 DEF Opened, Names
  <2>5. \A s \in STAGES \ {Stage} :
          Opened(view.open[s], BlankEvent("stage_starting", Stage), s) = view.open[s]
    BY <2>2 DEF Opened, Names
  <2> QED
    BY <1>1, <2>3, <2>4, <2>5 DEF NothingOpen
<1>4. UnsettledAt(Stage) = {}
  <2>1. view.open[Stage].handle = NoHandle /\ ~view.open[Stage].starting
    BY <1>1, <1>2 DEF BeginStart, MayStart, Open, StartInv, FreshRead
  <2>2. NoHandle \notin Unsettled
    BY DistinctIds DEF Unsettled, Live
  <2> QED
    BY <2>1, <2>2 DEF StartInv, Accounted, UnsettledAt
<1>5. Live' = Live /\ Unsettled' = Unsettled
  BY <1>2 DEF Live, Unsettled
<1>6. OneUnsettledWorkerPerStage' /\ UsedHandles'
  BY <1>2, <1>5 DEF StartInv, OneUnsettledWorkerPerStage, UsedHandles
<1>7. Accounted'
  <2> SUFFICES ASSUME NEW h \in Unsettled
               PROVE  /\ workers[h].stage \in Runtimes
                      /\ \/ view'.open[workers[h].stage].handle = h
                         \/ view'.open[workers[h].stage].starting
    BY <1>2, <1>5 DEF Accounted
  <2>1. workers[h].stage \in Runtimes /\ workers[h].stage # Stage
    BY <1>4 DEF StartInv, Accounted, UnsettledAt
  <2> QED
    BY <1>3, <2>1, EngineAssumption DEF StartInv, Accounted
<1>8. NotBoth' /\ FreshRead'
  BY <1>2, <1>3 DEF StartInv, NotBoth, FreshRead
<1>9. ClearStage'
  <2>1. UnsettledAt(Stage)' = UnsettledAt(Stage)
    BY <1>2, <1>5 DEF UnsettledAt
  <2> QED
    BY <1>4, <2>1 DEF ClearStage
<1>10. StartUnderWay'
  BY <1>2, <1>3 DEF StartUnderWay
<1> QED
  BY <1>6, <1>7, <1>8, <1>9, <1>10 DEF StartInv

LEMMA StartDecided ==
  ASSUME Base, Base', StartInv, DecideAppend
  PROVE  StartInv'
<1> USE DEF Base
<1>1. /\ UNCHANGED <<pc, snap, work, workers>>
      /\ hist'.unsettled = {h \in hist.unsettled : ~Names(human, workers[h].stage)}
      /\ hist'.named = hist.named \cup {s \in STAGES : Names(human, s)}
  BY DEF DecideAppend, run, world, IType, TypeOK, History
<1>2. \A s \in STAGES : /\ view'.open[s].handle = view.open[s].handle
                        /\ view'.open[s].starting
                             = (view.open[s].starting /\ ~Names(human, s))
  BY HumanEvents DEF DecideAppend, LogAppend, HumanDecides, IType, TypeOK
<1>3. Stage' = Stage
  BY <1>1 DEF Stage
<1>4. \A h \in Unsettled' : /\ h \in Unsettled
                            /\ ~Names(human, workers[h].stage)
  BY <1>1 DEF Unsettled, Live
<1>5. \A s : UnsettledAt(s)' \subseteq UnsettledAt(s)
  BY <1>1, <1>4 DEF UnsettledAt
<1>6. OneUnsettledWorkerPerStage'
  BY <1>1, <1>4 DEF StartInv, OneUnsettledWorkerPerStage, Unsettled
<1>7. Accounted'
  BY <1>1, <1>2, <1>4, EngineAssumption DEF StartInv, Accounted
<1>8. NotBoth' /\ FreshRead'
  BY <1>1, <1>2 DEF StartInv, NotBoth, FreshRead
<1>9. ClearStage'
  BY <1>1, <1>3, <1>5 DEF StartInv, ClearStage
<1>10. StartUnderWay'
  <2>1. pc = "call" => Stage \in STAGES
    BY EngineAssumption DEF IType, Placed, AgentPlaces
  <2> QED
    BY <1>1, <1>2, <1>3, <1>5, <2>1 DEF StartInv, StartUnderWay
<1>11. UsedHandles'
  BY <1>1 DEF StartInv, UsedHandles
<1> QED
  BY <1>6, <1>7, <1>8, <1>9, <1>10, <1>11 DEF StartInv

LEMMA StartCalled ==
  ASSUME Base, Base', StartInv, StartProof,
         CallThrows \/ CallUnknown \/ \E h \in Handles : CallStarts(h) \/ CallLosesWorker(h)
  PROVE  StartInv'
<1> USE DEF Base
<1>1. CASE CallThrows
  <2>1. /\ pc = "call" /\ pc' = "fail" /\ Stage' = Stage
        /\ UNCHANGED <<view, workers, hist>>
    BY <1>1 DEF CallThrows, FailWith, Stage, world
  <2>2. UnsettledAt(Stage') = {}
    BY <2>1 DEF StartInv, ClearStage, ClearPlaces
  <2> QED
    BY <2>1, <2>2, StartKept
<1>2. CASE CallUnknown
  <2>1. pc = "call" /\ pc' = "unknown" /\ view' = view /\ snap' = snap
    BY <1>2 DEF CallUnknown, GoTo
  <2>2. CASE \E h \in Handles : Spawn(h)
    BY <2>1, <2>2, StartSpawn
  <2>3. CASE UNCHANGED <<workers, hist>>
    BY <2>1, <2>3, StartKept DEF ClearPlaces
  <2> QED
    BY <1>2, <2>2, <2>3 DEF CallUnknown
<1>3. ASSUME NEW h \in Handles, CallStarts(h)
      PROVE  StartInv'
  <2>1. /\ pc = "call" /\ pc' = "record" /\ view' = view /\ snap' = snap /\ Spawn(h)
        /\ work'.handle = h
    BY <1>3 DEF CallStarts, IType, TypeOK, Work
  <2> QED
    BY <2>1, StartSpawn
<1>4. \A h \in Handles : ~CallLosesWorker(h)
  BY DEF CallLosesWorker
<1> QED
  BY <1>1, <1>2, <1>3, <1>4

(* The appends that close a start: its handle, its unknown outcome, its    *)
(* completion, its failure; and the ones that are not about a start.       *)
LEMMA StartAppends ==
  ASSUME Base, Base', StartInv,
         \/ RecordStarted \/ RecordUnknown \/ RecordVerdict
         \/ CompleteAccepted \/ RecordFailure \/ MarkMerge
         \/ \E escalate \in BOOLEAN : RecordDecision(escalate)
  PROVE  StartInv'
<1> USE DEF Base
<1>1. view \in View /\ Stage \in KnownStages
  BY StageType DEF IType, TypeOK
<1>2. CASE RecordStarted
  <2>1. /\ pc = "record" /\ pc' \in {"off", "loop"} /\ UNCHANGED <<workers, hist>>
        /\ view' = Apply(view, StartedEvent(Stage, work.handle))
    BY <1>2 DEF RecordStarted, Again, LogAppend, world
  <2>2. Stage \in STAGES /\ work.handle \in HandleIds
    BY <2>1, EngineAssumption DEF IType, Placed, AgentPlaces, TypeOK, Work
  <2>3. StartedEvent(Stage, work.handle) \in Event
    BY <1>1, <2>2, EngineEventTypes
  <2>4. \A s \in STAGES \ {Stage} : view'.open[s] = view.open[s]
    BY <1>1, <2>1, <2>3, EventFields, StageEvents
  <2>5. view'.open[Stage] = [NothingOpen EXCEPT !.handle = work.handle]
    <3> DEFINE e == StartedEvent(Stage, work.handle)
    <3>1. view'.open[Stage] = Opened(view.open[Stage], e, Stage)
      BY <1>1, <2>1, <2>2, ApplyFolds
    <3>2. e.type = "stage_started" /\ e.stage = Stage /\ e.handle = work.handle
      BY EventFields
    <3> QED
      BY <3>1, <3>2 DEF Opened, Names
  <2>6. ~view'.open[Stage].starting /\ view'.open[Stage].handle = work.handle
    BY <2>5 DEF NothingOpen
  <2>7. UnsettledAt(Stage) \subseteq {work.handle}
    BY <2>1 DEF StartInv, StartUnderWay
  <2> QED
    BY <2>1, <2>2, <2>4, <2>6, <2>7, StartWritten DEF ClearPlaces
<1>3. CASE RecordUnknown
  <2>1. /\ pc = "unknown" /\ pc' = "off" /\ UNCHANGED <<workers, hist>>
        /\ view' = Apply(view, BlankEvent("stage_start_unknown", Stage))
    BY <1>3 DEF RecordUnknown, Leave, LogAppend, world
  <2>2. SameBooks(view, view')
    BY <1>1, <2>1, BlankEventType, EventFields, OtherEvents DEF EventTypes
  <2> QED
    BY <2>1, <2>2, StartKept DEF SameBooks, ClearPlaces
<1>4. ASSUME NEW escalate \in BOOLEAN, RecordDecision(escalate)
      PROVE  StartInv'
  <2>1. /\ pc = "diagnose" /\ pc' \in {"off", "loop"} /\ workers' = workers
        /\ hist'.unsettled = hist.unsettled /\ hist'.named = hist.named
        /\ view' = Apply(view, BlankEvent("decision", Stage))
    BY <1>4 DEF RecordDecision, Leave, Again, LogAppend, world, IType, TypeOK, History
  <2>2. SameBooks(view, view')
    BY <1>1, <2>1, BlankEventType, EventFields, OtherEvents DEF EventTypes
  <2> QED
    BY <2>1, <2>2, StartKept DEF SameBooks, ClearPlaces
<1>5. CASE RecordVerdict
  <2> DEFINE e == VerdictEvent(VerdictAt[work.commit], work.commit)
  <2>1. /\ pc = "verdict" /\ pc' \in {"complete", "fail"} /\ workers' = workers
        /\ hist'.unsettled = hist.unsettled /\ hist'.named = hist.named
        /\ view' = Apply(view, e)
    BY <1>5 DEF RecordVerdict, FailWith, LogAppend, world, IType, TypeOK, History
  <2>2. Stage' = Stage
    BY <1>1, <1>5, ApplyFolds DEF RecordVerdict, Reread, Stage, Apply
  <2>3. \A s \in STAGES : view'.open[s] = view.open[s]
    <3>1. \A s \in STAGES : view'.open[s] = Opened(view.open[s], e, s)
      BY <1>1, <2>1, ApplyFolds
    <3>2. e.type = "audit_verdict"
      BY EventFields
    <3> QED
      BY <3>1, <3>2 DEF Opened, Names
  <2>4. UnsettledAt(Stage') = {}
    BY <2>1, <2>2 DEF StartInv, ClearStage, ClearPlaces
  <2> QED
    BY <2>1, <2>3, <2>4, StartKept
<1>6. CASE CompleteAccepted
  <2> DEFINE e == DoneEvent(Stage, Outcome.next.stage, Actor, work.anchored)
  <2>1. /\ pc = "complete" /\ pc' \in {"off", "loop"} /\ UNCHANGED <<workers, hist>>
        /\ view' = Apply(view, e)
    BY <1>6 DEF CompleteAccepted, Again, LogAppend, world
  <2>2. UnsettledAt(Stage) = {}
    BY <2>1 DEF StartInv, ClearStage, ClearPlaces
  <2>3. e.type = "stage_done" /\ e.stage = Stage
    BY EventFields
  <2>4. \A s \in STAGES : view'.open[s] = IF s = Stage THEN NothingOpen ELSE view.open[s]
    <3>1. \A s \in STAGES : view'.open[s] = Opened(view.open[s], e, s)
      BY <1>1, <2>1, ApplyFolds
    <3> HIDE DEF e
    <3> QED
      BY <2>3, <3>1 DEF Opened, Names
  <2>5. CASE Stage \in STAGES
    BY <2>1, <2>2, <2>4, <2>5, StartWritten DEF ClearPlaces, NothingOpen
  <2>6. CASE Stage \notin STAGES
    BY <2>1, <2>4, <2>6, StartKept DEF ClearPlaces
  <2> QED
    BY <2>5, <2>6
<1>7. CASE RecordFailure
  <2> DEFINE e == BlankEvent("stage_failed", Stage)
  <2>1. /\ pc = "fail" /\ pc' = "diagnose" /\ Stage' = Stage /\ UNCHANGED <<workers, hist>>
        /\ view' = Apply(view, e)
    BY <1>7 DEF RecordFailure, GoTo, LogAppend, world, Stage
  <2>2. UnsettledAt(Stage) = {}
    BY <2>1 DEF StartInv, ClearStage, ClearPlaces
  <2>3. e.type = "stage_failed" /\ e.stage = Stage
    BY EventFields
  <2>4. \A s \in STAGES : view'.open[s] = IF s = Stage THEN NothingOpen ELSE view.open[s]
    <3>1. \A s \in STAGES : view'.open[s] = Opened(view.open[s], e, s)
      BY <1>1, <2>1, ApplyFolds
    <3> HIDE DEF e
    <3> QED
      BY <2>3, <3>1 DEF Opened, Names
  <2>5. CASE Stage \in STAGES
    BY <2>1, <2>2, <2>4, <2>5, StartWritten DEF NothingOpen
  <2>6. CASE Stage \notin STAGES
    BY <2>1, <2>2, <2>4, <2>6, StartKept
  <2> QED
    BY <2>5, <2>6
<1>8. CASE MarkMerge
  <2> DEFINE e == StartedEvent("integrate", MergeHandle)
  <2>1. /\ pc' = "merge" /\ UNCHANGED <<workers, hist>> /\ view' = Apply(view, e)
    BY <1>8 DEF MarkMerge, GoTo, LogAppend, world
  <2>2. "integrate" \in STAGES /\ UnsettledAt("integrate") = {}
    BY NoWorkerThere, EngineAssumption DEF STAGES
  <2>3. e.type = "stage_started" /\ e.stage = "integrate" /\ e.handle = MergeHandle
    BY EventFields
  <2>4. \A s \in STAGES : view'.open[s] = IF s = "integrate"
                                            THEN [NothingOpen EXCEPT !.handle = MergeHandle]
                                            ELSE view.open[s]
    <3>1. \A s \in STAGES : view'.open[s] = Opened(view.open[s], e, s)
      BY <1>1, <2>1, ApplyFolds
    <3> HIDE DEF e
    <3> QED
      BY <2>3, <3>1 DEF Opened, Names
  <2>5. ~view'.open["integrate"].starting
    BY <2>2, <2>4 DEF NothingOpen
  <2> QED
    BY <2>1, <2>2, <2>4, <2>5, StartWritten DEF ClearPlaces
<1> QED
  BY <1>2, <1>3, <1>4, <1>5, <1>6, <1>7, <1>8

LEMMA StartStepKept ==
  Base /\ StartInv /\ Base' /\ StartProof /\ StatusProof /\ [Next]_vars => StartInv'
<1> SUFFICES ASSUME Base, StartInv, Base', StartProof, StatusProof, [Next]_vars
             PROVE  StartInv'
  OBVIOUS
<1>0. hist.unsettled \subseteq Handles
  BY DEF Base, IType, TypeOK, History
<1>1. CASE LoopStep \/ DispatchStep \/ JudgingStep \/ MergingStep
  BY <1>1, StartQuiet
<1>2. CASE StartStep
  BY <1>2, StartBegun, StartCalled, StartAppends DEF StartStep
<1>3. CASE \/ RecordVerdict \/ CompleteAccepted \/ RecordFailure \/ MarkMerge
           \/ \E escalate \in BOOLEAN : RecordDecision(escalate)
  BY <1>3, StartAppends
<1>4. CASE DecideAppend
  BY <1>4, StartDecided
<1>5. CASE (\E d \in Decisions : DecideRead(d[1], d[2])) \/ ClockRunsOut \/ UNCHANGED vars
  BY <1>0, <1>5, StartBeside DEF DecideRead, ClockRunsOut, world, vars
<1>6. ASSUME NEW h \in Handles, NEW c \in {"ok", "bad"}, WorkerExits(h, c)
      PROVE  StartInv'
  <2>1. \A g \in Handles : /\ workers'[g].stage = workers[g].stage
                           /\ g # h => workers'[g] = workers[g]
                           /\ workers'[h].condition = c
    BY <1>6 DEF WorkerExits, Base, IType, TypeOK, Workers
  <2> QED
    BY <1>0, <1>6, <2>1, StartBeside DEF WorkerExits
<1>7. CASE Crash \/ \E m \in Modes : Launch(m)
  <2>1. /\ view' = view /\ workers' = workers /\ pc' \in {"off", "loop"}
        /\ hist'.unsettled = hist.unsettled /\ hist'.named = hist.named
    BY <1>7 DEF Crash, Leave, Launch, world, Base, IType, TypeOK, History
  <2> QED
    BY <2>1, StartKept DEF ClearPlaces
<1> QED
  BY <1>1, <1>2, <1>3, <1>4, <1>5, <1>6, <1>7, RunStepCases
     DEF Next, HumanStep, Environment

(* With a runtime that can prove its failed starts and always recognises   *)
(* its live workers, no stage has two unsettled workers running, whatever  *)
(* crashes, breached limits, later runs and human decisions come between   *)
(* (engine.js openStage and startStage).                                   *)
THEOREM NoSecondWorker ==
  ASSUME StartProof, StatusProof
  PROVE  Spec => []OneUnsettledWorkerPerStage
<1>1. Init => StartInv
  <2> SUFFICES ASSUME Init PROVE StartInv
    OBVIOUS
  <2>1. hist.unsettled = {} /\ pc = "off" /\ Unsettled = {}
    BY DEF Init, Unsettled
  <2>2. NotBoth
    <3> DEFINE e == [BlankEvent("human_decision", NoStage) EXCEPT !.to = StartStage]
    <3>1. e.type = "human_decision" /\ e \in Event
      <4>1. BlankEvent("human_decision", NoStage) \in Event
        BY BlankEventType DEF EventTypes
      <4>2. StartStage \in KnownStages
        BY EngineAssumption DEF KnownStages
      <4> QED
        BY <4>1, <4>2 DEF BlankEvent, Event
    <3>2. view = Apply(EmptyView, e)
      BY DEF Init
    <3> QED
      BY <3>1, <3>2, EmptyViewType, HumanEvents DEF NotBoth, EmptyView, NothingOpen
  <2> QED
    BY <2>1, <2>2
       DEF StartInv, OneUnsettledWorkerPerStage, Accounted, FreshRead, ClearStage,
           ClearPlaces, StartUnderWay, UsedHandles, Unsettled
<1>2. StartInv => OneUnsettledWorkerPerStage
  BY DEF StartInv
<1> QED
  BY <1>1, <1>2, StartStepKept, BaseInvariant, PTL DEF Spec

-----------------------------------------------------------------------------
(***************************************************************************)
(* How the engine moves a task and merges it when humans decide between    *)
(* runs: no step then finds the log moved since it was read, a task        *)
(* advances by finishing its stage and on a verdict that passed, edges     *)
(* kept for humans are left to them, and the branch is merged once.        *)
(***************************************************************************)

(* What an appended event does to the state of the lifecycle.              *)

LEMMA StateLeft ==
  ASSUME NEW v \in View, NEW e, e.type \notin {"stage_done", "human_decision", "reopen"}
  PROVE  Apply(v, e).state = v.state
BY DEF Apply, Replayed

(* A task that is done or stopped is closed to every decision.             *)
LEMMA ClosedStays ==
  ASSUME NEW v \in View, NEW e, e.type = "human_decision", v.state.stage \in CLOSED
  PROVE  Apply(v, e).state = v.state
BY DEF Apply, Replayed, transition, Refuse

LEMMA SameInput ==
  ASSUME NEW s, NEW t, NEW a, NEW b
  PROVE  MachineInput(DoneEvent(s, t, a, b)) = MachineInput(DoneEvent(s, NoStage, a, b))
BY DEF MachineInput, DoneEvent, BlankEvent

(* What the machine accepts of an agent, later readers replay.             *)
LEMMA DoneMoves ==
  ASSUME NEW v \in View, NEW s \in STAGES, NEW t, NEW a, NEW b \in BOOLEAN, NEW edges,
         transition(v.state, MachineInput(DoneEvent(s, NoStage, a, b)), edges).ok
  PROVE  /\ v.state.stage \notin CLOSED
         /\ Apply(v, DoneEvent(s, t, a, b)).state.stage = NEXT_STAGE[v.state.stage]
         /\ Apply(v, DoneEvent(s, t, a, b)).fold = s
         /\ <<v.state.stage, NEXT_STAGE[v.state.stage]>> \notin edges
         /\ v.state.stage = "audit" => a \notin v.state.implementActors
<1> DEFINE i == MachineInput(DoneEvent(s, NoStage, a, b))
<1>1. /\ i.type = "stage_done" /\ i.actor = a /\ i.stage = NoStage /\ i.skipPlan = FALSE
  BY DEF MachineInput, DoneEvent, BlankEvent
<1> HIDE DEF i
<1>2. \A r : ~Refuse(v.state, r).ok
  BY DEF Refuse
<1>3. /\ v.state.stage \notin CLOSED /\ v.state.stage # "escalated"
      /\ ByAgent(v.state, i, edges).ok
  BY <1>1, <1>2 DEF transition, i
<1>4. ~Skips(v.state, i) /\ AgentTarget(v.state, i) = NEXT_STAGE[v.state.stage]
  BY <1>1 DEF Skips, AgentTarget
<1>5. /\ i.actor # NoActor /\ i.anchored /\ ~SelfApproves(v.state, i)
      /\ ~KeptForHuman(v.state, i, edges)
      /\ i.stage \in {NoStage, AgentTarget(v.state, i)}
  BY <1>2, <1>3 DEF ByAgent
<1>6. ~KeptForHuman(v.state, i, {})
  BY DEF KeptForHuman
<1>7. ByAgent(v.state, i, {}) = Allow(AgentMove(v.state, i), "R-ADVANCE-ANCHORED")
  BY <1>4, <1>5, <1>6 DEF ByAgent
<1>8. transition(v.state, i, {}).next = AgentMove(v.state, i)
  BY <1>1, <1>3, <1>7 DEF transition, Allow
<1>9. AgentMove(v.state, i).stage = NEXT_STAGE[v.state.stage]
  BY <1>4 DEF AgentMove
<1>10. Apply(v, DoneEvent(s, t, a, b)).state = transition(v.state, i, {}).next
  <2>1. DoneEvent(s, t, a, b).type = "stage_done"
    BY EventFields
  <2>2. MachineInput(DoneEvent(s, t, a, b)) = i
    BY SameInput DEF i
  <2>3. QED
    BY <2>1, <2>2 DEF Apply, Replayed
<1>11. Apply(v, DoneEvent(s, t, a, b)).fold = s
  <2>1. DoneEvent(s, t, a, b).stage = s /\ s # NoStage
    BY DEF DoneEvent, BlankEvent, STAGES, NoStage
  <2>2. QED
    BY <2>1 DEF Apply, Folded
<1>12. QED
  BY <1>1, <1>3, <1>4, <1>5, <1>8, <1>9, <1>10, <1>11 DEF KeptForHuman, SelfApproves

-----------------------------------------------------------------------------
(* The shapes of a run's steps: it ends or goes round, it reads the log,   *)
(* or it goes on with the state it read.                                   *)

Rests == pc \in {"off", "loop"}

ReadsLog == pc' \in {"step", "limit"} /\ snap' = view /\ view' = view

GoesOn == ~Rests /\ pc' # "step" /\ snap'.state = snap.state /\ view'.state = view.state

Shaped == (Rests' \/ ReadsLog \/ GoesOn) /\ view'.state = view.state

LEMMA LeaveRests ==
  Leave \/ Again \/ Wait => Rests'
BY DEF Leave, Again, Wait, Rests

(* Steps that append nothing and keep what they read.                      *)
LEMMA SilentGoesOn ==
  ASSUME ~Rests, pc' # "step", snap' = snap, view' = view
  PROVE  Shaped
BY DEF Shaped, GoesOn

LEMMA QuietAppend ==
  ASSUME IType, NEW e, e.type \notin {"stage_done", "human_decision", "reopen"}, LogAppend(e)
  PROVE  view'.state = view.state
BY StateLeft DEF LogAppend, IType, TypeOK

LEMMA LoopShape == ASSUME IType, LoopStep PROVE Shaped
<1>1. CASE StepCap
  BY <1>1, LeaveRests DEF StepCap, Shaped
<1>2. CASE WallBreach \/ ReadLog
  BY <1>2 DEF WallBreach, ReadLog, Shaped, ReadsLog
<1>3. CASE RecordWallBreach
  BY <1>3, LeaveRests, QuietAppend, EventFields DEF RecordWallBreach, Shaped
<1>4. QED
  BY <1>1, <1>2, <1>3 DEF LoopStep

LEMMA DispatchShape == ASSUME IType, DispatchStep PROVE Shaped
<1>1. CASE StepTerminal \/ StepRefused \/ PollLive \/ GateWaits
  BY <1>1, LeaveRests DEF StepTerminal, StepRefused, PollLive, GateWaits, Shaped
<1>2. CASE RefuseStart
  BY <1>2, LeaveRests, QuietAppend, EventFields DEF RefuseStart, Shaped
<1>3. CASE PollSucceeded \/ PollFailed \/ \E anchored \in BOOLEAN : GatePasses(anchored)
  BY <1>3, SilentGoesOn DEF PollSucceeded, PollFailed, Polls, GatePasses, GoTo, FailWith, Rests
<1>4. QED
  BY <1>1, <1>2, <1>3 DEF DispatchStep

LEMMA StartShape == ASSUME IType, StartStep PROVE Shaped
<1>1. CASE RecordStarted \/ RecordUnknown
  BY <1>1, LeaveRests, QuietAppend, EventFields DEF RecordStarted, RecordUnknown, Shaped
<1>2. CASE BeginStart
  <2>1. view'.state = view.state
    BY <1>2, QuietAppend, EventFields DEF BeginStart
  <2>2. QED
    BY <1>2, <2>1 DEF BeginStart, MayStart, GoTo, Shaped, GoesOn, Rests
<1>3. CASE CallThrows \/ CallUnknown \/ \E h \in Handles : CallStarts(h) \/ CallLosesWorker(h)
  BY <1>3, SilentGoesOn
     DEF CallThrows, CallUnknown, CallStarts, CallLosesWorker, GoTo, FailWith, Rests
<1>4. QED
  BY <1>1, <1>2, <1>3 DEF StartStep

LEMMA JudgingShape == ASSUME IType, JudgingStep PROVE Shaped
<1>1. CASE EnforceRefuses
  BY <1>1, LeaveRests, QuietAppend, EventFields DEF EnforceRefuses, Shaped
<1>2. CASE AnchorMissing \/ VerdictRefused \/ CompleteRefused
  BY <1>2, LeaveRests DEF AnchorMissing, VerdictRefused, CompleteRefused, Shaped
<1>3. CASE EnforcePasses \/ \E commit \in Commits \cup {NoCommit} : AnchorFound(commit)
  BY <1>3, SilentGoesOn DEF EnforcePasses, AnchorFound, GoTo, Rests
<1>4. CASE ReuseVerdict \/ ReadVerdict
  <2>1. snap'.state = snap.state /\ view' = view
    BY <1>4, RereadType DEF ReuseVerdict, ReadVerdict, IType, TypeOK
  <2>2. pc = "judge" /\ pc' # "step"
    BY <1>4 DEF ReuseVerdict, ReadVerdict, FailWith
  <2>3. QED
    BY <2>1, <2>2 DEF Shaped, GoesOn, Rests
<1>5. QED
  BY <1>1, <1>2, <1>3, <1>4 DEF JudgingStep

LEMMA MergingShape == ASSUME IType, MergingStep PROVE Shaped
<1>1. CASE IntegrateBlocked
  BY <1>1, LeaveRests DEF IntegrateBlocked, Shaped
<1>2. CASE ReadHead
  <2>1. snap'.state = snap.state /\ view' = view /\ pc = "merge" /\ pc' = "merging"
    BY <1>2, RereadType DEF ReadHead, IType, TypeOK
  <2>2. QED
    BY <2>1 DEF Shaped, GoesOn, Rests
<1>3. CASE MergeFails \/ \E anchored \in BOOLEAN : ConfirmMerge(anchored) \/ MergeSucceeds(anchored)
  BY <1>3, SilentGoesOn DEF MergeFails, ConfirmMerge, MergeSucceeds, AtIntegrate, GoTo, FailWith, Rests
<1>4. QED
  BY <1>1, <1>2, <1>3 DEF MergingStep

LEMMA AppendShape ==
  ASSUME IType,
         \/ RecordVerdict \/ RecordFailure \/ MarkMerge
         \/ \E escalate \in BOOLEAN : RecordDecision(escalate)
  PROVE  Shaped
<1>1. CASE RecordVerdict
  <2> DEFINE event == VerdictEvent(VerdictAt[work.commit], work.commit)
  <2>1. VerdictAt[work.commit] \in Verdicts /\ work.commit \in Commits
    BY <1>1, EngineAssumption DEF RecordVerdict, VerdictUsable, IType, Placed
  <2>2. event \in Event /\ event.type = "audit_verdict"
    BY <2>1, VerdictEventType, EventFields
  <2> HIDE DEF event
  <2>3. view' = Apply(view, event) /\ view' \in View /\ view'.state = view.state
    BY <1>1, <2>2, ApplyType, StateLeft DEF RecordVerdict, LogAppend, event, IType, TypeOK
  <2>4. snap'.state = snap.state
    BY <1>1, <2>2, <2>3, ApplyType, RereadType DEF RecordVerdict, event, IType, TypeOK
  <2>5. pc = "verdict" /\ pc' # "step"
    BY <1>1 DEF RecordVerdict, FailWith
  <2>6. QED
    BY <2>3, <2>4, <2>5 DEF Shaped, GoesOn, Rests
<1>2. CASE RecordFailure \/ MarkMerge
  <2>1. view'.state = view.state
    BY <1>2, QuietAppend, EventFields DEF RecordFailure, MarkMerge
  <2>2. QED
    BY <1>2, <2>1 DEF RecordFailure, MarkMerge, AtIntegrate, GoTo, Shaped, GoesOn, Rests
<1>3. CASE \E escalate \in BOOLEAN : RecordDecision(escalate)
  <2>1. PICK escalate \in BOOLEAN : RecordDecision(escalate)
    BY <1>3
  <2>2. view'.state = view.state
    BY <2>1, QuietAppend, EventFields DEF RecordDecision
  <2>3. QED
    BY <2>1, <2>2, LeaveRests DEF RecordDecision, Shaped
<1>4. QED
  BY <1>1, <1>2, <1>3

LEMMA RunShapes == ASSUME IType, RunStep PROVE Shaped \/ CompleteAccepted
BY RunStepCases, LoopShape, DispatchShape, StartShape, JudgingShape, MergingShape, AppendShape

-----------------------------------------------------------------------------
(* A run is alone with the log while it runs.                              *)
SoloInv ==
  /\ pc # "off" => human = NoDecision
  /\ ~Rests => snap.state = view.state
  /\ pc = "step" => snap.open = view.open

LEMMA SoloStep == ~Concurrent /\ Base /\ SoloInv /\ [Next]_vars => SoloInv'
<1> SUFFICES ASSUME ~Concurrent, Base, SoloInv, [Next]_vars PROVE SoloInv'
  OBVIOUS
<1>1. CASE RunStep
  <2>1. human' = human /\ human = NoDecision
    <3>1. pc # "off"
      BY <1>1 DEF RunStep, LoopStep, DispatchStep, StartStep, FinishStep, IntegrateStep,
           StepCap, WallBreach, RecordWallBreach, ReadLog, StepTerminal, StepRefused, PollLive,
           PollSucceeded, PollFailed, Polls, GateWaits, GatePasses, RefuseStart, MayStart,
           BeginStart, CallThrows, CallUnknown, RecordStarted, RecordUnknown, CallStarts,
           CallLosesWorker, EnforceRefuses, EnforcePasses, AnchorMissing, AnchorFound,
           ReuseVerdict, ReadVerdict, VerdictRefused, RecordVerdict, CompleteAccepted,
           CompleteRefused, RecordFailure, RecordDecision, IntegrateBlocked, MarkMerge,
           ReadHead, MergeFails, ConfirmMerge, MergeSucceeds, AtIntegrate
    <3>2. QED
      BY <1>1, <3>1, RunKeepsHuman DEF SoloInv, Rests
  <2>2. CASE Shaped
    BY <2>1, <2>2 DEF Shaped, GoesOn, ReadsLog, SoloInv, Rests
  <2>3. CASE CompleteAccepted
    BY <2>1, <2>3, LeaveRests DEF CompleteAccepted, SoloInv, Rests
  <2>4. QED
    BY <1>1, <2>2, <2>3, RunShapes DEF Base
<1>2. CASE \E m \in Modes : Launch(m)
  BY <1>2 DEF Launch, SoloInv, Rests
<1>3. CASE HumanStep
  <2>1. pc = "off" /\ pc' = pc
    BY <1>3 DEF HumanStep, DecideRead, DecideAppend, SoloInv, Rests, Base, IType, TypeOK, Places
  <2>2. QED
    BY <2>1 DEF SoloInv, Rests
<1>4. CASE Environment
  BY <1>4 DEF Environment, ClockRunsOut, Crash, WorkerExits, Leave, SoloInv, Rests
<1>5. CASE UNCHANGED vars
  BY <1>5 DEF vars, SoloInv, Rests
<1>6. QED
  BY <1>1, <1>2, <1>3, <1>4, <1>5 DEF Next

LEMMA SoloInvariant == ASSUME ~Concurrent PROVE Spec => []SoloInv
<1>1. Init => SoloInv
  BY DEF Init, SoloInv, Rests
<1>2. QED
  BY <1>1, SoloStep, BaseInvariant, PTL DEF Spec

-----------------------------------------------------------------------------
(* How a task moves.                                                       *)

LEMMA Advances ==
  ASSUME Base, SoloInv, CompleteAccepted
  PROVE  /\ pc = "complete" /\ Rests' /\ Stage = view.state.stage /\ Stage \in STAGES
         /\ view' = Apply(view, DoneEvent(Stage, Outcome.next.stage, Actor, work.anchored))
         /\ view'.state.stage = NEXT_STAGE[view.state.stage] /\ view'.fold = view.state.stage
         /\ <<view.state.stage, view'.state.stage>> \notin HumanEdges
         /\ view.state.stage = "audit" => Actor \notin view.state.implementActors
<1>1. /\ pc = "complete" /\ Stage \in STAGES /\ view \in View /\ work.anchored \in BOOLEAN
      /\ view' = Apply(view, DoneEvent(Stage, Outcome.next.stage, Actor, work.anchored))
  BY DEF CompleteAccepted, LogAppend, Base, IType, Placed, TypeOK, Work
<1>2. snap.state = view.state
  BY <1>1 DEF SoloInv, Rests
<1>3. transition(view.state, MachineInput(DoneEvent(Stage, NoStage, Actor, work.anchored)),
                 HumanEdges).ok
  BY <1>2 DEF CompleteAccepted, Outcome
<1>4. Stage = view.state.stage
  BY <1>2 DEF Stage
<1>5. Rests'
  BY LeaveRests DEF CompleteAccepted
<1>6. /\ Apply(view, DoneEvent(Stage, Outcome.next.stage, Actor, work.anchored)).state.stage
           = NEXT_STAGE[view.state.stage]
      /\ Apply(view, DoneEvent(Stage, Outcome.next.stage, Actor, work.anchored)).fold = Stage
      /\ <<view.state.stage, NEXT_STAGE[view.state.stage]>> \notin HumanEdges
      /\ view.state.stage = "audit" => Actor \notin view.state.implementActors
  BY <1>1, <1>3, DoneMoves
<1>7. QED
  BY <1>1, <1>4, <1>5, <1>6

(* Nothing else an agent does moves it.                                    *)
LEMMA OnlyAdvances ==
  ASSUME Base, [Next]_vars, human' = human
  PROVE  view'.state = view.state \/ CompleteAccepted
<1>1. CASE RunStep
  BY <1>1, RunShapes DEF Base, Shaped
<1>2. CASE (\E m \in Modes : Launch(m)) \/ Environment
  BY <1>2, EnvironmentKeepsLog
<1>3. CASE HumanStep
  BY <1>3 DEF HumanStep, DecideRead, DecideAppend
<1>4. CASE UNCHANGED vars
  BY <1>4 DEF vars
<1>5. QED
  BY <1>1, <1>2, <1>3, <1>4 DEF Next

(* An agent moves a task only by finishing the stage the task is at        *)
(* (stages.js byAgent, engine.js completeStage).                           *)
THEOREM MovesByFinishing ==
  ASSUME ~Concurrent
  PROVE  Spec => MovesByFinishingCurrentStage
<1>1. Base /\ SoloInv /\ [Next]_vars
        => [ view'.state.stage # view.state.stage /\ human' = human
               => view'.fold = view.state.stage ]_vars
  BY OnlyAdvances, Advances
<1>2. QED
  BY <1>1, BaseInvariant, SoloInvariant, PTL DEF Spec, MovesByFinishingCurrentStage

-----------------------------------------------------------------------------
(* The audit's own agent reports a verdict before it completes.            *)
EarnedInv == pc = "complete" /\ Stage = "audit" => view.verdict = "pass"

LEMMA EarnedStep == "audit" \in Runtimes /\ Base /\ EarnedInv /\ [Next]_vars => EarnedInv'
<1> SUFFICES ASSUME "audit" \in Runtimes, Base, EarnedInv, [Next]_vars PROVE EarnedInv'
  OBVIOUS
<1>0. IType
  BY DEF Base
<1>1. CASE LoopStep
  BY <1>0, <1>1, LoopIsQuiet DEF EarnedInv
<1>2. CASE DispatchStep
  <2>1. pc' = "complete" => snap' = snap /\ Stage \notin Runtimes
    BY <1>0, <1>2, DispatchIsQuiet
  <2>2. QED
    BY <2>1 DEF EarnedInv, Stage
<1>3. CASE StartStep
  <2>1. pc' # "complete"
    BY <1>3 DEF StartStep, BeginStart, CallThrows, CallUnknown, RecordStarted, RecordUnknown,
         CallStarts, CallLosesWorker, GoTo, FailWith, Again, Leave
  <2>2. QED
    BY <2>1 DEF EarnedInv
<1>4. CASE JudgingStep
  <2>1. CASE ReuseVerdict
    BY <2>1 DEF ReuseVerdict, FailWith, EarnedInv
  <2>2. CASE \E commit \in Commits \cup {NoCommit} : AnchorFound(commit)
    <3>1. pc' = "complete" => Stage # "audit" /\ snap' = snap
      BY <2>2 DEF AnchorFound
    <3>2. QED
      BY <3>1 DEF EarnedInv, Stage
  <2>3. CASE \/ EnforceRefuses \/ EnforcePasses \/ AnchorMissing \/ ReadVerdict
             \/ VerdictRefused \/ CompleteRefused
    BY <2>3 DEF EnforceRefuses, EnforcePasses, AnchorMissing, ReadVerdict, VerdictRefused,
                CompleteRefused, GoTo, Leave, EarnedInv
  <2>4. QED
    BY <1>4, <2>1, <2>2, <2>3 DEF JudgingStep
<1>5. CASE MergingStep
  <2>1. pc' # "off" => Stage' = "integrate"
    BY <1>0, <1>5, MergingIsQuiet
  <2>2. QED
    BY <2>1 DEF EarnedInv
<1>6. CASE RecordVerdict
  <2> DEFINE verdict == VerdictAt[work.commit]
             event   == VerdictEvent(verdict, work.commit)
  <2>1. pc' = "complete" => verdict = "pass"
    BY <1>6 DEF RecordVerdict, FailWith
  <2>2. event.type = "audit_verdict" /\ event.stage = "audit" /\ event.verdict = verdict
    BY DEF VerdictEvent, BlankEvent
  <2>3. view'.verdict = verdict
    BY <1>6, <2>2 DEF RecordVerdict, LogAppend, Apply, Judged
  <2>4. QED
    BY <2>1, <2>3 DEF EarnedInv
<1>7. CASE \/ CompleteAccepted \/ RecordFailure \/ MarkMerge
           \/ \E escalate \in BOOLEAN : RecordDecision(escalate)
  BY <1>7 DEF CompleteAccepted, RecordFailure, RecordDecision, MarkMerge, GoTo, Again, Leave,
              EarnedInv
<1>8. CASE \E m \in Modes : Launch(m)
  BY <1>8 DEF Launch, EarnedInv
<1>9. CASE Environment
  BY <1>9 DEF Environment, ClockRunsOut, Crash, WorkerExits, Leave, EarnedInv, Stage
<1>10. CASE \E d \in Decisions : DecideRead(d[1], d[2])
  BY <1>10 DEF DecideRead, EarnedInv, Stage
<1>11. CASE DecideAppend
  <2>1. human.type = "human_decision"
    BY <1>11 DEF DecideAppend, Base, HumanDecides
  <2>2. view'.verdict = view.verdict
    <3>1. Judged(view.verdict, human) = view.verdict
      BY <2>1 DEF Judged
    <3>2. QED
      BY <1>11, <3>1 DEF DecideAppend, LogAppend, Apply
  <2>3. QED
    BY <1>11, <2>2 DEF DecideAppend, EarnedInv, Stage
<1>12. CASE UNCHANGED vars
  BY <1>12 DEF vars, EarnedInv, Stage
<1>13. QED
  BY <1>1, <1>2, <1>3, <1>4, <1>5, <1>6, <1>7, <1>8, <1>9, <1>10, <1>11, <1>12, RunStepCases
  DEF Next, HumanStep

(* An agent passes the audit on a recorded "pass", and not as one that     *)
(* implemented (engine.js judgeAudit, stages.js byAgent).                  *)
THEOREM ReviewEarned ==
  ASSUME ~Concurrent, "audit" \in Runtimes
  PROVE  Spec => ReviewIsEarned
<1>1. Init => EarnedInv
  BY DEF Init, EarnedInv
<1>2. Base /\ SoloInv /\ EarnedInv /\ [Next]_vars
        => [ (/\ view.state.stage = "audit" /\ view'.state.stage = "review"
              /\ human' = human)
               => /\ view.verdict = "pass"
                  /\ "audit" \in Runtimes => AgentOf["audit"] \notin view.state.implementActors ]_vars
  <2> SUFFICES ASSUME Base, SoloInv, EarnedInv, [Next]_vars,
                      view.state.stage = "audit", view'.state.stage = "review", human' = human
               PROVE  /\ view.verdict = "pass"
                      /\ AgentOf["audit"] \notin view.state.implementActors
    OBVIOUS
  <2>1. CompleteAccepted
    BY OnlyAdvances
  <2>2. pc = "complete" /\ Stage = "audit" /\ Actor \notin view.state.implementActors
    BY <2>1, Advances
  <2>3. Actor = AgentOf["audit"]
    BY <2>2 DEF Actor
  <2>4. QED
    BY <2>2, <2>3 DEF EarnedInv
<1>3. QED
  BY <1>1, <1>2, EarnedStep, BaseInvariant, SoloInvariant, PTL DEF Spec, ReviewIsEarned

-----------------------------------------------------------------------------
(* The branch is merged once: what was merged is marked in the log, or the *)
(* task is closed, and where a merge is made none was.                     *)
Marked == view.open["integrate"].handle # NoHandle

MergeInv ==
  /\ merges <= 1
  /\ pc \in {"merge", "merging"} => merges = 0 /\ Marked /\ MayMerge
  /\ pc = "fail" /\ Stage = "integrate" => merges = 0
  /\ merges > 0 => Marked \/ view.state.stage \in CLOSED

LEMMA MergeKept ==
  ASSUME MergeInv, merges' = merges, Marked => Marked',
         view.state.stage \in CLOSED => view'.state.stage \in CLOSED,
         pc' \notin {"merge", "merging"}, pc' = "fail" => Stage' # "integrate"
  PROVE  MergeInv'
BY DEF MergeInv

LEMMA BooksMarked ==
  SameBooks(view, view') => (Marked => Marked')
BY DEF SameBooks, Marked, STAGES

(* An event of another stage leaves the mark.                              *)
LEMMA ElsewhereMarked ==
  ASSUME IType, NEW e \in Event, e.type # "human_decision", e.stage # "integrate", LogAppend(e)
  PROVE  Marked => Marked'
BY StageEvents DEF LogAppend, Marked, STAGES, IType, TypeOK

(* Of the steps of a run only the answer to a merge counts one, and a      *)
(* failure only where it may come after the merge.                         *)
Merges == (\E anchored \in BOOLEAN : MergeSucceeds(anchored)) \/ (MergeFails /\ ~MergeProof)

LEMMA OnlyMergeMerges ==
  RunStep /\ ~Merges => merges' = merges
<1>1. LoopStep \/ DispatchStep => merges' = merges
  BY DEF LoopStep, StepCap, WallBreach, RecordWallBreach, ReadLog, DispatchStep, StepTerminal,
         StepRefused, PollLive, PollSucceeded, PollFailed, GateWaits, GatePasses, RefuseStart, world
<1>2. StartStep => merges' = merges
  BY DEF StartStep, BeginStart, CallStarts, CallThrows, CallLosesWorker, CallUnknown,
         RecordStarted, RecordUnknown, world
<1>3. FinishStep => merges' = merges
  BY DEF FinishStep, EnforceRefuses, EnforcePasses, AnchorMissing, AnchorFound, ReuseVerdict,
         ReadVerdict, VerdictRefused, RecordVerdict, CompleteAccepted, CompleteRefused,
         RecordFailure, RecordDecision, world
<1>4. IntegrateStep /\ ~Merges => merges' = merges
  BY DEF Merges, IntegrateStep, IntegrateBlocked, MarkMerge, ReadHead, MergeFails, ConfirmMerge, world
<1>5. QED
  BY <1>1, <1>2, <1>3, <1>4 DEF RunStep

LEMMA MergeStart ==
  ASSUME Base, MergeInv, StartStep
  PROVE  MergeInv'
<1>0. IType /\ view \in View
  BY DEF Base, IType, TypeOK
<1>1. Stage \in Runtimes /\ Stage # "integrate" /\ Stage \in KnownStages
  BY <1>0, EngineAssumption, StageType
  DEF StartStep, BeginStart, MayStart, IsAgentStage, CallStarts, CallThrows, CallLosesWorker,
      CallUnknown, RecordStarted, RecordUnknown, IType, Placed, AgentPlaces
<1>2. pc' \notin {"merge", "merging"} /\ (pc' = "fail" => snap' = snap)
  BY <1>1 DEF StartStep, BeginStart, CallStarts, CallThrows, CallLosesWorker, CallUnknown,
       RecordStarted, RecordUnknown, GoTo, FailWith, Again, Leave
<1>3. merges' = merges
  BY OnlyMergeMerges
  DEF StartStep, BeginStart, CallStarts, CallThrows, CallLosesWorker, CallUnknown, RecordStarted,
      RecordUnknown, world
<1>4. view'.state = view.state
  BY <1>0, StartShape DEF Shaped
<1>5. Marked => Marked'
  <2>1. CASE view' = view
    BY <2>1 DEF Marked
  <2>2. CASE BeginStart \/ RecordUnknown
    <3>1. ASSUME NEW t \in {"stage_starting", "stage_start_unknown"}, LogAppend(BlankEvent(t, Stage))
          PROVE  Marked => Marked'
      <4>1. BlankEvent(t, Stage) \in Event
        BY <1>1, BlankEventType DEF EventTypes
      <4>2. QED
        BY <1>0, <1>1, <3>1, <4>1, EventFields, ElsewhereMarked
    <3>2. QED
      BY <2>2, <3>1 DEF BeginStart, RecordUnknown
  <2>3. CASE RecordStarted
    <3>1. work.handle \in HandleIds
      BY <1>0 DEF IType, TypeOK, Work
    <3>2. StartedEvent(Stage, work.handle) \in Event
      BY <1>1, <3>1, EngineEventTypes
    <3>3. QED
      BY <1>0, <1>1, <2>3, <3>2, EventFields, ElsewhereMarked DEF RecordStarted
  <2>4. QED
    BY <2>1, <2>2, <2>3 DEF StartStep, CallStarts, CallThrows, CallLosesWorker, CallUnknown
<1>6. QED
  BY <1>1, <1>2, <1>3, <1>4, <1>5, MergeKept DEF Stage

LEMMA MergeMerging ==
  ASSUME Base, MergeInv, SoloInv, MergingStep, MergeProof
  PROVE  MergeInv'
<1>0. IType /\ view'.state = view.state /\ (Marked => Marked') /\ Stage = "integrate"
  BY MergingShape, MergingIsQuiet, BooksMarked DEF Base, Shaped, QuietStep
<1>1. merges \in Nat
  BY <1>0 DEF IType, TypeOK
<1>2. CASE IntegrateBlocked
  BY <1>0, <1>2, MergeKept DEF IntegrateBlocked, Leave, world
<1>3. CASE ReadHead
  BY <1>0, <1>3 DEF ReadHead, world, MergeInv, MayMerge
<1>4. CASE MergeFails
  BY <1>0, <1>4 DEF MergeFails, FailWith, world, MergeInv
<1>5. ASSUME NEW anchored \in BOOLEAN, ConfirmMerge(anchored) PROVE MergeInv'
  <2>1. Marked
    BY <1>0, <1>5 DEF ConfirmMerge, AtIntegrate, SoloInv, Open, Marked
  <2>2. QED
    BY <1>0, <1>1, <1>5, <2>1 DEF ConfirmMerge, AtIntegrate, GoTo, world, MergeInv, MayMerge
<1>6. ASSUME NEW anchored \in BOOLEAN, MergeSucceeds(anchored) PROVE MergeInv'
  BY <1>0, <1>1, <1>6 DEF MergeSucceeds, MergeInv
<1>7. QED
  BY <1>2, <1>3, <1>4, <1>5, <1>6 DEF MergingStep

LEMMA MergeAppends ==
  ASSUME Base, MergeInv, SoloInv,
         \/ RecordVerdict \/ CompleteAccepted \/ RecordFailure \/ MarkMerge
         \/ \E escalate \in BOOLEAN : RecordDecision(escalate)
  PROVE  MergeInv'
<1>0. IType /\ view \in View /\ merges \in Nat /\ merges' = merges
  BY DEF Base, IType, TypeOK, RecordVerdict, CompleteAccepted, RecordFailure, RecordDecision,
         MarkMerge, world
<1>1. CASE RecordVerdict
  <2> DEFINE event == VerdictEvent(VerdictAt[work.commit], work.commit)
  <2>1. Stage = "audit" /\ VerdictAt[work.commit] \in Verdicts /\ work.commit \in Commits
    BY <1>0, <1>1, EngineAssumption DEF RecordVerdict, VerdictUsable, IType, Placed
  <2>2. event \in Event /\ event.type = "audit_verdict" /\ event.stage = "audit"
    BY <2>1, VerdictEventType DEF VerdictEvent, BlankEvent
  <2>3. LogAppend(event) /\ pc' \in {"complete", "fail"}
    BY <1>1 DEF RecordVerdict, FailWith
  <2> HIDE DEF event
  <2>4. Marked => Marked'
    BY <1>0, <2>2, <2>3, ElsewhereMarked
  <2>5. view'.state = view.state /\ Stage' = "audit"
    <3>1. Shaped
      BY <1>0, <1>1, AppendShape
    <3>2. snap'.state = snap.state
      BY <2>3, <3>1 DEF Shaped, GoesOn, ReadsLog, Rests
    <3>3. QED
      BY <2>1, <3>1, <3>2 DEF Shaped, Stage
  <2>6. QED
    BY <1>0, <2>3, <2>4, <2>5, MergeKept
<1>2. CASE CompleteAccepted
  <2>1. /\ Rests' /\ Stage = view.state.stage /\ Stage \in STAGES
        /\ view' = Apply(view, DoneEvent(Stage, Outcome.next.stage, Actor, work.anchored))
        /\ view'.state.stage = NEXT_STAGE[Stage]
    BY <1>2, Advances
  <2>2. view.state.stage \notin CLOSED
    BY <2>1 DEF STAGES, CLOSED
  <2>3. CASE Stage = "integrate"
    <3>1. view'.state.stage \in CLOSED
      BY <2>1, <2>3 DEF NEXT_STAGE, CLOSED
    <3>2. QED
      BY <1>0, <2>1, <3>1 DEF MergeInv, Rests
  <2>4. CASE Stage # "integrate"
    <3> DEFINE e == DoneEvent(Stage, Outcome.next.stage, Actor, work.anchored)
    <3>1. e.type = "stage_done" /\ e.stage = Stage
      BY EventFields
    <3> HIDE DEF e
    <3>2. Opened(view.open["integrate"], e, "integrate") = view.open["integrate"]
      BY <2>4, <3>1 DEF Opened, Names
    <3>3. Marked => Marked'
      BY <1>0, <2>1, <3>2, ApplyFolds DEF e, Marked, STAGES
    <3>4. QED
      BY <1>0, <2>1, <2>2, <3>3, MergeKept DEF Rests
  <2>5. QED
    BY <2>3, <2>4
<1>3. CASE RecordFailure
  <2>1. /\ pc = "fail" /\ pc' = "diagnose" /\ Stage \in KnownStages
        /\ LogAppend(BlankEvent("stage_failed", Stage))
    BY <1>0, <1>3, StageType DEF RecordFailure, GoTo, IType
  <2>2. view'.state = view.state
    BY <1>0, <1>3, AppendShape DEF Shaped
  <2>3. CASE Stage = "integrate"
    BY <1>0, <2>1, <2>3 DEF MergeInv
  <2>4. CASE Stage # "integrate"
    <3>1. BlankEvent("stage_failed", Stage) \in Event
      BY <2>1, BlankEventType DEF EventTypes
    <3>2. Marked => Marked'
      BY <1>0, <2>1, <2>4, <3>1, EventFields, ElsewhereMarked
    <3>3. QED
      BY <1>0, <2>1, <2>2, <3>2, MergeKept
  <2>5. QED
    BY <2>3, <2>4
<1>4. CASE MarkMerge
  <2>1. /\ Stage = "integrate" /\ ~Marked /\ view.state.stage \notin CLOSED
    BY <1>4 DEF MarkMerge, AtIntegrate, SoloInv, Rests, Open, Stage, Marked, CLOSED
  <2>2. merges = 0
    BY <1>0, <2>1 DEF MergeInv
  <2>3. Marked'
    <3> DEFINE e == StartedEvent("integrate", MergeHandle)
    <3>1. e.type = "stage_started" /\ e.stage = "integrate" /\ e.handle = MergeHandle
      BY EventFields
    <3> HIDE DEF e
    <3>2. Opened(view.open["integrate"], e, "integrate").handle = MergeHandle
      BY <3>1 DEF Opened, Names, NothingOpen
    <3>3. view' = Apply(view, e)
      BY <1>4 DEF MarkMerge, LogAppend, e
    <3>4. QED
      BY <1>0, <3>2, <3>3, ApplyFolds, DistinctIds DEF Marked, STAGES
  <2>4. pc' = "merge" /\ MayMerge
    BY <1>4 DEF MarkMerge, GoTo
  <2>5. QED
    BY <1>0, <2>2, <2>3, <2>4 DEF MergeInv, MayMerge
<1>5. CASE \E escalate \in BOOLEAN : RecordDecision(escalate)
  <2>1. PICK escalate \in BOOLEAN : RecordDecision(escalate)
    BY <1>5
  <2>2. BlankEvent("decision", Stage) \in Event
    BY <1>0, StageType, BlankEventType DEF IType, EventTypes
  <2>3. SameBooks(view, view')
    BY <1>0, <2>1, <2>2, EventFields, OtherEvents DEF RecordDecision, LogAppend
  <2>4. view'.state = view.state
    BY <1>0, <2>1, AppendShape DEF Shaped
  <2>5. pc' \in {"off", "loop"}
    BY <2>1 DEF RecordDecision, Again, Leave
  <2>6. QED
    BY <1>0, <2>3, <2>4, <2>5, BooksMarked, MergeKept
<1>6. QED
  BY <1>1, <1>2, <1>3, <1>4, <1>5

LEMMA MergeStep ==
  ~Concurrent /\ MergeProof /\ Base /\ SoloInv /\ MergeInv /\ [Next]_vars => MergeInv'
<1> SUFFICES ASSUME ~Concurrent, MergeProof, Base, SoloInv, MergeInv, [Next]_vars PROVE MergeInv'
  OBVIOUS
<1>0. IType /\ view \in View
  BY DEF Base, IType, TypeOK
<1>1. CASE LoopStep
  <2>1. merges' = merges
    BY <1>1, OnlyMergeMerges DEF LoopStep, StepCap, WallBreach, RecordWallBreach, ReadLog, world
  <2>2. QED
    BY <1>0, <1>1, <2>1, LoopIsQuiet, LoopShape, BooksMarked, MergeKept DEF QuietStep, Shaped
<1>2. CASE DispatchStep
  <2>1. merges' = merges /\ (pc' = "fail" => Stage \in Runtimes)
    BY <1>2 DEF DispatchStep, StepTerminal, StepRefused, PollLive, PollSucceeded, PollFailed,
         Polls, IsAgentStage, GateWaits, Wait, Again, Leave, GatePasses, RefuseStart, GoTo,
         FailWith, world
  <2>2. pc' = "fail" => Stage' # "integrate"
    BY <1>0, <1>2, <2>1, DispatchIsQuiet, EngineAssumption DEF Stage
  <2>3. QED
    BY <1>0, <1>2, <2>1, <2>2, DispatchIsQuiet, DispatchShape, BooksMarked, MergeKept
    DEF QuietStep, Shaped
<1>3. CASE StartStep
  BY <1>3, MergeStart
<1>4. CASE JudgingStep
  <2>1. merges' = merges /\ (pc' = "fail" => pc = "judge")
    BY <1>4 DEF JudgingStep, EnforceRefuses, EnforcePasses, AnchorMissing, AnchorFound,
         ReuseVerdict, ReadVerdict, VerdictRefused, CompleteRefused, GoTo, FailWith, Leave, world
  <2>2. pc' = "fail" => Stage' # "integrate"
    BY <1>0, <1>4, <2>1, JudgingIsQuiet DEF IType, Placed
  <2>3. QED
    BY <1>0, <1>4, <2>1, <2>2, JudgingIsQuiet, JudgingShape, BooksMarked, MergeKept
    DEF QuietStep, Shaped
<1>5. CASE MergingStep
  BY <1>5, MergeMerging
<1>6. CASE \/ RecordVerdict \/ CompleteAccepted \/ RecordFailure \/ MarkMerge
           \/ \E escalate \in BOOLEAN : RecordDecision(escalate)
  BY <1>6, MergeAppends
<1>7. CASE \E m \in Modes : Launch(m)
  BY <1>7 DEF Launch, world, MergeInv, Marked
<1>8. CASE Environment
  BY <1>8 DEF Environment, ClockRunsOut, Crash, WorkerExits, Leave, world, MergeInv, Marked,
              Stage, MayMerge
<1>9. CASE \E d \in Decisions : DecideRead(d[1], d[2])
  BY <1>9 DEF DecideRead, world, MergeInv, Marked, Stage, MayMerge
<1>10. CASE DecideAppend
  <2>1. human.type = "human_decision" /\ human \in Event /\ view' = Apply(view, human)
    BY <1>10 DEF DecideAppend, LogAppend, Base, HumanDecides, IType, TypeOK
  <2>2. Marked => Marked'
    BY <1>0, <2>1, HumanEvents DEF Marked, STAGES
  <2>3. view.state.stage \in CLOSED => view'.state.stage \in CLOSED
    BY <1>0, <2>1, ClosedStays
  <2>4. pc = "off" /\ pc' = "off" /\ merges' = merges
    BY <1>10 DEF DecideAppend, SoloInv, world
  <2>5. QED
    BY <2>2, <2>3, <2>4, MergeKept
<1>11. CASE UNCHANGED vars
  BY <1>11 DEF vars, MergeInv, Marked, Stage, MayMerge
<1>12. QED
  BY <1>1, <1>2, <1>3, <1>4, <1>5, <1>6, <1>7, <1>8, <1>9, <1>10, <1>11, RunStepCases
  DEF Next, HumanStep

LEMMA MergeInit == Init => MergeInv
BY DEF Init, MergeInv

(* The branch is merged once, however often a run dies between the mark,   *)
(* the merge and its record (engine.js integrateStage), by an adapter that *)
(* reports no merge failed once it is made.                                *)
THEOREM BranchMergedOnce ==
  ASSUME ~Concurrent, MergeProof
  PROVE  Spec => []MergedOnce
<1>1. MergeInv => MergedOnce
  BY DEF MergeInv, MergedOnce
<1>2. QED
  BY <1>1, MergeInit, MergeStep, BaseInvariant, SoloInvariant, PTL DEF Spec

(* A run is about to merge only where the policy lets it.                  *)
MergeAllowed == pc \in {"merge", "merging"} => MayMerge

LEMMA MergeAllowedStep == Base /\ MergeAllowed /\ [Next]_vars => MergeAllowed'
<1> SUFFICES ASSUME Base, MergeAllowed, [Next]_vars PROVE MergeAllowed'
  OBVIOUS
<1> USE DEF MergeAllowed
<1>1. CASE LoopStep \/ DispatchStep \/ StartStep \/ JudgingStep
  <2>1. pc' \notin {"merge", "merging"}
    BY <1>1 DEF LoopStep, StepCap, WallBreach, RecordWallBreach, ReadLog, DispatchStep,
         StepTerminal, StepRefused, PollLive, PollSucceeded, PollFailed, GateWaits, GatePasses,
         RefuseStart, StartStep, BeginStart, CallStarts, CallThrows, CallLosesWorker, CallUnknown,
         RecordStarted, RecordUnknown, JudgingStep, EnforceRefuses, EnforcePasses, AnchorMissing,
         AnchorFound, ReuseVerdict, ReadVerdict, VerdictRefused, CompleteRefused,
         Wait, Again, Leave, GoTo, FailWith
  <2>2. QED
    BY <2>1
<1>2. CASE MergingStep
  BY <1>2 DEF MergingStep, IntegrateBlocked, ReadHead, MergeFails, ConfirmMerge, MergeSucceeds,
              Leave, GoTo, FailWith, MayMerge
<1>3. CASE \/ RecordVerdict \/ CompleteAccepted \/ RecordFailure \/ MarkMerge
           \/ \E escalate \in BOOLEAN : RecordDecision(escalate)
  BY <1>3 DEF RecordVerdict, CompleteAccepted, RecordFailure, MarkMerge, RecordDecision,
              Again, Leave, GoTo, FailWith, MayMerge
<1>4. CASE (\E m \in Modes : Launch(m)) \/ HumanStep \/ Environment \/ UNCHANGED vars
  BY <1>4 DEF Launch, HumanStep, DecideRead, DecideAppend, Environment, ClockRunsOut, Crash,
              WorkerExits, Leave, vars, MayMerge
<1>5. QED
  BY <1>1, <1>2, <1>3, <1>4, RunStepCases DEF Next

(* No agent crosses an edge kept for a human, and no merge kept for one is *)
(* made (stages.js byAgent, engine.js integrateStage), reported or not.    *)
THEOREM HumanEdgesWait ==
  ASSUME ~Concurrent
  PROVE  Spec => HumanEdgesWaitForHumans
<1>1. Base /\ SoloInv /\ MergeAllowed /\ [Next]_vars
        => [ /\ view'.state.stage # view.state.stage /\ human' = human
               => <<view.state.stage, view'.state.stage>> \notin HumanEdges
             /\ merges' # merges => <<"integrate", "done">> \notin HumanEdges ]_vars
  <2> SUFFICES ASSUME Base, SoloInv, MergeAllowed, [Next]_vars
               PROVE  /\ view'.state.stage # view.state.stage /\ human' = human
                           => <<view.state.stage, view'.state.stage>> \notin HumanEdges
                      /\ merges' # merges => <<"integrate", "done">> \notin HumanEdges
    OBVIOUS
  <2>1. view'.state.stage # view.state.stage /\ human' = human
          => <<view.state.stage, view'.state.stage>> \notin HumanEdges
    BY OnlyAdvances, Advances
  <2>2. merges' # merges => Merges
    <3>1. CASE RunStep
      BY <3>1, OnlyMergeMerges
    <3>2. CASE (\E m \in Modes : Launch(m)) \/ HumanStep \/ Environment \/ UNCHANGED vars
      BY <3>2 DEF Launch, HumanStep, DecideRead, DecideAppend, Environment, ClockRunsOut, Crash,
                  WorkerExits, world, vars
    <3>3. QED
      BY <3>1, <3>2 DEF Next
  <2>3. merges' # merges => <<"integrate", "done">> \notin HumanEdges
    BY <2>2 DEF Merges, MergeSucceeds, MergeFails, MergeAllowed, MayMerge
  <2>4. QED
    BY <2>1, <2>3
<1>2. Init => MergeAllowed
  BY DEF Init, MergeAllowed
<1>3. QED
  BY <1>1, <1>2, MergeAllowedStep, BaseInvariant, SoloInvariant, PTL
  DEF Spec, HumanEdgesWaitForHumans

-----------------------------------------------------------------------------
(* The folds the engine reads, event by event, are what the whole log says *)
(* (TaskLogFold), for any log of any events.                               *)

FoldType == log \in Seq(Event) /\ folded \in View

LEMMA Largest ==
  ASSUME NEW n \in Nat, NEW S \in SUBSET (1..n), S # {}
  PROVE  Latest(S) \in S /\ \A j \in S : j <= Latest(S)
<1> DEFINE T == {m \in 0..n : n - m \in S}
<1> DEFINE R == OpToRel(<, Nat)
<1>1. T \subseteq Nat
  OBVIOUS
<1>2. \A j \in S : n - j \in T
  <2> TAKE j \in S
  <2>1. j \in 1..n /\ n - j \in 0..n /\ n - (n - j) = j
    OBVIOUS
  <2>2. QED
    BY <2>1
<1>3. T # {}
  BY <1>2
<1>4. \A x, y \in Nat : <<y, x>> \in R <=> y < x
  BY DEF OpToRel
<1>5. IsWellFoundedOn(R, Nat)
  BY NatLessThanWellFounded
<1> HIDE DEF T, R
<1>6. PICK x \in T : \A y \in T : ~(<<y, x>> \in R)
  BY <1>1, <1>3, <1>5, WFMin, Zenon
<1>7. x \in Nat /\ x <= n /\ n - x \in S
  BY <1>1 DEF T
<1>8. \A j \in S : j <= n - x
  <2> TAKE j \in S
  <2>1. n - j \in T /\ n - j \in Nat /\ j \in Nat
    BY <1>1, <1>2
  <2>2. ~(n - j < x)
    BY <1>4, <1>6, <1>7, <2>1
  <2>3. QED
    BY <1>7, <2>1, <2>2
<1>9. QED
  BY <1>7, <1>8 DEF Latest

(* The position just added is the latest of any set it is in.              *)
LEMMA NewIsLatest ==
  ASSUME NEW n \in Nat, NEW S \in SUBSET (1..(n + 1)), n + 1 \in S
  PROVE  Latest(S) = n + 1
<1>1. PICK m \in Nat : m = n + 1
  OBVIOUS
<1>2. S \in SUBSET (1..m) /\ S # {}
  BY <1>1
<1>3. Latest(S) \in S /\ \A j \in S : j <= Latest(S)
  BY <1>2, Largest
<1>4. Latest(S) \in 1..m /\ m <= Latest(S)
  BY <1>1, <1>2, <1>3
<1>5. QED
  BY <1>1, <1>4

LEMMA Grown ==
  ASSUME FoldType, NEW e \in Event, log' = Append(log, e), NEW n, n = Len(log)
  PROVE  /\ n \in Nat /\ Len(log') = n + 1 /\ log'[n + 1] = e
         /\ \A i \in 1..n : log'[i] = log[i]
         /\ Positions = 1..n /\ Positions' = Positions \cup {n + 1}
         /\ n + 1 \notin Positions
<1>1. /\ n \in Nat /\ Len(log') = n + 1 /\ log'[n + 1] = e
      /\ \A i \in 1..n : log'[i] = log[i]
  BY DEF FoldType
<1>2. Positions = 1..n /\ Positions' = 1..(n + 1)
  BY <1>1 DEF Positions
<1>3. QED
  BY <1>1, <1>2

IsBook(e, s) ==
  e.type \in {"stage_starting", "stage_started", "stage_failed", "stage_done"} /\ e.stage = s

LEMMA BookGrows ==
  ASSUME FoldType, NEW e \in Event, log' = Append(log, e), NEW s, NEW n, n = Len(log)
  PROVE  /\ Bookkeeping(s) \subseteq 1..n
         /\ Bookkeeping(s)' = IF IsBook(e, s) THEN Bookkeeping(s) \cup {n + 1} ELSE Bookkeeping(s)
<1>1. /\ n \in Nat /\ log'[n + 1] = e /\ \A i \in 1..n : log'[i] = log[i]
      /\ Positions = 1..n /\ Positions' = Positions \cup {n + 1} /\ n + 1 \notin Positions
  BY Grown
<1>2. Bookkeeping(s) = {i \in 1..n : IsBook(log[i], s)}
  BY <1>1 DEF Bookkeeping, IsBook
<1>3. Bookkeeping(s)' = {i \in 1..n \cup {n + 1} : IsBook(log'[i], s)}
  BY <1>1 DEF Bookkeeping, IsBook
<1>4. \A i \in 1..n : IsBook(log'[i], s) <=> IsBook(log[i], s)
  BY <1>1
<1>5. IsBook(log'[n + 1], s) <=> IsBook(e, s)
  BY <1>1
<1>6. n + 1 \notin 1..n
  BY <1>1
<1>7. QED
  BY <1>2, <1>3, <1>4, <1>5, <1>6

LEMMA UnknownStartKept ==
  ASSUME FoldType, NEW e \in Event, log' = Append(log, e), NEW s
  PROVE  UnknownStart(s)' = IF IsBook(e, s) THEN e.type = "stage_starting"
                            ELSE UnknownStart(s) /\ ~Names(e, s)
<1>1. PICK n : n = Len(log)
  OBVIOUS
<1>2. PICK B, C : B = Bookkeeping(s) /\ C = Bookkeeping(s)'
  OBVIOUS
<1>3. /\ n \in Nat /\ Len(log') = n + 1 /\ log'[n + 1] = e
      /\ \A i \in 1..n : log'[i] = log[i]
  BY <1>1, Grown
<1>4. B \subseteq 1..n /\ C = IF IsBook(e, s) THEN B \cup {n + 1} ELSE B
  BY <1>1, <1>2, BookGrows
<1>5. UnknownStart(s) <=> \E i \in B : /\ log[i].type = "stage_starting"
                                     /\ \A j \in i+1..n : j \notin B /\ ~Names(log[j], s)
  BY <1>1, <1>2 DEF UnknownStart
<1>6. UnknownStart(s)' <=> \E i \in C : /\ log'[i].type = "stage_starting"
                                      /\ \A j \in i+1..(n + 1) : j \notin C /\ ~Names(log'[j], s)
  BY <1>2, <1>3 DEF UnknownStart
<1>7. CASE IsBook(e, s)
  <2>1. \A i \in B : n + 1 \in i+1..(n + 1) /\ n + 1 \in C
    BY <1>3, <1>4, <1>7
  <2>2. UnknownStart(s)' <=> /\ log'[n + 1].type = "stage_starting"
                             /\ \A j \in (n + 1)+1..(n + 1) : j \notin C /\ ~Names(log'[j], s)
    BY <1>4, <1>6, <1>7, <2>1
  <2>3. (n + 1)+1..(n + 1) = {}
    BY <1>3
  <2>4. UnknownStart(s)' <=> e.type = "stage_starting"
    BY <1>3, <2>2, <2>3
  <2>5. QED
    BY <1>7, <2>4 DEF UnknownStart
<1>8. CASE ~IsBook(e, s)
  <2>1. C = B /\ n + 1 \notin B
    BY <1>3, <1>4, <1>8
  <2>2. ASSUME NEW i \in B
        PROVE  /\ log'[i].type = log[i].type
               /\ (\A j \in i+1..(n + 1) : j \notin C /\ ~Names(log'[j], s))
                    <=> ~Names(e, s) /\ \A j \in i+1..n : j \notin B /\ ~Names(log[j], s)
    <3>1. i \in 1..n /\ i+1..(n + 1) = (i+1..n) \cup {n + 1}
      BY <1>3, <1>4, <2>2
    <3>2. \A j \in i+1..n : j \in 1..n
      BY <1>3, <3>1
    <3>3. QED
      BY <1>3, <2>1, <3>1, <3>2
  <2>3. UnknownStart(s)' <=> UnknownStart(s) /\ ~Names(e, s)
    BY <1>5, <1>6, <2>1, <2>2
  <2>4. QED
    BY <1>8, <2>3 DEF UnknownStart
<1>9. QED
  BY <1>7, <1>8

LEMMA OpenHandleKept ==
  ASSUME FoldType, NEW e \in Event, log' = Append(log, e), NEW s
  PROVE  OpenHandle(s)' = IF ~IsBook(e, s) THEN OpenHandle(s)
                          ELSE IF e.type = "stage_started" THEN e.handle ELSE NoHandle
<1>1. PICK n : n = Len(log)
  OBVIOUS
<1>2. PICK B, C : B = Bookkeeping(s) /\ C = Bookkeeping(s)'
  OBVIOUS
<1>3. /\ n \in Nat /\ Len(log') = n + 1 /\ log'[n + 1] = e
      /\ \A i \in 1..n : log'[i] = log[i]
  BY <1>1, Grown
<1>4. B \subseteq 1..n /\ C = IF IsBook(e, s) THEN B \cup {n + 1} ELSE B
  BY <1>1, <1>2, BookGrows
<1>5. /\ OpenHandle(s) = IF B = {} \/ log[Latest(B)].type # "stage_started"
                           THEN NoHandle ELSE log[Latest(B)].handle
      /\ OpenHandle(s)' = IF C = {} \/ log'[Latest(C)].type # "stage_started"
                            THEN NoHandle ELSE log'[Latest(C)].handle
  BY <1>2 DEF OpenHandle
<1>6. CASE IsBook(e, s)
  <2>1. Latest(C) = n + 1 /\ C # {}
    <3>1. n \in Nat /\ C \in SUBSET (1..(n + 1)) /\ n + 1 \in C
      BY <1>3, <1>4, <1>6
    <3>2. QED
      BY <3>1, NewIsLatest
  <2>2. log'[Latest(C)] = e
    BY <1>3, <2>1
  <2>3. OpenHandle(s)' = IF e.type = "stage_started" THEN e.handle ELSE NoHandle
    BY <1>5, <2>1, <2>2
  <2>4. QED
    BY <1>6, <2>3
<1>7. CASE ~IsBook(e, s)
  <2>1. C = B
    BY <1>4, <1>7
  <2>2. B # {} => Latest(B) \in 1..n
    BY <1>3, <1>4, Largest
  <2>3. B # {} => log'[Latest(B)] = log[Latest(B)]
    BY <1>3, <2>2
  <2>4. QED
    BY <1>5, <1>7, <2>1, <2>3
<1>8. QED
  BY <1>6, <1>7

Refusals(s) ==
  {i \in Positions : /\ log[i].type = "enforcement" /\ log[i].stage = s
                     /\ \A j \in Bookkeeping(s) : j < i}

LEMMA RefusalIs ==
  ASSUME NEW s
  PROVE  RecordedRefusal(s) = IF Refusals(s) = {} THEN NoRule ELSE log[Latest(Refusals(s))].rule
BY DEF RecordedRefusal, Refusals

LEMMA RecordedRefusalKept ==
  ASSUME FoldType, NEW e \in Event, log' = Append(log, e), NEW s
  PROVE  RecordedRefusal(s)' = IF IsBook(e, s) THEN NoRule
                               ELSE IF e.type = "enforcement" /\ e.stage = s THEN e.rule
                               ELSE RecordedRefusal(s)
<1>1. PICK n : n = Len(log)
  OBVIOUS
<1>2. PICK B, C : B = Bookkeeping(s) /\ C = Bookkeeping(s)'
  OBVIOUS
<1>3. /\ n \in Nat /\ log'[n + 1] = e /\ \A i \in 1..n : log'[i] = log[i]
      /\ Positions = 1..n /\ Positions' = Positions \cup {n + 1}
  BY <1>1, Grown
<1>4. B \subseteq 1..n /\ C = IF IsBook(e, s) THEN B \cup {n + 1} ELSE B
  BY <1>1, <1>2, BookGrows
<1>5. PICK P, Q : P = Refusals(s) /\ Q = Refusals(s)'
  OBVIOUS
<1>6. /\ P = {i \in 1..n : /\ log[i].type = "enforcement" /\ log[i].stage = s
                           /\ \A j \in B : j < i}
      /\ Q = {i \in (1..n) \cup {n + 1} : /\ log'[i].type = "enforcement" /\ log'[i].stage = s
                                          /\ \A j \in C : j < i}
  BY <1>2, <1>3, <1>5 DEF Refusals
<1>7. RecordedRefusal(s) = IF P = {} THEN NoRule ELSE log[Latest(P)].rule
  BY <1>5, RefusalIs
<1>8. RecordedRefusal(s)' = IF Q = {} THEN NoRule ELSE log'[Latest(Q)].rule
  BY <1>5 DEF RecordedRefusal, Refusals
<1>9. CASE IsBook(e, s)
  <2>1. n + 1 \in C /\ e.type # "enforcement"
    BY <1>4, <1>9 DEF IsBook
  <2>2. \A i \in 1..n : ~(n + 1 < i)
    BY <1>3
  <2>3. Q = {}
    BY <1>3, <1>6, <2>1, <2>2
  <2>4. QED
    BY <1>8, <1>9, <2>3
<1>10. CASE ~IsBook(e, s) /\ e.type = "enforcement" /\ e.stage = s
  <2>1. \A j \in C : j < n + 1
    BY <1>3, <1>4, <1>10
  <2>2. n + 1 \in Q
    BY <1>3, <1>6, <1>10, <2>1
  <2>3. Q \subseteq 1..(n + 1)
    <3>1. Q \subseteq (1..n) \cup {n + 1}
      BY <1>6
    <3>2. QED
      BY <1>3, <3>1
  <2>4. Latest(Q) = n + 1 /\ Q # {}
    BY <1>3, <2>2, <2>3, NewIsLatest
  <2>5. QED
    BY <1>3, <1>8, <1>10, <2>4
<1>11. CASE ~IsBook(e, s) /\ ~(e.type = "enforcement" /\ e.stage = s)
  <2>1. Q = P
    <3>1. C = B
      BY <1>4, <1>11
    <3>2. n + 1 \notin Q
      BY <1>3, <1>6, <1>11
    <3>3. ASSUME NEW i \in 1..n PROVE i \in Q <=> i \in P
      BY <1>3, <1>6, <3>1
    <3>4. QED
      BY <1>6, <3>2, <3>3
  <2>2. P # {} => Latest(P) \in 1..n
    BY <1>3, <1>6, Largest
  <2>3. P # {} => log'[Latest(P)] = log[Latest(P)]
    BY <1>3, <2>2
  <2>4. QED
    BY <1>7, <1>8, <1>11, <2>1, <2>3
<1>12. QED
  BY <1>9, <1>10, <1>11

LEMMA OpenKept ==
  ASSUME FoldType, OpenStageIsUnclosedStart, NEW e \in Event, log' = Append(log, e),
         folded' = Apply(folded, e)
  PROVE  OpenStageIsUnclosedStart'
<1> SUFFICES ASSUME NEW s \in STAGES
             PROVE  folded'.open[s] = [handle      |-> OpenHandle(s)',
                                       enforcement |-> RecordedRefusal(s)',
                                       starting    |-> UnknownStart(s)']
  BY DEF OpenStageIsUnclosedStart
<1>1. PICK o : o = folded.open[s]
  OBVIOUS
<1>2. PICK h, r, u : h = OpenHandle(s) /\ r = RecordedRefusal(s) /\ u = UnknownStart(s)
  OBVIOUS
<1>3. PICK hh, rr, uu : hh = OpenHandle(s)' /\ rr = RecordedRefusal(s)' /\ uu = UnknownStart(s)'
  OBVIOUS
<1>4. o = [handle |-> h, enforcement |-> r, starting |-> u] /\ u \in BOOLEAN
  BY <1>1, <1>2 DEF OpenStageIsUnclosedStart, UnknownStart
<1>5. folded'.open[s] = Opened(o, e, s)
  BY <1>1, ApplyFolds DEF FoldType
<1>6. hh = IF ~IsBook(e, s) THEN h ELSE IF e.type = "stage_started" THEN e.handle ELSE NoHandle
  BY <1>2, <1>3, OpenHandleKept
<1>7. rr = IF IsBook(e, s) THEN NoRule
           ELSE IF e.type = "enforcement" /\ e.stage = s THEN e.rule ELSE r
  BY <1>2, <1>3, RecordedRefusalKept
<1>8. uu = IF IsBook(e, s) THEN e.type = "stage_starting" ELSE u /\ ~Names(e, s)
  BY <1>2, <1>3, UnknownStartKept
<1>9. CASE IsBook(e, s)
  <2>1. ~Names(e, s) /\ e.type # "human_decision" /\ e.stage = s
    BY <1>9 DEF IsBook, Names
  <2>2. Opened(o, e, s) = [handle |-> hh, enforcement |-> rr, starting |-> uu]
    BY <1>6, <1>7, <1>8, <1>9, <2>1 DEF Opened, IsBook, NothingOpen
  <2>3. QED
    BY <1>3, <1>5, <2>2
<1>10. CASE ~IsBook(e, s) /\ Names(e, s)
  <2>1. e.type # "enforcement"
    BY <1>10 DEF Names
  <2>2. uu = FALSE
    BY <1>8, <1>10
  <2>3. Opened(o, e, s) = [handle |-> hh, enforcement |-> rr, starting |-> uu]
    BY <1>4, <1>6, <1>7, <1>10, <2>1, <2>2 DEF Opened
  <2>4. QED
    BY <1>3, <1>5, <2>3
<1>11. CASE ~IsBook(e, s) /\ ~Names(e, s)
  <2>1. uu = u
    BY <1>4, <1>8, <1>11
  <2>2. Opened(o, e, s) = IF e.type = "enforcement" /\ e.stage = s
                            THEN [o EXCEPT !.enforcement = e.rule] ELSE o
    BY <1>11 DEF Opened, IsBook
  <2>3. Opened(o, e, s) = [handle |-> hh, enforcement |-> rr, starting |-> uu]
    BY <1>4, <1>6, <1>7, <1>11, <2>1, <2>2
  <2>4. QED
    BY <1>3, <1>5, <2>3
<1>12. QED
  BY <1>9, <1>10, <1>11

(* The verdicts of the audit, its starts, and the verdicts no start        *)
(* follows.                                                                *)
IsVerdict(e) == e.type = "audit_verdict" /\ e.stage = "audit"
IsAuditStart(e) == e.type = "stage_started" /\ e.stage = "audit"

Audits == {i \in Positions : IsVerdict(log[i])}
AuditStarts == {i \in Positions : IsAuditStart(log[i])}
Fresh == {i \in Audits : \A j \in AuditStarts : j < i}

LEMMA VerdictIs ==
  VerdictOfThisAttempt <=>
    /\ folded.verdict = IF Fresh = {} THEN NoVerdict ELSE log[Latest(Fresh)].verdict
    /\ folded.consumed = {log[i].commit : i \in Audits}
BY DEF VerdictOfThisAttempt, Fresh, Audits, AuditStarts, IsVerdict, IsAuditStart

LEMMA VerdictKept ==
  ASSUME FoldType, VerdictOfThisAttempt, NEW e \in Event, log' = Append(log, e),
         folded' = Apply(folded, e)
  PROVE  VerdictOfThisAttempt'
<1>1. PICK n : n = Len(log)
  OBVIOUS
<1>2. PICK A, S, F : A = Audits /\ S = AuditStarts /\ F = Fresh
  OBVIOUS
<1>3. PICK AA, SS, FF : AA = Audits' /\ SS = AuditStarts' /\ FF = Fresh'
  OBVIOUS
<1>4. /\ n \in Nat /\ log'[n + 1] = e /\ \A i \in 1..n : log'[i] = log[i]
      /\ Positions = 1..n /\ Positions' = Positions \cup {n + 1} /\ n + 1 \notin Positions
  BY <1>1, Grown
<1>5. /\ A \subseteq 1..n /\ AA = IF IsVerdict(e) THEN A \cup {n + 1} ELSE A
      /\ S \subseteq 1..n /\ SS = IF IsAuditStart(e) THEN S \cup {n + 1} ELSE S
  <2>1. /\ A = {i \in 1..n : IsVerdict(log[i])} /\ S = {i \in 1..n : IsAuditStart(log[i])}
        /\ AA = {i \in (1..n) \cup {n + 1} : IsVerdict(log'[i])}
        /\ SS = {i \in (1..n) \cup {n + 1} : IsAuditStart(log'[i])}
    BY <1>2, <1>3, <1>4 DEF Audits, AuditStarts
  <2>2. \A i \in 1..n : /\ IsVerdict(log'[i]) <=> IsVerdict(log[i])
                        /\ IsAuditStart(log'[i]) <=> IsAuditStart(log[i])
    BY <1>4
  <2>3. /\ IsVerdict(log'[n + 1]) <=> IsVerdict(e)
        /\ IsAuditStart(log'[n + 1]) <=> IsAuditStart(e)
    BY <1>4
  <2>4. n + 1 \notin 1..n
    BY <1>4
  <2>5. AA = IF IsVerdict(e) THEN A \cup {n + 1} ELSE A
    BY <2>1, <2>2, <2>3, <2>4
  <2>6. SS = IF IsAuditStart(e) THEN S \cup {n + 1} ELSE S
    BY <2>1, <2>2, <2>3, <2>4
  <2>7. QED
    BY <2>1, <2>5, <2>6
<1>6. F = {i \in A : \A j \in S : j < i} /\ FF = {i \in AA : \A j \in SS : j < i}
  BY <1>2, <1>3 DEF Fresh
<1>7. /\ folded.verdict = IF F = {} THEN NoVerdict ELSE log[Latest(F)].verdict
      /\ folded.consumed = {log[i].commit : i \in A}
  BY <1>2, VerdictIs
<1>8. /\ folded'.verdict = Judged(folded.verdict, e)
      /\ folded'.consumed = folded.consumed \cup (IF IsVerdict(e) THEN {e.commit} ELSE {})
  BY DEF Apply, IsVerdict
<1>9. folded'.verdict = IF FF = {} THEN NoVerdict ELSE log'[Latest(FF)].verdict
  <2>1. CASE IsVerdict(e)
    <3>1. ~IsAuditStart(e)
      BY <2>1 DEF IsVerdict, IsAuditStart
    <3>2. AA = A \cup {n + 1} /\ SS = S /\ \A j \in S : j < n + 1
      BY <1>4, <1>5, <2>1, <3>1
    <3>3. n + 1 \in FF
      BY <1>6, <3>2
    <3>4. AA \subseteq 1..(n + 1)
      BY <1>4, <1>5, <3>2
    <3>5. Latest(FF) = n + 1 /\ FF # {}
      BY <1>4, <1>6, <3>3, <3>4, NewIsLatest
    <3>6. folded'.verdict = e.verdict
      BY <1>8, <2>1 DEF Judged, IsVerdict
    <3>7. QED
      BY <1>4, <3>5, <3>6
  <2>2. CASE IsAuditStart(e)
    <3>1. ~IsVerdict(e)
      BY <2>2 DEF IsVerdict, IsAuditStart
    <3>2. AA = A /\ n + 1 \in SS
      BY <1>5, <2>2, <3>1
    <3>3. \A i \in 1..n : ~(n + 1 < i)
      BY <1>4
    <3>4. FF = {}
      BY <1>5, <1>6, <3>2, <3>3
    <3>5. folded'.verdict = NoVerdict
      BY <1>8, <2>2 DEF Judged, IsAuditStart
    <3>6. QED
      BY <3>4, <3>5
  <2>3. CASE ~IsVerdict(e) /\ ~IsAuditStart(e)
    <3>1. FF = F
      BY <1>5, <1>6, <2>3
    <3>2. F # {} => Latest(F) \in F
      BY <1>4, <1>5, <1>6, Largest
    <3>3. F # {} => log'[Latest(F)] = log[Latest(F)]
      BY <1>4, <1>5, <1>6, <3>2
    <3>4. folded'.verdict = folded.verdict
      BY <1>8, <2>3 DEF Judged, IsVerdict, IsAuditStart
    <3>5. QED
      BY <1>7, <3>1, <3>3, <3>4
  <2>4. QED
    BY <2>1, <2>2, <2>3
<1>10. folded'.consumed = {log'[i].commit : i \in AA}
  <2>1. {log'[i].commit : i \in A} = {log[i].commit : i \in A}
    BY <1>4, <1>5
  <2>2. CASE IsVerdict(e)
    <3>1. {log'[i].commit : i \in AA} = {log'[i].commit : i \in A} \cup {e.commit}
      BY <1>4, <1>5, <2>2
    <3>2. QED
      BY <1>7, <1>8, <2>1, <2>2, <3>1
  <2>3. CASE ~IsVerdict(e)
    BY <1>5, <1>7, <1>8, <2>1, <2>3
  <2>4. QED
    BY <2>2, <2>3
<1>11. QED
  BY <1>3, <1>9, <1>10 DEF VerdictOfThisAttempt, Fresh, Audits, AuditStarts, IsVerdict, IsAuditStart

FoldInv == FoldType /\ OpenStageIsUnclosedStart /\ VerdictOfThisAttempt

LEMMA FoldInitially == FoldInit => FoldInv
<1> SUFFICES ASSUME FoldInit PROVE FoldInv
  OBVIOUS
<1>1. log = <<>> /\ folded = EmptyView /\ Positions = {}
  BY DEF FoldInit, Positions
<1>2. FoldType
  BY <1>1, EmptyViewType DEF FoldType
<1>3. OpenStageIsUnclosedStart
  <2>1. \A s : Bookkeeping(s) = {} /\ Refusals(s) = {}
    BY <1>1 DEF Bookkeeping, Refusals
  <2>2. \A s : /\ OpenHandle(s) = NoHandle /\ UnknownStart(s) = FALSE
               /\ RecordedRefusal(s) = NoRule
    BY <2>1, RefusalIs DEF OpenHandle, UnknownStart
  <2>3. QED
    BY <1>1, <2>2 DEF OpenStageIsUnclosedStart, EmptyView, NothingOpen
<1>4. VerdictOfThisAttempt
  <2>1. Audits = {} /\ Fresh = {}
    BY <1>1 DEF Audits, Fresh
  <2>2. QED
    BY <1>1, <2>1, VerdictIs DEF EmptyView
<1>5. QED
  BY <1>2, <1>3, <1>4 DEF FoldInv

LEMMA FoldStep == FoldInv /\ [FoldNext]_foldVars => FoldInv'
<1> SUFFICES ASSUME FoldInv, [FoldNext]_foldVars PROVE FoldInv'
  OBVIOUS
<1>1. ASSUME NEW e \in Sample, AppendAny(e) PROVE FoldInv'
  <2>1. e \in Event
    BY SampleAssumption
  <2>2. log' = Append(log, e) /\ folded' = Apply(folded, e)
    BY <1>1 DEF AppendAny
  <2>3. FoldType'
    BY <2>1, <2>2, ApplyType DEF FoldInv, FoldType
  <2>4. QED
    BY <2>1, <2>2, <2>3, OpenKept, VerdictKept DEF FoldInv
<1>2. CASE UNCHANGED foldVars
  <2>1. log' = log /\ folded' = folded
    BY <1>2 DEF foldVars
  <2>2. \A s : Bookkeeping(s)' = Bookkeeping(s)
    BY <2>1 DEF Bookkeeping, Positions
  <2>3. \A s : /\ OpenHandle(s)' = OpenHandle(s)
               /\ RecordedRefusal(s)' = RecordedRefusal(s)
               /\ UnknownStart(s)' = UnknownStart(s)
    BY <2>1, <2>2 DEF OpenHandle, RecordedRefusal, UnknownStart, Positions
  <2>4. OpenStageIsUnclosedStart'
    BY <2>1, <2>3 DEF FoldInv, OpenStageIsUnclosedStart
  <2>5. VerdictOfThisAttempt'
    BY <2>1 DEF FoldInv, VerdictOfThisAttempt, Positions
  <2>6. QED
    BY <2>1, <2>4, <2>5 DEF FoldInv, FoldType
<1>3. QED
  BY <1>1, <1>2 DEF FoldNext

LEMMA FoldInvariant == FoldSpec => []FoldInv
BY FoldInitially, FoldStep, PTL DEF FoldSpec

(* The open start a step acts on is the one the history of the log         *)
(* describes, whatever was appended (engine.js openStage).                 *)
THEOREM OpenStartIsTold == FoldSpec => []OpenStageIsUnclosedStart
<1>1. FoldInv => OpenStageIsUnclosedStart
  BY DEF FoldInv
<1>2. QED
  BY <1>1, FoldInvariant, PTL

(* A verdict is reused until the audit starts again, and stays consumed    *)
(* for good (engine.js verdictThisAttempt, verdictConsumed).               *)
THEOREM VerdictIsTold == FoldSpec => []VerdictOfThisAttempt
<1>1. FoldInv => VerdictOfThisAttempt
  BY DEF FoldInv
<1>2. QED
  BY <1>1, FoldInvariant, PTL

(* The replay moves a task on an anchored completion by no implementer of  *)
(* it, on a human decision while it is not closed, or on a reopen.         *)
THEOREM ReplayIsAuthorised == FoldSpec => MovesAreAuthorised
<1> DEFINE Moved ==
      LET e == log'[Len(log')]
      IN  \/ e.type = "reopen" /\ folded'.state.stage = e.to
          \/ /\ e.type = "human_decision"
             /\ folded.state.stage \notin CLOSED
          \/ /\ e.type = "stage_done" /\ e.anchored
             /\ folded.state.stage \in STAGES
             /\ folded'.state.stage = NEXT_STAGE[folded.state.stage]
             /\ folded.state.stage = "audit" =>
                  e.actor \notin folded.state.implementActors
<1>1. FoldInv /\ [FoldNext]_foldVars
        => [folded'.state.stage # folded.state.stage => Moved]_foldVars
  <2> SUFFICES ASSUME FoldInv, NEW e \in Sample, AppendAny(e),
                      folded'.state.stage # folded.state.stage
               PROVE  Moved
    BY DEF FoldNext
  <2>1. PICK s : s = folded.state
    OBVIOUS
  <2>2. /\ e \in Event /\ s \in LifecycleState(Actors) /\ log \in Seq(Event)
        /\ log' = Append(log, e) /\ folded' = Apply(folded, e)
    BY <2>1, SampleAssumption DEF AppendAny, FoldInv, FoldType, View
  <2>3. log'[Len(log')] = e
    BY <2>2
  <2>4. PICK t : t = Replayed(s, e)
    OBVIOUS
  <2>5. folded'.state = t /\ t.stage # s.stage
    BY <2>1, <2>2, <2>4 DEF Apply
  <2>6. \/ e.type = "reopen" /\ t.stage = e.to
        \/ e.type = "human_decision" /\ s.stage \notin CLOSED
        \/ /\ e.type = "stage_done" /\ e.anchored /\ s.stage \in STAGES
           /\ t.stage = NEXT_STAGE[s.stage]
           /\ s.stage = "audit" => e.actor \notin s.implementActors
    <3>1. CASE e.type = "reopen"
      BY <2>2, <2>4, <2>5, <3>1 DEF Replayed, Reopened, LifecycleState
    <3>2. CASE e.type = "human_decision"
      BY <2>4, <2>5, <3>2 DEF Replayed, transition, MachineInput, Refuse
    <3>3. CASE e.type = "stage_done"
      <4>1. PICK i : i = MachineInput(e)
        OBVIOUS
      <4>2. /\ i.type = "stage_done" /\ i.actor = e.actor /\ i.stage = NoStage
            /\ i.anchored = e.anchored /\ i.skipPlan = FALSE
        BY <3>3, <4>1 DEF MachineInput
      <4>3. t = transition(s, i, {}).next
        BY <2>4, <3>3, <4>1 DEF Replayed
      <4>4. s.stage \in STAGES /\ t = ByAgent(s, i, {}).next
        BY <2>2, <2>5, <4>2, <4>3
        DEF transition, Refuse, LifecycleState, KnownStages, TERMINAL, CLOSED
      <4>5. t = AgentMove(s, i) /\ i.anchored /\ ~SelfApproves(s, i)
        BY <2>5, <4>4 DEF ByAgent, Refuse, Allow
      <4>6. AgentTarget(s, i) = NEXT_STAGE[s.stage]
        BY <4>2 DEF AgentTarget, Skips
      <4>7. QED
        BY <3>3, <4>2, <4>4, <4>5, <4>6 DEF AgentMove, SelfApproves
    <3>4. CASE e.type \notin {"reopen", "human_decision", "stage_done"}
      BY <2>4, <2>5, <3>4 DEF Replayed
    <3>5. QED
      BY <3>1, <3>2, <3>3, <3>4
  <2>7. QED
    BY <2>1, <2>3, <2>5, <2>6
<1>2. QED
  BY <1>1, FoldInvariant, PTL DEF FoldSpec, MovesAreAuthorised

=============================================================================
