---------------------------- MODULE TaskLogFold -----------------------------
(***************************************************************************)
(* A task's log kept as the sequence of its events beside the view that    *)
(* TaskLog!Apply maintains.  The invariants compare every fold with what   *)
(* the code's comments say it means, stated over the positions of the log  *)
(* instead of as a loop.                                                   *)
(***************************************************************************)
EXTENDS TaskLog, Sequences

CONSTANTS
  Sample,      \* the events a log is built from
  MaxLength    \* bound on the length of the log

ASSUME SampleAssumption == Sample \subseteq Event /\ MaxLength \in Nat

VARIABLES
  log,         \* the events on disk, oldest first
  folded       \* their folds

foldVars == <<log, folded>>

FoldInit ==
  /\ log = <<>>
  /\ folded = EmptyView

AppendAny(e) ==
  /\ Len(log) < MaxLength
  /\ log' = Append(log, e)
  /\ folded' = Apply(folded, e)

FoldNext == \E e \in Sample : AppendAny(e)

FoldSpec == FoldInit /\ [][FoldNext]_foldVars

-----------------------------------------------------------------------------
Positions == 1..Len(log)

Latest(P) == CHOOSE i \in P : \A j \in P : j <= i

Bookkeeping(stage) ==
  {i \in Positions : /\ log[i].type \in {"stage_starting", "stage_started",
                                         "stage_failed", "stage_done"}
                     /\ log[i].stage = stage}

(* A start of unknown outcome is a stage_starting with no following        *)
(* stage_started, stage_failed, stage_done or human decision that names    *)
(* its stage (engine.js openStage).                                        *)
UnknownStart(stage) ==
  \E i \in Bookkeeping(stage) :
     /\ log[i].type = "stage_starting"
     /\ \A j \in i+1..Len(log) :
          j \notin Bookkeeping(stage) /\ ~Names(log[j], stage)

(* The open handle is the one of the stage's last bookkeeping event, when  *)
(* that event is a stage_started.                                          *)
OpenHandle(stage) ==
  IF Bookkeeping(stage) = {} \/ log[Latest(Bookkeeping(stage))].type # "stage_started"
    THEN NoHandle
    ELSE log[Latest(Bookkeeping(stage))].handle

(* The refusal against the open handle: the last enforcement event of the  *)
(* stage not followed by any of its bookkeeping events.                    *)
RecordedRefusal(stage) ==
  LET refusals == {i \in Positions :
                     /\ log[i].type = "enforcement"
                     /\ log[i].stage = stage
                     /\ \A j \in Bookkeeping(stage) : j < i}
  IN  IF refusals = {} THEN NoRule ELSE log[Latest(refusals)].rule

(* The open start a step acts on is exactly the one the log's history      *)
(* describes: what engine.js openStage computes in one pass is the         *)
(* unclosed start, its handle and its recorded refusal.                    *)
OpenStageIsUnclosedStart ==
  \A s \in STAGES :
    folded.open[s] = [handle      |-> OpenHandle(s),
                      enforcement |-> RecordedRefusal(s),
                      starting    |-> UnknownStart(s)]

(* A verdict is reused by a resumed step only while no later start of the  *)
(* audit stage follows it (engine.js verdictThisAttempt), and every        *)
(* verdict ever recorded stays consumed (verdictConsumed).                 *)
VerdictOfThisAttempt ==
  LET audits == {i \in Positions : log[i].type = "audit_verdict" /\ log[i].stage = "audit"}
      starts == {i \in Positions : log[i].type = "stage_started" /\ log[i].stage = "audit"}
      fresh  == {i \in audits : \A j \in starts : j < i}
  IN  /\ folded.verdict = (IF fresh = {} THEN NoVerdict ELSE log[Latest(fresh)].verdict)
      /\ folded.consumed = {log[i].commit : i \in audits}

(* A closed task is left by a reopen and by nothing else, and no other     *)
(* event ever puts the replay back before the stage it reached except a    *)
(* human decision (engine.js replay over stages.js transition).            *)
MovesAreAuthorised ==
  [][ folded'.state.stage # folded.state.stage =>
        LET e == log'[Len(log')]
        IN  \/ e.type = "reopen" /\ folded'.state.stage = e.to
            \/ /\ e.type = "human_decision"
               /\ folded.state.stage \notin CLOSED
            \/ /\ e.type = "stage_done" /\ e.anchored
               /\ folded.state.stage \in STAGES
               /\ folded'.state.stage = NEXT_STAGE[folded.state.stage]
               /\ folded.state.stage = "audit" =>
                    e.actor \notin folded.state.implementActors ]_foldVars

=============================================================================
