-------------------------- MODULE EngineProperties --------------------------
(***************************************************************************)
(* What the lifecycle engine promises, over the variables of Engine.       *)
(***************************************************************************)
EXTENDS Engine

Workers == [Handles -> [stage: STAGES \cup {NoStage}, condition: Conditions]]

History == [unsettled: SUBSET Handles, named: SUBSET STAGES, spawned: Nat,
            verdicts: [Commits -> Nat], escalated: SUBSET STAGES]

(* Types of every variable.                                                *)
TypeOK ==
  /\ view \in View /\ snap \in View
  /\ pc \in Places /\ mode \in Modes
  /\ base \in Nat /\ late \in BOOLEAN
  /\ work \in Work
  /\ workers \in Workers
  /\ merges \in Nat
  /\ human \in Event
  /\ spent \in [runs: Nat, crashes: Nat, decisions: Nat]
  /\ hist \in History

-----------------------------------------------------------------------------
(* Start safety (engine.js startStage and openStage): among the workers    *)
(* of a stage started since a human last named it, at most one is running. *)
(* A crash between the runtime call and its record, a throw of unknown     *)
(* outcome, a breached limit and any number of later runs may not add a    *)
(* second one.                                                             *)
OneUnsettledWorkerPerStage ==
  \A g, h \in hist.unsettled \cap Live :
     workers[g].stage = workers[h].stage => g = h

(* A verdict commit is judged once (engine.js judgeAudit): however often   *)
(* the step is interrupted after recording it, and whichever attempt       *)
(* anchors at it again, no second audit_verdict is counted for it.         *)
VerdictJudgedOnce ==
  \A c \in Commits : hist.verdicts[c] <= 1

(* The branch is merged once (engine.js integrateStage): the marker makes  *)
(* a run that resumes after a crash confirm or block, never merge again.   *)
MergedOnce == merges <= 1

(* A run never starts more agents than its limit (engine.js                *)
(* startLimitRefusal), the starts it made but lost track of included.      *)
RunWithinStartLimit ==
  mode # "once" => hist.spawned <= MaxStarts

(* No step of an agent moves a task but by finishing the stage the task is *)
(* at (stages.js byAgent): the stage_done that moves it names that stage.  *)
MovesByFinishingCurrentStage ==
  [][ view'.state.stage # view.state.stage /\ human' = human
        => view'.fold = view.state.stage ]_vars

(* An agent passes the audit stage only on a "pass" verdict recorded for   *)
(* this attempt, and not as an agent that implemented (engine.js           *)
(* completeAgentStage, stages.js byAgent).                                 *)
ReviewIsEarned ==
  [][ (/\ view.state.stage = "audit" /\ view'.state.stage = "review"
       /\ human' = human)
        => /\ view.verdict = "pass"
           /\ "audit" \in Runtimes => AgentOf["audit"] \notin view.state.implementActors ]_vars

(* No agent crosses an edge the policy keeps for a human, and no merge the *)
(* policy keeps for a human is made (stages.js byAgent, engine.js          *)
(* integrateStage).                                                        *)
HumanEdgesWaitForHumans ==
  [][ /\ view'.state.stage # view.state.stage /\ human' = human
        => <<view.state.stage, view'.state.stage>> \notin HumanEdges
      /\ merges' # merges => <<"integrate", "done">> \notin HumanEdges ]_vars

(* Every run ends, even one whose worker never exits (engine.js            *)
(* runUntilBlocked, wallLimitBreach).                                      *)
RunsEnd == pc # "off" ~> pc = "off"

-----------------------------------------------------------------------------
(* What the documentation says and the code does not do; each is refuted   *)
(* by a run of its own (see the README).                                   *)

(* "an open handle stays polled, so a decision naming a stage never makes  *)
(* the engine start a second worker beside a live one" (4.8): no worker is *)
(* started while the log holds an open handle whose worker is live.        *)
NoStartBesideALiveHandle ==
  [][ (\E h \in Handles :
         workers[h].condition = "none" /\ workers'[h].condition = "live")
        => \A s \in STAGES : view.open[s].handle \notin Live ]_vars

(* "because the count is run-scoped, a later run of the same task starts   *)
(* with the limit unspent" (4.7): no run is refused by a limit that an     *)
(* earlier run breached while its worker was open.                         *)
LaterRunUnspent ==
  ~ (pc = "step" /\ IsAgentStage /\ Open.handle # NoHandle
       /\ Open.enforcement = "R-RUN-LIMIT")

(* "it starts the stage again if and only if the recorded diagnosis chose  *)
(* retry" (4.8).                                                           *)
RestartsOnlyOnRetry ==
  [][ \A h \in Handles :
        workers[h].condition = "none" /\ workers'[h].condition = "live"
          => workers'[h].stage \notin hist.escalated ]_vars

(* "A decision on a task whose folded state is terminal exits 1" (4.4).    *)
NoDecisionOnTerminalTask ==
  [][ human = NoDecision /\ human' # NoDecision
        => view.state.stage \notin CLOSED ]_vars

=============================================================================
