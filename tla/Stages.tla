------------------------------- MODULE Stages -------------------------------
(***************************************************************************)
(* The pure lifecycle stage machine of scripts/lifecycle/stages.js: a      *)
(* state and an event give a next state and the rule that decided.         *)
(*                                                                         *)
(* Events are records with the fields the machine reads: type, actor, the  *)
(* stage the event names at top level (NoStage when it names none), the    *)
(* human action, whether the anchor is a 40-hex commit, and the skipPlan   *)
(* request with whether it carries a decision rule.  The list of skip      *)
(* decisions a state accumulates is read by nothing and left out.          *)
(*                                                                         *)
(* Here and in the other modules an operator named ...Fault is a mistake   *)
(* this code could plausibly have: the specification never uses it, the    *)
(* README says which property catches it.                                  *)
(***************************************************************************)

STAGES == {"intent", "scope", "plan", "implement",
           "prove", "audit", "review", "integrate"}

TERMINAL == {"done", "stopped", "escalated"}

CLOSED == {"done", "stopped"}

KnownStages == STAGES \cup TERMINAL

NEXT_STAGE ==
  [intent    |-> "scope",  scope |-> "plan",   plan   |-> "implement",
   implement |-> "prove",  prove |-> "audit",  audit  |-> "review",
   review    |-> "integrate", integrate |-> "done"]

NoStage  == "no stage"
NoActor  == "no actor"
NoAction == "no action"

(* The edges an agent may drive, as pairs; advanceId only names them.      *)
AgentEdges == {<<s, NEXT_STAGE[s]>> : s \in STAGES} \cup {<<"scope", "implement">>}

Rules == {"R-ADVANCE-ANCHORED", "R-NO-ANCHOR", "R-SELF-APPROVAL", "R-TERMINAL",
          "R-NEEDS-HUMAN", "R-HUMAN-OVERRIDE", "R-ILLEGAL-EDGE"}

LifecycleState(Actors) ==
  [stage: KnownStages, implementActors: SUBSET Actors, paused: BOOLEAN]

initialState == [stage |-> "intent", implementActors |-> {}, paused |-> FALSE]

Allow(next, rule)   == [ok |-> TRUE,  next |-> next,  rule |-> rule]
Refuse(state, rule) == [ok |-> FALSE, next |-> state, rule |-> rule]

-----------------------------------------------------------------------------
(* The agent's edge out of a stage: the successor, or straight to          *)
(* implement when the scope stage is finished with a skipPlan request.     *)
Skips(state, event) == state.stage = "scope" /\ event.skipPlan

AgentTarget(state, event) ==
  IF Skips(state, event) THEN "implement" ELSE NEXT_STAGE[state.stage]

SelfApprovesFault(state, event) ==
  state.stage = "review" /\ event.actor \in state.implementActors

SelfApproves(state, event) ==
  /\ state.stage = "audit"
  /\ event.actor \in state.implementActors

AgentMove(state, event) ==
  [stage           |-> AgentTarget(state, event),
   implementActors |-> IF state.stage = "implement"
                         THEN state.implementActors \cup {event.actor}
                         ELSE state.implementActors,
   paused          |-> FALSE]

KeptForHumanFault(state, event, needsHuman) ==
  <<state.stage, event.stage>> \in needsHuman

KeptForHuman(state, event, needsHuman) ==
  <<state.stage, AgentTarget(state, event)>> \in needsHuman

(* byAgent: the refusals in the order the code tries them.  needsHuman is  *)
(* the set of edges the injected policy keeps for a human.                 *)
ByAgent(state, event, needsHuman) ==
  IF event.actor = NoActor \/ (Skips(state, event) /\ ~event.ruled)
    THEN Refuse(state, "R-ILLEGAL-EDGE")
  ELSE IF event.stage \notin {NoStage, AgentTarget(state, event)}
    THEN Refuse(state, "R-ILLEGAL-EDGE")
  ELSE IF ~event.anchored
    THEN Refuse(state, "R-NO-ANCHOR")
  ELSE IF SelfApproves(state, event)
    THEN Refuse(state, "R-SELF-APPROVAL")
  ELSE IF KeptForHuman(state, event, needsHuman)
    THEN Refuse(state, "R-NEEDS-HUMAN")
  ELSE Allow(AgentMove(state, event), "R-ADVANCE-ANCHORED")

(* byHuman: a named stage wins over an action; pause and resume only set   *)
(* the flag, stop closes the lifecycle.                                    *)
ByHuman(state, event) ==
  IF event.stage # NoStage
    THEN IF event.stage \in KnownStages
           THEN Allow([state EXCEPT !.stage = event.stage, !.paused = FALSE],
                      "R-HUMAN-OVERRIDE")
           ELSE Refuse(state, "R-ILLEGAL-EDGE")
  ELSE IF event.action \in {"pause", "resume"}
    THEN Allow([state EXCEPT !.paused = (event.action = "pause")],
               "R-HUMAN-OVERRIDE")
  ELSE IF event.action = "stop"
    THEN Allow([state EXCEPT !.stage = "stopped", !.paused = FALSE],
               "R-HUMAN-OVERRIDE")
  ELSE Refuse(state, "R-ILLEGAL-EDGE")

(* transition: done and stopped are closed to every event, escalated to    *)
(* every event but a human decision.                                       *)
transition(state, event, needsHuman) ==
  IF state.stage \in CLOSED
    THEN Refuse(state, "R-TERMINAL")
  ELSE IF event.type = "human_decision"
    THEN ByHuman(state, event)
  ELSE IF state.stage = "escalated"
    THEN Refuse(state, "R-TERMINAL")
  ELSE IF event.type = "stage_done"
    THEN ByAgent(state, event, needsHuman)
  ELSE Refuse(state, "R-ILLEGAL-EDGE")

=============================================================================
