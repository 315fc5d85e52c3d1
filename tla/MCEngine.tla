------------------------------ MODULE MCEngine ------------------------------
(* Values of Engine's constants for TLC.                                   *)
EXTENDS EngineProperties, TLC

MCActors == {"developer", "auditor", "engine", "integrate"}

(* implement and audit run agents, as in the repository's own lifecycle.   *)
MCAgentOf == [implement |-> "developer", audit |-> "auditor"]

(* c1 holds a passing verdict, any other commit a failing one.             *)
MCVerdictAt == [c \in Commits |-> IF c = "c1" THEN "pass" ELSE "fail"]

NoEdges == {}

(* A policy that keeps the audit for a human's decision.                   *)
AuditNeedsHuman == {<<"prove", "audit">>}

OverrideToImplement == {<<"override", "implement">>}

DecisionsBack ==
  {<<"override", "implement">>, <<"override", "audit">>, <<"override", "integrate">>,
   <<"approve", NoStage>>, <<"stop", NoStage>>}

DecisionsRace == {<<"override", "implement">>, <<"approve", NoStage>>}

HandleSymmetry == Permutations(Handles)
=============================================================================
