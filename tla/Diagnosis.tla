----------------------------- MODULE Diagnosis ------------------------------
(***************************************************************************)
(* Failure diagnosis (scripts/lifecycle/diagnose.js): what a failed stage  *)
(* is tried with next, from one observation of the failure and the         *)
(* decisions recorded for the stage so far.  An observation is the signals *)
(* it carries and the value its inputs are made from: an exit code with    *)
(* its output, a question, the paths named.                                *)
(***************************************************************************)
EXTENDS Naturals, SequencesExt

CONSTANTS
  Signals,     \* what an observation may show
  Values,
  NoValue,
  NoRule

ASSUME DiagnosisAssumption ==
  /\ Signals = {"proof", "paths", "outside", "intent", "rules", "stuck"}
  /\ NoValue \notin Values
  /\ NoRule \notin {"R-PATH-SCOPE", "R-REPEAT-VIOLATION", "R-ATTEMPT-LIMIT", "R-UNCLASSIFIED",
                    "R-TABLE-EXHAUSTED"}

Observations == [signals: SUBSET Signals, value: Values]

Decision(category, intervention, rule, inputs) ==
  [category |-> category, intervention |-> intervention, rule |-> rule, inputs |-> inputs]

NoInputs == [context |-> NoValue, previous |-> NoValue]

IsTry(d) == d.rule = NoRule

Adaptive ==
  [implementation_defect   |-> <<"retry", "apprising", "collaboration">>,
   missing_context         |-> <<"apprising">>,
   ambiguous_requirement   |-> <<"consultation">>,
   conflicting_constraints |-> <<"consultation">>,
   capability_limit        |-> <<"switch_runtime">>]

Stops ==
  [path_violation     |-> "R-PATH-SCOPE",
   repeated_violation |-> "R-REPEAT-VIOLATION"]

(* previousAttempt, by the category makeDecide copies from its decision.   *)
PreviousCategory(history) ==
  IF history = <<>> THEN NoValue ELSE Last(history).category

(* Signals are looked at in one order, and the first decides.              *)
BaseCategory(signals) ==
  CASE "proof" \in signals   -> "implementation_defect"
    [] signals \cap {"proof", "paths"} = {"paths"} -> "path_violation"
    [] signals \cap {"proof", "paths", "outside"} = {"outside"} -> "missing_context"
    [] signals \cap {"proof", "paths", "outside", "intent"} = {"intent"} -> "ambiguous_requirement"
    [] signals \ {"stuck"} = {"rules"} -> "conflicting_constraints"
    [] signals = {"stuck"} -> "capability_limit"
    [] signals = {} -> "unclassified"

ClassifyFault(obs, history) == BaseCategory(obs.signals)

Classify(obs, history) ==
  LET category == BaseCategory(obs.signals)
  IN IF category = "path_violation" /\ PreviousCategory(history) = "path_violation"
       THEN "repeated_violation" ELSE category

(* The inputs a tactic runs with; their hash is their value.               *)
BuildInputsFault(intervention, obs, history) ==
  [context |-> obs.value, previous |-> Len(history)]

BuildInputs(intervention, obs, history) ==
  CASE intervention = "retry" ->
         [context |-> IF "proof" \in obs.signals THEN obs.value ELSE NoValue,
          previous |-> NoValue]
    [] intervention = "apprising" ->
         [context |-> IF obs.signals \cap {"paths", "outside"} # {} THEN obs.value ELSE NoValue,
          previous |-> PreviousCategory(history)]
    [] intervention = "consultation" ->
         [context |-> IF obs.signals \cap {"outside", "intent"} # {} THEN obs.value ELSE NoValue,
          previous |-> NoValue]
    [] OTHER -> NoInputs

TriedPairsFault(history) ==
  IF history = <<>> THEN {} ELSE {<<Last(history).intervention, Last(history).inputs>>}

TriedPairs(history) == {<<d.intervention, d.inputs>> : d \in {h \in ToSet(history) : IsTry(h)}}

(* The attempt limit, then the table of the category, entry by entry.      *)
ChooseIntervention(category, obs, history, limit) ==
  IF Len(history) >= limit
    THEN Decision(category, "escalate", "R-ATTEMPT-LIMIT", NoInputs)
  ELSE IF category = "unclassified"
    THEN Decision(category, "escalate", "R-UNCLASSIFIED", NoInputs)
  ELSE IF category \in DOMAIN Stops
    THEN Decision(category, "enforcement", Stops[category], NoInputs)
  ELSE LET table   == Adaptive[category]
           untried == {n \in DOMAIN table :
                         <<table[n], BuildInputs(table[n], obs, history)>> \notin TriedPairs(history)}
           next    == table[Min(untried)]
       IN IF untried = {}
            THEN Decision(category, "escalate", "R-TABLE-EXHAUSTED", NoInputs)
          ELSE Decision(category, next, NoRule, BuildInputs(next, obs, history))

Diagnose(obs, history, limit) ==
  ChooseIntervention(Classify(obs, history), obs, history, limit)
=============================================================================
