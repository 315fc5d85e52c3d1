------------------------------ MODULE Autonomy ------------------------------
(***************************************************************************)
(* The policy a project commits (scripts/lifecycle/policy.js), the record  *)
(* a runtime earns (track.js), and whether an edge of the stage machine    *)
(* waits for a human (makeRequiresHuman of scripts/commands/run.js).       *)
(***************************************************************************)
EXTENDS Integers, SequencesExt, FiniteSetsExt

CONSTANTS
  Stages,     \* the stages with a runtime, "integrate" among them
  Runtimes,
  NoRuntime,
  RuntimeOf   \* the runtime the lifecycle block gives each stage

ASSUME AutonomyAssumption ==
  NoRuntime \notin Runtimes /\ RuntimeOf \in [Stages -> Runtimes \cup {NoRuntime}]

Human      == [form |-> "human", level |-> 0]
AutoAlways == [form |-> "auto", level |-> 0]
AutoAt(n)  == [form |-> "at", level |-> n]

(* The blocks of a policy that its schema refuses.                         *)
PolicyViolations(doc) ==
  (IF doc.ceiling < 0 THEN {"ceiling"} ELSE {})
    \cup {id \in DOMAIN doc.autonomy : doc.autonomy[id].form = "at" /\ doc.autonomy[id].level < 1}
    \cup (IF doc.maxAttempts < 1 THEN {"limits"} ELSE {})
    \cup (IF \E t \in doc.levels : t.level < 0 \/ t.minCleanRuns < 0 THEN {"trackRecord"} ELSE {})

(* A record is folded from the log, one event at a time.                   *)
NoRecord == [clean |-> 0, stops |-> 0]

AfterVerdict(records, runtime, verdict) ==
  [records EXCEPT ![runtime].clean = IF verdict = "pass" THEN @ + 1 ELSE @]

AfterEnforcementFault(records, ranBy, stage) ==
  IF RuntimeOf[stage] = NoRuntime THEN records
  ELSE [records EXCEPT ![RuntimeOf[stage]].stops = @ + 1]

(* A stop counts against who last started the stage, or against nobody.    *)
AfterEnforcement(records, ranBy, stage) ==
  IF ranBy[stage] = NoRuntime THEN records
  ELSE [records EXCEPT ![ranBy[stage]].stops = @ + 1]

(* The highest threshold reached, under the ceiling, less one for stops.   *)
AutonomyLevel(record, policy) ==
  LET reached == {t.level : t \in {l \in policy.levels : record.clean >= l.minCleanRuns}}
      level   == Min({policy.ceiling, Max({0} \cup reached)})
  IN Max({0, IF record.stops > 0 THEN level - 1 ELSE level})

(* The edge that leaves a stage, by the id the policy knows it under.      *)
MapToPolicyId(stage) ==
  IF stage = "integrate" THEN "merge-implementation-pr" ELSE "advance-stage-on-gate-pass"

RequiresHumanFault(policy, id, level) ==
  /\ id \in DOMAIN policy.autonomy
  /\ \/ policy.autonomy[id].form = "human"
     \/ policy.autonomy[id].form = "at" /\ level < policy.autonomy[id].level

(* An id the policy does not name waits for a human.                       *)
RequiresHuman(policy, id, level) ==
  \/ id \notin DOMAIN policy.autonomy
  \/ policy.autonomy[id].form = "human"
  \/ policy.autonomy[id].form = "at" /\ level < policy.autonomy[id].level

EdgeWaits(stage, records, policy) ==
  LET runtime == RuntimeOf[stage]
      record  == IF runtime = NoRuntime THEN NoRecord ELSE records[runtime]
  IN RequiresHuman(policy, MapToPolicyId(stage), AutonomyLevel(record, policy))
=============================================================================
