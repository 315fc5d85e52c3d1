------------------------- MODULE AttemptsProperties -------------------------
(***************************************************************************)
(* What diagnosis and the track record promise of a task's attempts, over  *)
(* the variables of Attempts.                                              *)
(***************************************************************************)
EXTENDS Attempts

Tries(s) == {i \in DOMAIN history[s] : IsTry(history[s][i])}

(* No stage is tried twice with one intervention on the same inputs, of    *)
(* all its attempts and whatever failed in between (diagnose.js            *)
(* triedPairs, chooseIntervention).                                        *)
NoTryRepeated ==
  \A s \in Stages : \A i, j \in Tries(s) :
    /\ history[s][i].intervention = history[s][j].intervention
    /\ history[s][i].inputs = history[s][j].inputs
    => i = j

(* A stage that fails the same way again and again runs out of tries       *)
(* before its fourth failure in a row, though an apprising is made from    *)
(* the failure before and may so come twice (diagnose.js).                 *)
SameFailureStops ==
  \A s \in Stages : \A i \in DOMAIN seen[s] :
    i >= 4 /\ (\A j \in (i - 3)..i : seen[s][j] = seen[s][i]) => i \notin Tries(s)

(* A failure that left its scope is never tried again by itself, and of    *)
(* two in a row one is a repetition (diagnose.js classify, TABLE).         *)
ViolationsStop ==
  \A s \in Stages : \A i \in DOMAIN seen[s] :
    BaseCategory(seen[s][i].signals) = "path_violation" =>
      /\ i \notin Tries(s)
      /\ i > 1 => {history[s][i - 1].category, history[s][i].category} # {"path_violation"}

-----------------------------------------------------------------------------
Level(r) == AutonomyLevel(records[r], policy)

(* A runtime's level rises only by an audit it passes and falls only by    *)
(* its first stop, by one, on a stage it was the last to start; what other *)
(* runtimes do leaves it alone (track.js trackRecord, autonomyLevel).      *)
LevelMovesForAReason ==
  [][\A r \in Runtimes :
       LET before == AutonomyLevel(records[r], policy)
           after  == AutonomyLevel(records'[r], policy)
       IN /\ after > before => records'[r].clean > records[r].clean
          /\ after < before =>
               /\ after = before - 1
               /\ records[r].stops = 0 /\ records'[r].stops = 1
               /\ \E s \in Stages : ranBy[s] = r]_vars

(* An edge goes without a human only on the policy's word: by name, or at  *)
(* a level whose clean audits the runtime of the stage has (a stage with   *)
(* none has none), one level more when it was ever stopped, and within the *)
(* ceiling (policy.js requiresHuman, run.js makeRequiresHuman).            *)
NothingGivenUnearned ==
  \A s \in Stages : ~EdgeWaits(s, records, policy) =>
    LET id == MapToPolicyId(s)  r == RuntimeOf[s]  entry == policy.autonomy[id]
        record == IF r = NoRuntime THEN NoRecord ELSE records[r]
    IN /\ id \in DOMAIN policy.autonomy
       /\ \/ entry.form = "auto"
          \/ /\ entry.form = "at"
             /\ \E t \in policy.levels :
                  LET owed == IF record.stops > 0 THEN 1 ELSE 0
                  IN /\ t.minCleanRuns <= record.clean
                     /\ entry.level + owed <= t.level
                     /\ entry.level + owed <= policy.ceiling
=============================================================================
