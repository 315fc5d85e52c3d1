---------------------------- MODULE GateProperties -----------------------------
(***************************************************************************)
(* What the gate promises of the base, over the variables of Gate.         *)
(***************************************************************************)
EXTENDS Gate

(* The trees the base has been from the moment the gate of the i-th merge  *)
(* began until that merge.                                                 *)
Governing(i) == {line[j] : j \in gate[merged[i]].began .. i}

(* Whatever is merged was allowed before it was merged: each changed file, *)
(* a contract or exempt documentation apart, is listed by a contract of    *)
(* the pull request and within an intent that was on the base while it was *)
(* verified, never its own (yukl.js resolveIntentForContract, checkScope). *)
AuthorisedBeforehand ==
  \A i \in DOMAIN merged : LET p == merged[i]
    IN \A f \in Diff(p) :
         \/ IsContractFile(f)
         \/ Carried(p) = {} /\ IsAllowedDocPath(f)
         \/ \E t \in Carried(p) :
              /\ f \in TouchedBy(p, {t})
              /\ \E tree \in Governing(i) :
                   \/ tree[YuklConfig] = Absent
                   \/ /\ IntentFor(t, tree) # Nothing
                      /\ CheckIntentPaths({f}, IntentFor(t, tree)) = {}

(* An intent authorises one pull request: of two merges with the contract  *)
(* of one task the later was verified, if not merged, before the earlier   *)
(* was merged, or the contract had been deleted from the base in between   *)
(* (yukl.js runVerify, the replay check).                                  *)
OneIntentOnePull ==
  \A i, k \in DOMAIN merged : \A t \in Carried(merged[i]) \cap Carried(merged[k]) :
    i < k /\ gate[merged[k]].mode = "config" =>
      \/ gate[merged[k]].began <= i
      \/ \E j \in (i + 1)..k : line[j][ContractFile(t)] = Absent

(* Every proof that a merged contract claims was run and exited with zero, *)
(* and was on an allowlist of the base, not one the pull request wrote     *)
(* (yukl.js resolveGateConfig, runCommand).                                *)
ProofsRan ==
  \A i \in DOMAIN merged : LET p == merged[i]
    IN \A t \in Carried(p) : \A claim \in ToSet(Tip(p)[ContractFile(t)].proofs) :
         /\ claim.command \in gate[p].exited
         /\ \E tree \in Governing(i) : claim.command \in ResolveGateConfig(tree).allowlist

(* A verification that has begun ends, though a command it runs may not    *)
(* (yukl.js runCommand, the timer and the exit event).                     *)
EveryGateEnds ==
  \A p \in Pulls : (gate[p].at = "queued") ~> (gate[p].at \in Ended)
=============================================================================
