------------------------- MODULE LandingProperties --------------------------
(***************************************************************************)
(* What the merge of a branch promises, over the variables of Landing.     *)
(***************************************************************************)
EXTENDS Landing

Places == {"idle", "base", "worktrees", "checks", "target", "merge", "update"} \cup Ended

By(m) == {i \in DOMAIN base : base[i].run.hash = m}

(* Types, and a base that holds at most one merge of each process, none    *)
(* without the hash of a log (vcs-git-local.js runHeadTrailer and merge,   *)
(* vcs-github.js merge).                                                   *)
TypeOK ==
  /\ adapter \in {"git-local", "github"}
  /\ \A i \in DOMAIN base :
       base[i].adds \subseteq Changes /\ (base[i].run = NoRun \/ base[i].run.hash \in Mergers)
  /\ branch \in [Tasks -> SUBSET Changes] /\ target \subseteq Tasks
  /\ \A m \in Mergers : merger[m].at \in Places /\ merger[m].hash \in {m, NoHash}
  /\ \A m \in Mergers : \A i, j \in By(m) : i = j
  /\ late \subseteq Mergers /\ moves \in 0..MaxMoves

(* The base moves only forward: no commit another process or a person put  *)
(* there while a merge was under way is lost (vcs-git-local.js, update-ref *)
(* with the old value).                                                    *)
BaseOnlyGrows == [][IsPrefix(base, base')]_vars

(* A merge that is refused leaves nothing of its own on the base: by local *)
(* Git anywhere, up to the update-ref that finds the base moved; by the    *)
(* adapter for GitHub until it asks GitHub, "so a rejected merge never     *)
(* touches the remote" (vcs-github.js:122-124).  What gh reports failed    *)
(* after that is not refused: it may have happened (FailureLeavesNothing). *)
RefusedLeavesNothing ==
  \A m \in Mergers : merger[m].at = "refused" => By(m) = {}

(* Unless the branch or its target moved after the checks, what a process  *)
(* lands is what it saw pass, nothing that fails a proof command, and once *)
(* it reports the merge the base holds all of it, for whatever others did  *)
(* to the base (vcs-git-local.js checks and merge, vcs-github.js).         *)
LandsWhatPassed ==
  \A m \in Mergers \ late :
    /\ \A i \in By(m) : base[i].adds \subseteq merger[m].seen \ Broken
    /\ merger[m].at = "ok" => merger[m].seen \subseteq Content(base)

(* Status answers for every task with the head of the last of its merges,  *)
(* whichever tasks were merged and commits made since, and whether or not  *)
(* the process lived to record its merge (status.js findRunHeadTrailer).   *)
StatusFindsHead ==
  \A t \in Tasks : FindRunHeadTrailer(base, t) = landed[t]

-----------------------------------------------------------------------------
(* What the source says of a merge, and a branch that moves or a reply that *)
(* is lost refutes, in a run of its own (see the README).                  *)

(* A merge "refuses, changing nothing, [...] when checks(ref) is not ok"   *)
(* (vcs-git-local.js): only commits whose checks passed are merged.        *)
MergedWasChecked ==
  \A m \in Mergers : \A i \in By(m) : base[i].adds \subseteq merger[m].seen

(* "Any refusal returns before `gh pr merge` is invoked, so a rejected      *)
(* merge never touches the remote" (vcs-github.js:122-124), taken of all   *)
(* that comes back ok: false, as the engine takes it: the stage failed.    *)
FailureLeavesNothing ==
  \A m \in Mergers : merger[m].at \in {"refused", "failed"} => By(m) = {}
=============================================================================
