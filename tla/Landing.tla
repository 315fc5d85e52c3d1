------------------------------ MODULE Landing -------------------------------
(***************************************************************************)
(* The merge of a task's branch into the base: the adapters for local Git  *)
(* (scripts/adapters/vcs-git-local.js) and for GitHub (vcs-github.js), the *)
(* run head they record, and the status command that looks it up.  Each    *)
(* command an adapter spawns is a step of its own, and agents and people   *)
(* go on using the repository between any two.                             *)
(***************************************************************************)
EXTENDS Naturals, SequencesExt

CONSTANTS
  Mergers,     \* the yukl run processes that merge, each once
  TaskOf,      \* the task of each
  Changes,     \* what a commit can bring
  Broken,      \* the changes that fail a proof command
  NoHash,      \* the head hash of an empty log
  MaxMoves     \* bound: what people and agents do meanwhile

Tasks == {TaskOf[m] : m \in Mergers}

ASSUME LandingAssumption ==
  /\ Broken \subseteq Changes /\ NoHash \notin Mergers \cup Tasks
  /\ MaxMoves \in Nat

VARIABLES
  adapter, \* the version control the project names
  base,    \* the commits of the base, the newest last
  branch,  \* what the tip of each task's branch holds
  out,     \* whether the base is checked out in a worktree
  target,  \* the tasks whose pull request names this base
  merger,  \* where each process is and what it has read
  moves,   \* what people and agents have done
  late,    \* the processes whose branch or target moved after they had read it
  landed   \* the process that last put a merge of each task on the base

vars  == <<adapter, base, branch, out, target, merger, moves, late, landed>>
repo  == <<branch, out, target>>
notes == <<moves, late>>

(* A head hash is named by the process that recorded it.                   *)
Commit(adds, run) == [adds |-> adds, run |-> run]
NoRun             == [task |-> NoHash, hash |-> NoHash]

Content(commits) == UNION {commits[i].adds : i \in DOMAIN commits}

(* A merge is refused before anything is asked to move the base, or with   *)
(* the base unmoved; one that GitHub was asked for may only fail.          *)
Ended == {"ok", "refused", "failed", "dead"}

Init ==
  /\ adapter \in {"git-local", "github"}
  /\ base = <<>>
  /\ branch \in [Tasks -> {{c} : c \in Changes}]
  /\ out \in BOOLEAN
  /\ target = Tasks
  /\ merger = [m \in Mergers |-> [at |-> "idle", hash |-> NoHash, old |-> <<>>,
                                  seen |-> {}, new |-> <<>>]]
  /\ moves = 0
  /\ late = {}
  /\ landed = [t \in Tasks |-> NoHash]

-----------------------------------------------------------------------------
Goes(m, place) == merger' = [merger EXCEPT ![m].at = place]

Tip(m) == branch[TaskOf[m]]

Trailer(m) == [task |-> TaskOf[m], hash |-> merger[m].hash]

(* A branch the base already holds merges without a commit.                *)
MergeOf(m, commits) ==
  IF Tip(m) \subseteq Content(commits) THEN commits
  ELSE Append(commits, Commit(Tip(m) \ Content(commits), Trailer(m)))

(* The head of the log is read, and a run head without a hash refused.     *)
Begin(m) ==
  /\ merger[m].at = "idle"
  /\ \/ Goes(m, "refused")
     \/ merger' = [merger EXCEPT ![m].hash = m,
          ![m].at = IF adapter = "github" THEN "checks" ELSE "base"]
  /\ UNCHANGED <<adapter, base, repo, notes, landed>>

(* git-local: rev-parse of the base.                                       *)
ReadBase(m) ==
  /\ merger[m].at = "base"
  /\ merger' = [merger EXCEPT ![m].old = base, ![m].at = "worktrees"]
  /\ UNCHANGED <<adapter, base, repo, notes, landed>>

(* A list of worktrees that cannot be had counts as empty.                 *)
LookForCheckouts(m) ==
  /\ merger[m].at = "worktrees"
  /\ (out /\ Goes(m, "refused")) \/ Goes(m, "checks")
  /\ UNCHANGED <<adapter, base, repo, notes, landed>>

(* git-local runs every command on a checkout of the branch; GitHub tells  *)
(* of checks that may also be pending, or none.                            *)
CheckFault(m) ==
  /\ merger[m].at = "checks"
  /\ merger' = [merger EXCEPT ![m].seen = Tip(m),
       ![m].at = IF adapter = "github" THEN "target" ELSE "merge"]
  /\ UNCHANGED <<adapter, base, repo, notes, landed>>

Check(m) ==
  /\ merger[m].at = "checks"
  /\ \/ /\ Tip(m) \cap Broken = {}
        /\ merger' = [merger EXCEPT ![m].seen = Tip(m),
             ![m].at = IF adapter = "github" THEN "target" ELSE "merge"]
     \/ /\ Tip(m) \cap Broken # {} \/ adapter = "github"
        /\ Goes(m, "refused")
  /\ UNCHANGED <<adapter, base, repo, notes, landed>>

(* git-local: a merge commit on the base as it was read, in a worktree of  *)
(* its own; it may conflict.                                               *)
MergeInWorktree(m) ==
  /\ merger[m].at = "merge" /\ adapter = "git-local"
  /\ \/ Goes(m, "refused")
     \/ merger' = [merger EXCEPT ![m].new = MergeOf(m, merger[m].old), ![m].at = "update"]
  /\ UNCHANGED <<adapter, base, repo, notes, landed>>

(* The base is known to hold a merge of m's.                               *)
Lands(m, commits) ==
  landed' = [landed EXCEPT ![TaskOf[m]] =
    IF \E i \in DOMAIN commits : commits[i].run.hash = m THEN m ELSE @]

(* git-local: update-ref moves the base from what was read, or not at all. *)
UpdateRefFault(m) ==
  /\ merger[m].at = "update"
  /\ base' = merger[m].new /\ Lands(m, base') /\ Goes(m, "ok")
  /\ UNCHANGED <<adapter, repo, notes>>

UpdateRefReportFault(m) ==
  /\ merger[m].at = "update"
  /\ base' = IF base = merger[m].old THEN merger[m].new ELSE MergeOf(m, base)
  /\ Lands(m, base')
  /\ Goes(m, IF base = merger[m].old THEN "ok" ELSE "refused")
  /\ UNCHANGED <<adapter, repo, notes>>

UpdateRef(m) ==
  /\ merger[m].at = "update"
  /\ IF base = merger[m].old
       THEN base' = merger[m].new /\ Lands(m, base') /\ Goes(m, "ok")
       ELSE Goes(m, "refused") /\ UNCHANGED <<base, landed>>
  /\ UNCHANGED <<adapter, repo, notes>>

(* GitHub: the branch the pull request is to be merged into.               *)
ReadTarget(m) ==
  /\ merger[m].at = "target"
  /\ \/ Goes(m, "refused")
     \/ TaskOf[m] \in target /\ Goes(m, "merge")
  /\ UNCHANGED <<adapter, base, repo, notes, landed>>

(* GitHub: whatever the pull request is by then is merged, or not; gh also *)
(* fails when the reply is lost, or a later step of its own, once GitHub   *)
(* has merged.                                                             *)
MergeOnForge(m) ==
  /\ merger[m].at = "merge" /\ adapter = "github"
  /\ \/ Goes(m, "failed") /\ UNCHANGED <<base, landed>>
     \/ /\ base' = IF TaskOf[m] \in target THEN MergeOf(m, base) ELSE base
        /\ Lands(m, base') /\ (Goes(m, "ok") \/ Goes(m, "failed"))
  /\ UNCHANGED <<adapter, repo, notes>>

Die(m) ==
  /\ merger[m].at \notin {"idle"} \cup Ended
  /\ Goes(m, "dead")
  /\ UNCHANGED <<adapter, base, repo, notes, landed>>

-----------------------------------------------------------------------------
(* People and agents.                                                      *)
Moves(t, places) ==
  /\ moves < MaxMoves /\ moves' = moves + 1
  /\ late' = late \cup {m \in Mergers : TaskOf[m] = t /\ merger[m].at \in places}

Push(t) ==
  /\ \E tip \in {branch[t] \cup {c} : c \in Changes} \cup {{c} : c \in Changes} :
       branch' = [branch EXCEPT ![t] = tip]
  /\ Moves(t, {"target", "merge"})
  /\ UNCHANGED <<adapter, base, out, target, merger, landed>>

Retarget(t) ==
  /\ adapter = "github" /\ target' = IF t \in target THEN target \ {t} ELSE target \cup {t}
  /\ Moves(t, {"merge"})
  /\ UNCHANGED <<adapter, base, branch, out, merger, landed>>

CommitToBase ==
  /\ moves < MaxMoves /\ moves' = moves + 1
  /\ \E c \in Changes : base' = Append(base, Commit({c}, NoRun))
  /\ UNCHANGED <<adapter, repo, merger, late, landed>>

CheckOut ==
  /\ adapter = "git-local"
  /\ moves < MaxMoves /\ moves' = moves + 1
  /\ out' = ~out
  /\ UNCHANGED <<adapter, base, branch, target, merger, late, landed>>

Next ==
  \/ \E m \in Mergers :
       \/ Begin(m) \/ ReadBase(m) \/ LookForCheckouts(m) \/ Check(m) \/ MergeInWorktree(m)
       \/ UpdateRef(m) \/ ReadTarget(m) \/ MergeOnForge(m) \/ Die(m)
  \/ \E t \in Tasks : Push(t) \/ Retarget(t)
  \/ CommitToBase \/ CheckOut

Spec == Init /\ [][Next]_vars

-----------------------------------------------------------------------------
(* yukl status: the newest trailer of the task that the base holds.        *)
FindRunHeadTrailerFault(commits, t) ==
  LET those == {i \in DOMAIN commits : commits[i].run # NoRun}
  IN IF those = {} THEN NoHash ELSE commits[CHOOSE i \in those : \A j \in those : j <= i].run.hash

FindRunHeadTrailer(commits, t) ==
  LET those == {i \in DOMAIN commits : commits[i].run.task = t}
  IN IF those = {} THEN NoHash ELSE commits[CHOOSE i \in those : \A j \in those : j <= i].run.hash
=============================================================================
