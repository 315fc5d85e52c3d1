------------------------- MODULE ScheduleProperties -------------------------
(***************************************************************************)
(* What yukl schedule promises, over the variables of Schedule.            *)
(***************************************************************************)
EXTENDS Schedule

CONSTANTS
  MaxDepth   \* bound: the segments of the paths and patterns compared

ASSUME MaxDepthAssumption == MaxDepth \in Nat

Paths    == BoundedSeq(Names, MaxDepth) \ {<<>>}
Patterns == BoundedSeq(Names \cup Wildcards \cup {AnyDepth, Dot, Slash}, MaxDepth)

(* Two patterns the scheduler takes for disjoint match no file in common   *)
(* (schedule.js scopesOverlap against yukl.js globToRegExp), whatever      *)
(* patterns the plan of a scheduler not yet begun is made from.            *)
OverlapIsSound ==
  (\A s \in Schedulers : at[s] = "idle") =>
    \A path \in Paths :
      LET matching == {p \in Patterns : MatchesGlob(path, p)}
      IN \A p, q \in matching : ScopesOverlap(p, q)

LivingRuns == {r \in runs : at[r.by] # "killed"}

Allows(t, path) == intent[t] = NoScope \/ \E p \in intent[t] : MatchesGlob(path, p)

(* At no time do two runs of one scheduler have a file both may write; a   *)
(* task of unknown scope runs alone (schedule.js planWaves and the loop    *)
(* over waves).                                                            *)
NoSharedFile ==
  \A r, q \in LivingRuns :
    r # q /\ r.by = q.by =>
      ~\E path \in Paths : Allows(r.task, path) /\ Allows(q.task, path)

(* Schedulers that live never drive one task at the same time, in whatever *)
(* order they reach it and whichever of them died before (schedule.js      *)
(* driveTask under acquireLock).                                           *)
OneLivingDriver ==
  \A r, q \in LivingRuns : r.task = q.task => r = q

(* A scheduler with nothing left to do holds no lock, whatever failed or   *)
(* threw on the way (schedule.js driveTask, the finally block).            *)
LocksReleased ==
  \A s \in Schedulers :
    /\ at[s] \in {"exit0", "exit1", "failed"}
    /\ \A t \in Tasks : drive[s][t] \in Over \cup {"none"}
    => \A t \in Tasks : lock[t] # s

(* Schedulers end, whatever they hold and want of each other's tasks and   *)
(* whoever was killed holding a lock: no order of waves and locks makes    *)
(* them wait for one another (schedule.js run).                            *)
EverySchedulerEnds ==
  \A s \in Schedulers : <>(at[s] \in {"exit0", "exit1", "failed", "killed"})

-----------------------------------------------------------------------------
(* What the source says of a task and a killed scheduler refutes, in a run *)
(* of its own (see the README).                                            *)

(* "a second scheduler [...] cannot drive the same task twice"             *)
(* (schedule.js): one task has one run.                                    *)
OneRunPerTask ==
  \A r, q \in runs : r.task = q.task => r = q
=============================================================================
