------------------------------ MODULE Schedule ------------------------------
(***************************************************************************)
(* yukl schedule (scripts/commands/schedule.js): schedulers that pack the  *)
(* tasks they are given into waves and drive each task, under its lock, by *)
(* a yukl run of its own.  The locks are the broker of module Locks, each  *)
(* acquired in one step.                                                   *)
(***************************************************************************)
EXTENDS Scopes, FiniteSets

CONSTANTS
  Schedulers, \* the processes, each run once
  Blocking,   \* those whose runner blocks, as spawnSync does
  Tasks,
  Intents,    \* the scopes an intent may have
  Orders,     \* the task lists a scheduler may be given, without duplicates
  Nobody,
  MaxKills    \* bound: schedulers killed

ASSUME ScheduleAssumption ==
  /\ Blocking \subseteq Schedulers /\ Nobody \notin Schedulers /\ MaxKills \in Nat
  /\ \A o \in Orders : o \in Seq(Tasks) /\ o # <<>> /\ IsInjective(o)
  /\ \A scope \in Intents :
       scope \subseteq Seq(Names \cup Wildcards \cup {AnyDepth, Dot, Slash})

VARIABLES
  intent,   \* the scope of each task's intent at the base
  at,       \* where each scheduler is
  waves,    \* the plan of each scheduler
  wave,     \* the wave it has reached
  drive,    \* what became of each of its tasks
  lock,     \* the scheduler whose process id each task's lock names
  worktree, \* the tasks whose worktree exists
  runs      \* the yukl run processes

vars == <<intent, at, waves, wave, drive, lock, worktree, runs>>
plan == <<intent, waves>>

Killed == {s \in Schedulers : at[s] = "killed"}
Runs   == [task: Tasks, by: Schedulers]

Init ==
  /\ intent \in [Tasks -> Intents \cup {NoScope}]
  /\ at = [s \in Schedulers |-> "idle"]
  /\ waves = [s \in Schedulers |-> <<>>]
  /\ wave = [s \in Schedulers |-> 0]
  /\ drive = [s \in Schedulers |-> [t \in Tasks |-> "none"]]
  /\ lock = [t \in Tasks |-> Nobody]
  /\ worktree = {}
  /\ runs = {}

-----------------------------------------------------------------------------
Wave(s)  == waves[s][wave[s]]
InWave(s) == ToSet(Wave(s))
Is(s, t, places) == drive[s][t] \in places

Over == {"ok", "failed", "threw"}

Drives(s, t, place) == drive' = [drive EXCEPT ![s][t] = place]

(* Promise.all starts with a wave every one of its tasks.                  *)
Enter(s, n, plans) ==
  /\ wave' = [wave EXCEPT ![s] = n]
  /\ drive' = [drive EXCEPT ![s] =
       [t \in Tasks |-> IF t \in ToSet(plans[n]) THEN "waiting" ELSE @[t]]]

Start(s) ==
  /\ at[s] = "idle"
  /\ \E order \in Orders :
       /\ waves' = [waves EXCEPT ![s] = PlanWaves(order, intent)]
       /\ Enter(s, 1, waves'[s])
  /\ at' = [at EXCEPT ![s] = "driving"]
  /\ UNCHANGED <<intent, lock, worktree, runs>>

(* driveTask runs to its first await before the next task's begins, and to *)
(* the end of the run when the runner blocks.                              *)
Turn(s, t) ==
  /\ at[s] = "driving" /\ t \in InWave(s)
  /\ \A i, j \in DOMAIN Wave(s) :
       i < j /\ Wave(s)[j] = t => ~Is(s, Wave(s)[i], {"waiting", "locked"})
  /\ s \in Blocking => \A u \in InWave(s) : ~Is(s, u, {"running"})

AcquireFault(s, t) ==
  /\ Turn(s, t) /\ Is(s, t, {"waiting"})
  /\ lock' = [lock EXCEPT ![t] = s] /\ Drives(s, t, "locked")
  /\ UNCHANGED <<plan, at, wave, worktree, runs>>

AcquireWaitsFault(s, t) ==
  /\ Turn(s, t) /\ Is(s, t, {"waiting"}) /\ lock[t] \in {Nobody} \cup Killed
  /\ lock' = [lock EXCEPT ![t] = s] /\ Drives(s, t, "locked")
  /\ UNCHANGED <<plan, at, wave, worktree, runs>>

Acquire(s, t) ==
  /\ Turn(s, t) /\ Is(s, t, {"waiting"})
  /\ IF lock[t] \in {Nobody} \cup Killed
       THEN lock' = [lock EXCEPT ![t] = s] /\ Drives(s, t, "locked")
       ELSE Drives(s, t, "failed") /\ UNCHANGED lock
  /\ UNCHANGED <<plan, at, wave, worktree, runs>>

(* A lock that names another process is not this one's to release.         *)
Release(s, t) == lock' = [lock EXCEPT ![t] = IF @ = s THEN Nobody ELSE @]

(* The worktree, made or reused, and the run that is begun in it.          *)
PrepareFault(s, t) ==
  /\ Turn(s, t) /\ Is(s, t, {"locked"})
  /\ \/ /\ worktree' = worktree \cup {t}
        /\ runs' = runs \cup {[task |-> t, by |-> s]}
        /\ Drives(s, t, "running")
        /\ UNCHANGED lock
     \/ /\ t \notin worktree
        /\ \E outcome \in {"failed", "threw"} : Drives(s, t, outcome)
        /\ UNCHANGED <<worktree, runs, lock>>
  /\ UNCHANGED <<plan, at, wave>>

Prepare(s, t) ==
  /\ Turn(s, t) /\ Is(s, t, {"locked"})
  /\ \/ /\ worktree' = worktree \cup {t}
        /\ runs' = runs \cup {[task |-> t, by |-> s]}
        /\ Drives(s, t, "running")
        /\ UNCHANGED lock
     \/ /\ t \notin worktree
        /\ \E outcome \in {"failed", "threw"} : Drives(s, t, outcome)
        /\ Release(s, t)
        /\ UNCHANGED <<worktree, runs>>
  /\ UNCHANGED <<plan, at, wave>>

(* A run ends, its exit status zero or not; its scheduler may be gone.     *)
End(r) ==
  /\ r \in runs
  /\ runs' = runs \ {r}
  /\ IF r.by \in Killed
       THEN UNCHANGED drive
       ELSE \E outcome \in {"exit0", "exit1"} : Drives(r.by, r.task, outcome)
  /\ UNCHANGED <<plan, at, wave, lock, worktree>>

(* The rest of driveTask, when every driveTask has reached its await.      *)
Settle(s, t) ==
  /\ at[s] \in {"driving", "failed"} /\ t \in InWave(s)
  /\ Is(s, t, {"exit0", "exit1"})
  /\ \A u \in InWave(s) : ~Is(s, u, {"waiting", "locked"})
  /\ s \in Blocking => \A u \in InWave(s) : ~Is(s, u, {"running"})
  /\ Drives(s, t, IF Is(s, t, {"exit0"}) THEN "ok" ELSE "failed")
  /\ Release(s, t)
  /\ UNCHANGED <<plan, at, wave, worktree, runs>>

Planned(s) == UNION {ToSet(waves[s][n]) : n \in DOMAIN waves[s]}

NextWaveFault(s) ==
  /\ at[s] = "driving"
  /\ \A t \in InWave(s) : ~Is(s, t, {"waiting", "locked", "threw"})
  /\ wave[s] < Len(waves[s]) /\ Enter(s, wave[s] + 1, waves[s])
  /\ UNCHANGED <<plan, at, lock, worktree, runs>>

NextWave(s) ==
  /\ at[s] = "driving"
  /\ \A t \in InWave(s) : Is(s, t, {"ok", "failed"})
  /\ wave[s] < Len(waves[s]) /\ Enter(s, wave[s] + 1, waves[s])
  /\ UNCHANGED <<plan, at, lock, worktree, runs>>

Finish(s) ==
  /\ at[s] = "driving" /\ wave[s] = Len(waves[s])
  /\ \A t \in InWave(s) : Is(s, t, {"ok", "failed"})
  /\ at' = [at EXCEPT ![s] =
       IF \A t \in Planned(s) : Is(s, t, {"ok"}) THEN "exit0" ELSE "exit1"]
  /\ UNCHANGED <<plan, wave, drive, lock, worktree, runs>>

(* One throw rejects the wave, whatever its other tasks are still doing.   *)
Reject(s) ==
  /\ at[s] = "driving"
  /\ \A u \in InWave(s) : ~Is(s, u, {"waiting", "locked"})
  /\ \E t \in InWave(s) : Is(s, t, {"threw"})
  /\ at' = [at EXCEPT ![s] = "failed"]
  /\ UNCHANGED <<plan, wave, drive, lock, worktree, runs>>

(* A scheduler is killed, and the runs it spawned with it or not.          *)
Kill(s) ==
  /\ at[s] = "driving" /\ Cardinality(Killed) < MaxKills
  /\ at' = [at EXCEPT ![s] = "killed"]
  /\ runs' \in {runs, {r \in runs : r.by # s}}
  /\ UNCHANGED <<plan, wave, drive, lock, worktree>>

Step(s) ==
  \/ Start(s) \/ NextWave(s) \/ Finish(s) \/ Reject(s)
  \/ \E t \in Tasks : Acquire(s, t) \/ Prepare(s, t) \/ Settle(s, t)

Next ==
  \/ \E s \in Schedulers : Step(s) \/ Kill(s)
  \/ \E r \in Runs : End(r)

(* A scheduler that lives goes on, and a run ends.                         *)
Fairness ==
  /\ \A s \in Schedulers : WF_vars(Step(s))
  /\ \A r \in Runs : WF_vars(End(r))

Spec == Init /\ [][Next]_vars /\ Fairness
=============================================================================
