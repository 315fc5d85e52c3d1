--------------------------- MODULE ScheduleProofs ---------------------------
(***************************************************************************)
(* Proofs about Schedule, for any schedulers, tasks, task lists, intents   *)
(* and any number of kills: the lock of a task is held exactly while a     *)
(* scheduler that lives has the task in hand, so no two of them drive it   *)
(* at once and one that is done holds none; and about Scopes, for names,   *)
(* wildcards and patterns of any length: patterns taken for disjoint match *)
(* no path in common, so tasks of one wave share no file.                  *)
(***************************************************************************)
EXTENDS ScheduleProperties, WellFoundedInduction, TLAPS

InHand == {"locked", "running", "exit0", "exit1"}
Quiet  == {"none", "ok", "failed"}
Ways   == {"none", "waiting"} \cup InHand \cup Over
Places == {"idle", "driving", "failed", "killed", "exit0", "exit1"}

Types ==
  /\ at \in [Schedulers -> Places]
  /\ drive \in [Schedulers -> [Tasks -> Ways]]
  /\ lock \in [Tasks -> Schedulers \cup {Nobody}]
  /\ wave \in [Schedulers -> Nat]
  /\ DOMAIN waves = Schedulers /\ waves = [s \in Schedulers |-> waves[s]]
  /\ runs \subseteq Runs

(* A task is in hand exactly while its lock is the scheduler's own.        *)
Held ==
  \A s \in Schedulers, t \in Tasks :
    at[s] # "killed" => (Is(s, t, InHand) <=> lock[t] = s)

(* A run of a scheduler that lives is one it waits for.                    *)
Awaited ==
  \A r \in runs : at[r.by] # "killed" => drive[r.by][r.task] = "running"

(* Outside its present wave a scheduler has nothing under way.             *)
Elsewhere ==
  \A s \in Schedulers, t \in Tasks :
    /\ at[s] = "idle" => drive[s][t] = "none"
    /\ t \notin InWave(s) => Is(s, t, Quiet)

ScheduleInv == Types /\ Held /\ Awaited /\ Elsewhere

USE DEF plan

-----------------------------------------------------------------------------
(* What a step does to one task, to a wave and to a lock, point by point.  *)

LEMMA DrivesMoves ==
  ASSUME Types, NEW s \in Schedulers, NEW t \in Tasks, NEW way \in Ways, Drives(s, t, way)
  PROVE  /\ drive' \in [Schedulers -> [Tasks -> Ways]]
         /\ drive'[s][t] = way
         /\ \A u \in Tasks \ {t} : drive'[s][u] = drive[s][u]
         /\ \A z \in Schedulers \ {s} : drive'[z] = drive[z]
BY DEF Types, Drives

LEMMA ReleaseMoves ==
  ASSUME Types, NEW s \in Schedulers, NEW t \in Tasks, Release(s, t)
  PROVE  /\ lock' \in [Tasks -> Schedulers \cup {Nobody}]
         /\ lock'[t] # s
         /\ \A z \in Schedulers \ {s} : lock'[t] = z <=> lock[t] = z
         /\ \A u \in Tasks \ {t} : lock'[u] = lock[u]
BY ScheduleAssumption DEF Types, Release

LEMMA EnterMoves ==
  ASSUME Types, NEW s \in Schedulers, NEW n \in Nat, NEW plans, Enter(s, n, plans)
  PROVE  /\ drive' \in [Schedulers -> [Tasks -> Ways]]
         /\ wave' \in [Schedulers -> Nat] /\ wave'[s] = n
         /\ \A t \in Tasks : t \in ToSet(plans[n]) => drive'[s][t] = "waiting"
         /\ \A t \in Tasks : t \notin ToSet(plans[n]) => drive'[s][t] = drive[s][t]
         /\ \A z \in Schedulers \ {s} : drive'[z] = drive[z] /\ wave'[z] = wave[z]
<1> DEFINE entered == [t \in Tasks |-> IF t \in ToSet(plans[n]) THEN "waiting" ELSE drive[s][t]]
<1>1. drive' = [drive EXCEPT ![s] = entered]
  BY DEF Enter
<1>2. entered \in [Tasks -> Ways]
  BY DEF Types, Ways
<1>3. /\ \A t \in Tasks : t \in ToSet(plans[n]) => entered[t] = "waiting"
      /\ \A t \in Tasks : t \notin ToSet(plans[n]) => entered[t] = drive[s][t]
  OBVIOUS
<1> HIDE DEF entered
<1>4. drive'[s] = entered
  BY <1>1 DEF Types
<1>5. QED
  BY <1>1, <1>2, <1>3, <1>4 DEF Types, Enter

-----------------------------------------------------------------------------
LEMMA ScheduleInit == Init => ScheduleInv
<1> SUFFICES ASSUME Init PROVE ScheduleInv
  OBVIOUS
<1>1. Types
  BY DEF Init, Types, Ways, Places
<1>2. Held
  BY ScheduleAssumption DEF Init, Held, Is, InHand
<1>3. Awaited /\ Elsewhere
  BY DEF Init, Awaited, Elsewhere, Is, Quiet
<1>4. QED
  BY <1>1, <1>2, <1>3 DEF ScheduleInv

(* A step that puts a task from a way that is not quiet on another.        *)
LEMMA ElsewhereKept ==
  ASSUME Types, Elsewhere, NEW s \in Schedulers, NEW t \in Tasks, NEW way \in Ways,
         Drives(s, t, way), t \in InWave(s), at[s] # "idle",
         UNCHANGED <<at, waves, wave>>
  PROVE  Elsewhere'
<1>1. \A z \in Schedulers : InWave(z)' = InWave(z)
  BY DEF InWave, Wave
<1>2. \A z \in Schedulers, u \in Tasks : z # s \/ u # t => drive'[z][u] = drive[z][u]
  BY DrivesMoves
<1>3. QED
  BY <1>1, <1>2 DEF Elsewhere, Is

LEMMA AwaitedKept ==
  ASSUME Types, Awaited, NEW s \in Schedulers, NEW t \in Tasks, NEW way \in Ways,
         Drives(s, t, way), drive[s][t] # "running", UNCHANGED <<at, runs>>
  PROVE  Awaited'
<1> SUFFICES ASSUME NEW r \in runs, at[r.by] # "killed"
             PROVE  drive'[r.by][r.task] = "running"
  BY DEF Awaited
<1>1. r.by \in Schedulers /\ r.task \in Tasks /\ drive[r.by][r.task] = "running"
  BY DEF Types, Runs, Awaited
<1>2. CASE r.by # s
  BY <1>1, <1>2, DrivesMoves
<1>3. CASE r.by = s /\ r.task # t
  BY <1>1, <1>3, DrivesMoves
<1>4. QED
  BY <1>1, <1>2, <1>3

LEMMA StartStep ==
  ASSUME ScheduleInv, NEW s \in Schedulers, Start(s)
  PROVE  ScheduleInv'
<1> USE DEF ScheduleInv
<1>1. PICK order \in Orders :
        /\ waves' = [waves EXCEPT ![s] = PlanWaves(order, intent)]
        /\ Enter(s, 1, waves'[s])
  BY DEF Start
<1>2. /\ at[s] = "idle" /\ at' = [at EXCEPT ![s] = "driving"]
      /\ UNCHANGED <<lock, runs>>
  BY DEF Start
<1>3. \A t \in Tasks : drive[s][t] = "none"
  BY <1>2 DEF Elsewhere
<1> HIDE DEF ScheduleInv
<1>4. Types
  BY DEF ScheduleInv
<1>5. Types'
  <2>1. at' \in [Schedulers -> Places]
    BY <1>2, <1>4 DEF Types, Places
  <2>2. DOMAIN waves' = Schedulers /\ waves' = [z \in Schedulers |-> waves'[z]]
    BY <1>1, <1>4 DEF Types
  <2>3. QED
    BY <1>1, <1>2, <1>4, <2>1, <2>2, EnterMoves DEF Types
<1>6. at'[s] = "driving" /\ \A z \in Schedulers \ {s} : at'[z] = at[z]
  BY <1>2, <1>4 DEF Types
<1>7. \A t \in Tasks : drive'[s][t] \in {"none", "waiting"}
  BY <1>1, <1>3, <1>4, EnterMoves
<1>8. \A z \in Schedulers \ {s} : drive'[z] = drive[z] /\ InWave(z)' = InWave(z)
  <2>1. \A z \in Schedulers \ {s} : waves'[z] = waves[z]
    BY <1>1, <1>4 DEF Types
  <2>2. QED
    BY <1>1, <1>4, <2>1, EnterMoves DEF InWave, Wave
<1>9. Held'
  BY <1>2, <1>3, <1>6, <1>7, <1>8 DEF ScheduleInv, Held, Is, InHand
<1>10. Awaited'
  BY <1>2, <1>3, <1>6, <1>8 DEF ScheduleInv, Awaited, Types, Runs
<1>11. Elsewhere'
  <2>1. \A t \in Tasks : t \notin InWave(s)' => Is(s, t, Quiet)'
    <3>1. InWave(s)' = ToSet(waves'[s][1])
      BY <1>1, <1>4, EnterMoves DEF InWave, Wave
    <3>2. QED
      BY <1>1, <1>3, <1>4, <3>1, EnterMoves DEF Is, Quiet
  <2>2. QED
    BY <2>1, <1>6, <1>8 DEF ScheduleInv, Elsewhere, Is
<1>12. QED
  BY <1>5, <1>9, <1>10, <1>11 DEF ScheduleInv

LEMMA AcquireStep ==
  ASSUME ScheduleInv, NEW s \in Schedulers, NEW t \in Tasks, Acquire(s, t)
  PROVE  ScheduleInv'
<1>1. /\ Types /\ Held /\ Awaited /\ Elsewhere
      /\ at[s] = "driving" /\ t \in InWave(s) /\ drive[s][t] = "waiting"
      /\ UNCHANGED <<at, waves, wave, runs>>
  BY DEF ScheduleInv, Acquire, Turn, Is
<1>2. CASE /\ lock[t] \in {Nobody} \cup Killed
           /\ lock' = [lock EXCEPT ![t] = s] /\ Drives(s, t, "locked")
  <2>1. "locked" \in Ways /\ "locked" \in InHand
    BY DEF Ways, InHand
  <2>2. lock'[t] = s /\ \A u \in Tasks \ {t} : lock'[u] = lock[u]
    BY <1>1, <1>2 DEF Types
  <2>3. Types'
    BY <1>1, <1>2, <2>1, DrivesMoves DEF Types
  <2>4. Held'
    <3> SUFFICES ASSUME NEW z \in Schedulers, NEW u \in Tasks, at[z] # "killed"
                 PROVE  Is(z, u, InHand)' <=> lock'[u] = z
      BY <1>1 DEF Held
    <3>1. CASE z = s /\ u = t
      BY <1>1, <1>2, <2>1, <2>2, <3>1, DrivesMoves DEF Is
    <3>2. CASE z # s /\ u = t
      <4>1. lock[t] # z
        BY <1>2, <3>2, ScheduleAssumption DEF Killed
      <4>2. QED
        BY <1>1, <1>2, <2>1, <2>2, <3>2, <4>1, DrivesMoves DEF Held, Is
    <3>3. CASE u # t
      BY <1>1, <1>2, <2>1, <2>2, <3>3, DrivesMoves DEF Held, Is
    <3>4. QED
      BY <3>1, <3>2, <3>3
  <2>5. Awaited'
    BY <1>1, <1>2, <2>1, AwaitedKept
  <2>6. QED
    BY <1>1, <1>2, <2>1, <2>3, <2>4, <2>5, ElsewhereKept DEF ScheduleInv
<1>3. CASE Drives(s, t, "failed") /\ UNCHANGED lock
  <2>1. "failed" \in Ways /\ "failed" \notin InHand /\ "waiting" \notin InHand
    BY DEF Ways, InHand, Over
  <2>2. Types'
    BY <1>1, <1>3, <2>1, DrivesMoves DEF Types
  <2>3. Held'
    BY <1>1, <1>3, <2>1, DrivesMoves DEF Held, Is
  <2>4. Awaited'
    BY <1>1, <1>3, <2>1, AwaitedKept
  <2>5. QED
    BY <1>1, <1>3, <2>1, <2>2, <2>3, <2>4, ElsewhereKept DEF ScheduleInv
<1>4. QED
  BY <1>2, <1>3 DEF Acquire

LEMMA PrepareStep ==
  ASSUME ScheduleInv, NEW s \in Schedulers, NEW t \in Tasks, Prepare(s, t)
  PROVE  ScheduleInv'
<1>1. /\ Types /\ Held /\ Awaited /\ Elsewhere
      /\ at[s] = "driving" /\ t \in InWave(s) /\ drive[s][t] = "locked"
      /\ UNCHANGED <<at, waves, wave>>
  BY DEF ScheduleInv, Prepare, Turn, Is
<1>2. CASE runs' = runs \cup {[task |-> t, by |-> s]} /\ Drives(s, t, "running") /\ UNCHANGED lock
  <2>1. "running" \in Ways /\ "running" \in InHand /\ "locked" \in InHand
    BY DEF Ways, InHand
  <2>2. Types'
    BY <1>1, <1>2, <2>1, DrivesMoves DEF Types, Runs
  <2>3. Held'
    BY <1>1, <1>2, <2>1, DrivesMoves DEF Held, Is
  <2>4. Awaited'
    <3> SUFFICES ASSUME NEW r \in runs', at[r.by] # "killed"
                 PROVE  drive'[r.by][r.task] = "running"
      BY <1>1 DEF Awaited
    <3>1. CASE r = [task |-> t, by |-> s]
      BY <1>1, <1>2, <2>1, <3>1, DrivesMoves
    <3>2. CASE r \in runs
      <4>1. r.by \in Schedulers /\ r.task \in Tasks /\ drive[r.by][r.task] = "running"
        BY <1>1, <3>2 DEF Types, Runs, Awaited
      <4>2. r.by # s \/ r.task # t
        BY <1>1, <4>1
      <4>3. QED
        BY <1>1, <1>2, <2>1, <4>1, <4>2, DrivesMoves
    <3>3. QED
      BY <1>2, <3>1, <3>2
  <2>5. QED
    BY <1>1, <1>2, <2>1, <2>2, <2>3, <2>4, ElsewhereKept DEF ScheduleInv
<1>3. ASSUME NEW outcome \in {"failed", "threw"}, Drives(s, t, outcome), Release(s, t),
             UNCHANGED runs
      PROVE  ScheduleInv'
  <2>1. outcome \in Ways /\ outcome \notin InHand
    BY DEF Ways, InHand, Over
  <2>2. Types'
    BY <1>1, <1>3, <2>1, DrivesMoves, ReleaseMoves DEF Types
  <2>3. Held'
    BY <1>1, <1>3, <2>1, DrivesMoves, ReleaseMoves DEF Held, Is
  <2>4. Awaited'
    BY <1>1, <1>3, <2>1, AwaitedKept
  <2>5. QED
    BY <1>1, <1>3, <2>1, <2>2, <2>3, <2>4, ElsewhereKept DEF ScheduleInv
<1>4. QED
  BY <1>2, <1>3 DEF Prepare

(* The end of a run its scheduler waits for, and of one whose scheduler is *)
(* gone.                                                                   *)
LEMMA EndStep ==
  ASSUME ScheduleInv, NEW r \in Runs, End(r)
  PROVE  ScheduleInv'
<1>1. /\ Types /\ Held /\ Awaited /\ Elsewhere
      /\ r \in runs /\ runs' = runs \ {r} /\ r.by \in Schedulers /\ r.task \in Tasks
      /\ UNCHANGED <<at, waves, wave, lock>>
  BY DEF ScheduleInv, End, Runs
<1>2. CASE UNCHANGED drive
  <2>1. \A s \in Schedulers, t \in Tasks : InWave(s)' = InWave(s)
    BY <1>1 DEF InWave, Wave
  <2>2. QED
    BY <1>1, <1>2, <2>1 DEF ScheduleInv, Types, Held, Awaited, Elsewhere, Is
<1>3. ASSUME r.by \notin Killed, NEW outcome \in {"exit0", "exit1"},
             Drives(r.by, r.task, outcome)
      PROVE  ScheduleInv'
  <2>1. outcome \in Ways /\ outcome \in InHand /\ "running" \in InHand /\ "running" \notin Quiet
    BY DEF Ways, InHand, Quiet
  <2>2. drive[r.by][r.task] = "running" /\ at[r.by] # "killed"
    BY <1>1, <1>3 DEF Awaited, Killed
  <2>3. r.task \in InWave(r.by) /\ at[r.by] # "idle"
    BY <1>1, <2>1, <2>2 DEF Elsewhere, Is
  <2>4. Types'
    BY <1>1, <1>3, <2>1, DrivesMoves DEF Types
  <2>5. Held'
    BY <1>1, <1>3, <2>1, <2>2, DrivesMoves DEF Held, Is
  <2>6. Awaited'
    <3> SUFFICES ASSUME NEW q \in runs', at[q.by] # "killed"
                 PROVE  drive'[q.by][q.task] = "running"
      BY <1>1 DEF Awaited
    <3>1. q \in Runs /\ q # r
      BY <1>1 DEF Types
    <3>2. q.by \in Schedulers /\ q.task \in Tasks /\ (q.by # r.by \/ q.task # r.task)
      BY <3>1 DEF Runs
    <3>3. QED
      BY <1>1, <1>3, <2>1, <3>2, DrivesMoves DEF Awaited
  <2>7. QED
    BY <1>1, <1>3, <2>1, <2>3, <2>4, <2>5, <2>6, ElsewhereKept DEF ScheduleInv
<1>4. QED
  BY <1>2, <1>3 DEF End

LEMMA SettleStep ==
  ASSUME ScheduleInv, NEW s \in Schedulers, NEW t \in Tasks, Settle(s, t)
  PROVE  ScheduleInv'
<1>1. /\ Types /\ Held /\ Awaited /\ Elsewhere
      /\ at[s] \in {"driving", "failed"} /\ t \in InWave(s)
      /\ drive[s][t] \in {"exit0", "exit1"} /\ Release(s, t)
      /\ UNCHANGED <<at, waves, wave, runs>>
  BY DEF ScheduleInv, Settle, Is
<1>2. PICK way \in {"ok", "failed"} : Drives(s, t, way)
  BY DEF Settle
<1>3. way \in Ways /\ way \notin InHand
  BY DEF Ways, InHand, Over
<1>4. Types'
  BY <1>1, <1>2, <1>3, DrivesMoves, ReleaseMoves DEF Types
<1>5. Held'
  BY <1>1, <1>2, <1>3, DrivesMoves, ReleaseMoves DEF Held, Is
<1>6. Awaited'
  BY <1>1, <1>2, <1>3, AwaitedKept
<1>7. QED
  BY <1>1, <1>2, <1>3, <1>4, <1>5, <1>6, ElsewhereKept DEF ScheduleInv

(* A scheduler goes to its next wave with nothing in hand.                 *)
LEMMA NextWaveStep ==
  ASSUME ScheduleInv, NEW s \in Schedulers, NextWave(s)
  PROVE  ScheduleInv'
<1>1. /\ Types /\ Held /\ Awaited /\ Elsewhere
      /\ at[s] = "driving" /\ \A t \in Tasks : t \in InWave(s) => drive[s][t] \in {"ok", "failed"}
      /\ Enter(s, wave[s] + 1, waves[s]) /\ wave[s] + 1 \in Nat
      /\ UNCHANGED <<at, waves, lock, runs>>
  BY DEF ScheduleInv, NextWave, Is, Types
<1>2. \A t \in Tasks : drive[s][t] \in Quiet
  BY <1>1 DEF Elsewhere, Is, Quiet
<1>3. \A t \in Tasks : drive'[s][t] = drive[s][t] \/ drive'[s][t] = "waiting"
  BY <1>1, EnterMoves
<1>4. \A z \in Schedulers \ {s} : drive'[z] = drive[z] /\ InWave(z)' = InWave(z)
  BY <1>1, EnterMoves DEF InWave, Wave
<1>5. Types'
  BY <1>1, EnterMoves DEF Types
<1>6. Held'
  BY <1>1, <1>2, <1>3, <1>4 DEF Held, Is, InHand, Quiet
<1>7. Awaited'
  BY <1>1, <1>2, <1>4 DEF Awaited, Types, Runs, Quiet
<1>8. Elsewhere'
  <2>1. InWave(s)' = ToSet(waves[s][wave[s] + 1])
    BY <1>1, EnterMoves DEF InWave, Wave
  <2>2. \A t \in Tasks : t \notin InWave(s)' => Is(s, t, Quiet)'
    BY <1>1, <1>2, <2>1, EnterMoves DEF Is
  <2>3. QED
    BY <1>1, <1>4, <2>2 DEF Elsewhere, Is
<1>9. QED
  BY <1>5, <1>6, <1>7, <1>8 DEF ScheduleInv

(* A scheduler that ends, or is killed, leaves its tasks and locks alone.  *)
LEMMA LeaveStep ==
  ASSUME ScheduleInv, NEW s \in Schedulers, NEW place \in Places \ {"idle"}, at[s] # "killed",
         at' = [at EXCEPT ![s] = place], runs' \subseteq runs,
         UNCHANGED <<waves, wave, drive, lock>>
  PROVE  ScheduleInv'
<1>1. Types /\ Held /\ Awaited /\ Elsewhere
  BY DEF ScheduleInv
<1>2. \A z \in Schedulers : InWave(z)' = InWave(z)
  BY DEF InWave, Wave
<1>3. at'[s] = place /\ \A z \in Schedulers \ {s} : at'[z] = at[z]
  BY <1>1 DEF Types
<1>4. Types'
  BY <1>1 DEF Types
<1>5. Held'
  BY <1>1, <1>3 DEF Held, Is
<1>6. Awaited'
  BY <1>1, <1>3 DEF Awaited, Types, Runs
<1>7. Elsewhere'
  BY <1>1, <1>2, <1>3 DEF Elsewhere, Is
<1>8. QED
  BY <1>4, <1>5, <1>6, <1>7 DEF ScheduleInv

LEMMA ScheduleStep == ScheduleInv /\ [Next]_vars => ScheduleInv'
<1> SUFFICES ASSUME ScheduleInv, [Next]_vars PROVE ScheduleInv'
  OBVIOUS
<1>1. CASE UNCHANGED vars
  <2>1. \A z \in Schedulers : InWave(z)' = InWave(z)
    BY <1>1 DEF vars, InWave, Wave
  <2>2. QED
    BY <1>1, <2>1 DEF vars, ScheduleInv, Types, Held, Awaited, Elsewhere, Is
<1>2. ASSUME NEW s \in Schedulers, Finish(s) PROVE ScheduleInv'
  <2>1. PICK place \in {"exit0", "exit1"} : at' = [at EXCEPT ![s] = place]
    BY <1>2 DEF Finish
  <2>2. QED
    BY <1>2, <2>1, LeaveStep DEF Finish, Places
<1>3. ASSUME NEW s \in Schedulers, Reject(s) PROVE ScheduleInv'
  BY <1>3, LeaveStep DEF Reject, Places
<1>4. ASSUME NEW s \in Schedulers, Kill(s) PROVE ScheduleInv'
  BY <1>4, LeaveStep DEF Kill, Places
<1>5. QED
  BY <1>1, <1>2, <1>3, <1>4, StartStep, AcquireStep, PrepareStep, EndStep, SettleStep, NextWaveStep
  DEF Next, Step

-----------------------------------------------------------------------------
(* No two schedulers that live drive one task at once, and none drives it  *)
(* twice: the lock is held from before the worktree until after the run    *)
(* (schedule.js driveTask).                                                *)
THEOREM DrivenByOne == Spec => []OneLivingDriver
<1>1. ASSUME ScheduleInv, NEW r \in LivingRuns, NEW q \in LivingRuns, r.task = q.task
      PROVE  r = q
  <2>1. /\ r \in Runs /\ drive[r.by][r.task] = "running" /\ at[r.by] # "killed"
        /\ q \in Runs /\ drive[q.by][q.task] = "running" /\ at[q.by] # "killed"
    BY <1>1 DEF LivingRuns, ScheduleInv, Types, Awaited
  <2>2. lock[r.task] = r.by /\ lock[q.task] = q.by
    BY <1>1, <2>1 DEF ScheduleInv, Held, Is, InHand, Runs
  <2>3. QED
    BY <1>1, <2>1, <2>2 DEF Runs
<1>2. ScheduleInv => OneLivingDriver
  BY <1>1 DEF OneLivingDriver
<1>3. QED
  BY <1>2, ScheduleInit, ScheduleStep, PTL DEF Spec

(* Whatever fails or throws, a scheduler that is done has released every   *)
(* lock it took (schedule.js driveTask, the finally block).                *)
THEOREM DoneHoldsNone == Spec => []LocksReleased
<1>1. ScheduleInv => LocksReleased
  BY DEF ScheduleInv, Held, LocksReleased, Is, InHand, Over
<1>2. QED
  BY <1>1, ScheduleInit, ScheduleStep, PTL DEF Spec

-----------------------------------------------------------------------------
(* Any set of numbers has a smallest one, in place of induction.           *)
LEMMA Smallest ==
  ASSUME NEW T \in SUBSET Nat, T # {}
  PROVE  \E x \in T : \A y \in T : ~(y < x)
<1> DEFINE R == OpToRel(<, Nat)
<1>1. \A x, y \in Nat : <<y, x>> \in R <=> y < x
  BY DEF OpToRel
<1>2. IsWellFoundedOn(R, Nat)
  BY NatLessThanWellFounded
<1> HIDE DEF R
<1>3. PICK x \in T : \A y \in T : ~(<<y, x>> \in R)
  BY <1>2, WFMin, Zenon
<1>4. \A y \in T : ~(y < x)
  BY <1>1, <1>3
<1>5. QED
  BY <1>4

Segments == Names \cup Wildcards \cup {AnyDepth, Dot, Slash}

(* One more segment, the k-th from the end, before those that match from   *)
(* the positions in rest.                                                  *)
RestOf(rest, k, path, p) ==
  IF \A l \in 1..k : p[Len(p) + 1 - l] = AnyDepth THEN 1..Len(path)
  ELSE IF p[Len(p) + 1 - k] = AnyDepth
    THEN {j \in 1..Len(path) + 1 : \E i \in rest : j <= i}
    ELSE {j \in 1..Len(path) : SegmentMatches(path[j], p[Len(p) + 1 - k]) /\ j + 1 \in rest}

Rests(g, path, p, n) ==
  g = [k \in 0..n |-> IF k = 0 THEN {Len(path) + 1} ELSE RestOf(g[k - 1], k, path, p)]

LEMMA RestsExist ==
  ASSUME NEW path, NEW p, NEW n \in Nat
  PROVE  \E g : Rests(g, path, p, n)
<1> DEFINE B == {k \in Nat : ~ \E g : Rests(g, path, p, k)}
<1> SUFFICES ASSUME B # {} PROVE FALSE
  OBVIOUS
<1>1. PICK m \in B : \A y \in B : ~(y < m)
  <2>1. B \in SUBSET Nat
    OBVIOUS
  <2> HIDE DEF B
  <2>2. QED
    BY <2>1, Smallest
<1>2. m \in Nat /\ ~ \E g : Rests(g, path, p, m)
  OBVIOUS
<1>3. CASE m = 0
  <2>1. PICK g : g = [k \in 0..0 |-> {Len(path) + 1}]
    OBVIOUS
  <2>2. Rests(g, path, p, 0)
    BY <2>1 DEF Rests
  <2>3. QED
    BY <1>2, <1>3, <2>2
<1>4. CASE m # 0
  <2>1. PICK b : b = m - 1
    OBVIOUS
  <2>2. b \in Nat /\ b < m /\ m = b + 1
    BY <1>2, <1>4, <2>1
  <2>3. PICK g : Rests(g, path, p, b)
    BY <1>1, <2>2
  <2>4. PICK h : h = [k \in 0..m |-> IF k = m THEN RestOf(g[b], m, path, p) ELSE g[k]]
    OBVIOUS
  <2>5. ASSUME NEW k \in 0..m
        PROVE  h[k] = IF k = 0 THEN {Len(path) + 1} ELSE RestOf(h[k - 1], k, path, p)
    <3>1. CASE k = m
      <4>1. b \in 0..m /\ b # m /\ k # 0 /\ k - 1 = b
        BY <1>2, <2>2, <3>1
      <4>2. h[b] = g[b] /\ h[k] = RestOf(g[b], m, path, p)
        BY <2>4, <3>1, <4>1
      <4>3. QED
        BY <3>1, <4>1, <4>2
    <3>2. CASE k # m /\ k # 0
      <4>1. k \in 0..b /\ k - 1 \in 0..m /\ k - 1 # m
        BY <1>2, <2>2, <3>2
      <4>2. h[k] = g[k] /\ h[k - 1] = g[k - 1]
        BY <2>4, <3>2, <4>1
      <4>3. g[k] = RestOf(g[k - 1], k, path, p)
        BY <2>3, <3>2, <4>1 DEF Rests
      <4>4. QED
        BY <3>2, <4>2, <4>3
    <3>3. CASE k # m /\ k = 0
      <4>1. 0 \in 0..b
        BY <2>2
      <4>2. h[k] = g[0] /\ g[0] = {Len(path) + 1}
        BY <2>3, <2>4, <3>3, <4>1 DEF Rests
      <4>3. QED
        BY <3>3, <4>2
    <3>4. QED
      BY <3>1, <3>2, <3>3
  <2>6. h = [k \in 0..m |-> h[k]]
    BY <2>4
  <2>7. Rests(h, path, p, m)
    BY <2>5, <2>6 DEF Rests
  <2>8. QED
    BY <1>2, <2>7
<1>5. QED
  BY <1>3, <1>4

LEMMA MatchesByRests ==
  ASSUME NEW path, NEW p, Len(p) \in Nat
  PROVE  \E g : Rests(g, path, p, Len(p)) /\ (MatchesGlob(path, p) <=> 1 \in g[Len(p)])
<1> DEFINE from == CHOOSE g : Rests(g, path, p, Len(p))
<1>1. MatchesGlob(path, p) <=> 1 \in from[Len(p)]
  BY DEF MatchesGlob, Rests, RestOf
<1>2. Rests(from, path, p, Len(p))
  BY RestsExist
<1>3. QED
  BY <1>1, <1>2

(* A path that matches has for its first names the segments of the pattern *)
(* before any wildcard.                                                    *)
LEMMA MatchWalk ==
  ASSUME NEW path \in Seq(Names), NEW p \in Seq(Segments), MatchesGlob(path, p),
         NEW k \in 0..Len(p), \A i \in 1..k : ~IsWildcard(p[i])
  PROVE  k <= Len(path) /\ \A i \in 1..k : path[i] = p[i]
<1>1. Len(p) \in Nat /\ Len(path) \in Nat
  OBVIOUS
<1>2. PICK g : Rests(g, path, p, Len(p)) /\ 1 \in g[Len(p)]
  BY <1>1, MatchesByRests
<1> DEFINE Good(i) == i + 1 \in g[Len(p) - i] /\ i <= Len(path) /\ (i # 0 => path[i] = p[i])
           B == {i \in 0..k : ~Good(i)}
<1>3. B = {}
  <2> SUFFICES ASSUME B # {} PROVE FALSE
    OBVIOUS
  <2>1. PICK m \in B : \A y \in B : ~(y < m)
    <3>1. B \in SUBSET Nat
      OBVIOUS
    <3> HIDE DEF B
    <3>2. QED
      BY <3>1, Smallest
  <2>2. m \in 0..k /\ ~Good(m) /\ m \in Nat
    OBVIOUS
  <2>3. m # 0
    BY <1>1, <1>2, <2>2
  <2>4. m - 1 \in 0..k /\ m - 1 < m
    BY <2>2, <2>3
  <2>5. Good(m - 1)
    BY <2>1, <2>4
  <2>6. PICK n : n = Len(p) + 1 - m
    OBVIOUS
  <2>7. /\ n \in 1..Len(p) /\ n \in 0..Len(p) /\ n # 0
        /\ n - 1 = Len(p) - m /\ Len(p) - (m - 1) = n /\ Len(p) + 1 - n = m
    BY <1>1, <2>2, <2>3, <2>6
  <2>8. g[n] = RestOf(g[n - 1], n, path, p)
    BY <1>2, <2>7 DEF Rests
  <2>9. ~IsWildcard(p[m]) /\ p[m] # AnyDepth
    BY <2>2, <2>3 DEF IsWildcard
  <2>10. g[n] = {j \in 1..Len(path) : SegmentMatches(path[j], p[m]) /\ j + 1 \in g[n - 1]}
    <3>1. n \in 1..n /\ p[Len(p) + 1 - n] # AnyDepth
      BY <2>7, <2>9
    <3>2. ~ \A l \in 1..n : p[Len(p) + 1 - l] = AnyDepth
      BY <3>1
    <3>3. RestOf(g[n - 1], n, path, p)
            = {j \in 1..Len(path) :
                 SegmentMatches(path[j], p[Len(p) + 1 - n]) /\ j + 1 \in g[n - 1]}
      BY <3>1, <3>2 DEF RestOf
    <3>4. QED
      BY <2>7, <2>8, <3>3
  <2>11. m \in g[n]
    BY <2>2, <2>5, <2>7
  <2>12. m <= Len(path) /\ SegmentMatches(path[m], p[m]) /\ m + 1 \in g[n - 1]
    BY <2>10, <2>11
  <2>13. path[m] = p[m]
    BY <2>9, <2>12 DEF SegmentMatches, IsWildcard
  <2>14. QED
    BY <2>2, <2>7, <2>12, <2>13
<1>4. \A i \in 0..k : Good(i)
  BY <1>3
<1> HIDE DEF Good, B
<1>5. k <= Len(path)
  BY <1>4 DEF Good
<1>6. \A i \in 1..k : path[i] = p[i]
  BY <1>4 DEF Good
<1>7. QED
  BY <1>5, <1>6

(* What ScopePrefix makes of a pattern is its segments up to some place    *)
(* before any wildcard, but for a leading dot.                             *)
LEMMA SlashCut ==
  ASSUME NEW S, NEW p \in Seq(S)
  PROVE  \E n \in 0..Len(p) : WithoutSlash(p) = SubSeq(p, 1, n)
<1> DEFINE Rest(n) == \A k \in (n + 1)..Len(p) : p[k] = Slash
           B == {n \in 0..Len(p) : Rest(n)}
<1>1. Len(p) \in B
  <2>1. Len(p) \in 0..Len(p)
    OBVIOUS
  <2>2. Rest(Len(p))
    OBVIOUS
  <2>3. QED
    BY <2>1, <2>2
<1>2. PICK n \in B : \A y \in B : ~(y < n)
  <2>1. B \in SUBSET Nat
    OBVIOUS
  <2> HIDE DEF B
  <2>2. QED
    BY <1>1, <2>1, Smallest
<1>3. n \in 0..Len(p) /\ Rest(n)
  OBVIOUS
<1>4. n = 0 \/ p[n] # Slash
  <2> SUFFICES ASSUME n # 0, p[n] = Slash PROVE FALSE
    OBVIOUS
  <2>1. n - 1 \in 0..Len(p) /\ n - 1 < n
    BY <1>3
  <2>2. Rest(n - 1)
    <3> SUFFICES ASSUME NEW k \in (n - 1 + 1)..Len(p) PROVE p[k] = Slash
      OBVIOUS
    <3>1. k = n \/ k \in (n + 1)..Len(p)
      BY <1>3
    <3>2. QED
      BY <1>3, <3>1
  <2>3. n - 1 \in B
    BY <2>1, <2>2
  <2>4. QED
    BY <1>2, <2>1, <2>3
<1>5. \E m \in 0..Len(p) : (m = 0 \/ p[m] # Slash) /\ \A k \in (m + 1)..Len(p) : p[k] = Slash
  BY <1>3, <1>4
<1>6. QED
  BY <1>5 DEF WithoutSlash

LEMMA WildcardCut ==
  ASSUME NEW S, NEW p \in Seq(S)
  PROVE  \E n \in 0..Len(p) : /\ UpToWildcard(p) = SubSeq(p, 1, n)
                              /\ \A k \in 1..n : ~IsWildcard(p[k])
<1> DEFINE B == {n \in 0..Len(p) : n = Len(p) \/ IsWildcard(p[n + 1])}
<1>1. Len(p) \in B
  OBVIOUS
<1>2. PICK n \in B : \A y \in B : ~(y < n)
  <2>1. B \in SUBSET Nat
    OBVIOUS
  <2> HIDE DEF B
  <2>2. QED
    BY <1>1, <2>1, Smallest
<1>3. n \in 0..Len(p) /\ (n = Len(p) \/ IsWildcard(p[n + 1]))
  OBVIOUS
<1>4. \A k \in 1..n : ~IsWildcard(p[k])
  <2> SUFFICES ASSUME NEW k \in 1..n, IsWildcard(p[k]) PROVE FALSE
    OBVIOUS
  <2>1. k - 1 \in 0..Len(p) /\ k - 1 < n /\ (k - 1) + 1 = k
    BY <1>3
  <2>2. k - 1 \in B
    BY <2>1
  <2>3. QED
    BY <1>2, <2>1, <2>2
<1>5. \E m \in 0..Len(p) : /\ \A k \in 1..m : ~IsWildcard(p[k])
                           /\ m = Len(p) \/ IsWildcard(p[m + 1])
  BY <1>3, <1>4
<1>6. QED
  BY <1>5 DEF UpToWildcard

(* Every path a pattern matches lies under the pattern's prefix.           *)
LEMMA UnderItsPrefix ==
  ASSUME NEW path \in Seq(Names), NEW p \in Seq(Segments), MatchesGlob(path, p)
  PROVE  \E k \in 0..Len(path) : ScopePrefix(p) = [i \in 1..k |-> path[i]]
<1>1. WithoutDot(p) = p
  <2> SUFFICES ASSUME Len(p) > 1, p[1] = Dot PROVE FALSE
    BY DEF WithoutDot
  <2>1. 1 \in 0..Len(p) /\ 1 \in 1..1
    OBVIOUS
  <2>2. Dot \notin Wildcards /\ Dot # AnyDepth /\ Dot \notin Names
    BY ScopesAssumption DEF Dot, AnyDepth
  <2>3. \A i \in 1..1 : ~IsWildcard(p[i])
    BY <2>2 DEF IsWildcard
  <2>4. 1 <= Len(path) /\ path[1] = p[1]
    BY <2>1, <2>3, MatchWalk
  <2>5. QED
    BY <2>2, <2>4
<1>2. PICK n \in 0..Len(p) : WithoutSlash(p) = SubSeq(p, 1, n)
  BY SlashCut
<1>3. PICK q : q = SubSeq(p, 1, n)
  OBVIOUS
<1>4. q \in Seq(Segments) /\ Len(q) = n /\ \A i \in 1..n : q[i] = p[i]
  BY <1>2, <1>3
<1>5. PICK k \in 0..n : UpToWildcard(q) = SubSeq(q, 1, k) /\ \A i \in 1..k : ~IsWildcard(q[i])
  BY <1>4, WildcardCut
<1>6. k \in 0..Len(p) /\ \A i \in 1..k : ~IsWildcard(p[i])
  BY <1>2, <1>4, <1>5
<1>7. k <= Len(path) /\ \A i \in 1..k : path[i] = p[i]
  BY <1>6, MatchWalk
<1>8. ScopePrefix(p) = SubSeq(q, 1, k)
  BY <1>1, <1>2, <1>3, <1>5 DEF ScopePrefix
<1>9. SubSeq(q, 1, k) = [i \in 1..k |-> q[i]]
  BY <1>4, <1>5
<1>10. \A i \in 1..k : q[i] = path[i]
  BY <1>4, <1>5, <1>7
<1>11. [i \in 1..k |-> q[i]] = [i \in 1..k |-> path[i]]
  BY <1>10
<1>12. k \in 0..Len(path)
  BY <1>5, <1>7
<1>13. QED
  BY <1>8, <1>9, <1>11, <1>12

LEMMA PrefixesNest ==
  ASSUME NEW path \in Seq(Names), NEW k \in 0..Len(path), NEW l \in k..Len(path)
  PROVE  IsPrefix([i \in 1..k |-> path[i]], [i \in 1..l |-> path[i]])
<1>1. PICK a, b : a = [i \in 1..k |-> path[i]] /\ b = [i \in 1..l |-> path[i]]
  OBVIOUS
<1>2. a \in Seq(Names) /\ Len(a) = k /\ b \in Seq(Names) /\ Len(b) = l
  BY <1>1
<1>3. SubSeq(a, 1, k) = [i \in 1..k |-> path[i]]
  BY <1>1, <1>2
<1>4. SubSeq(b, 1, k) = [i \in 1..k |-> path[i]]
  BY <1>1, <1>2
<1>5. IsPrefix(a, b)
  BY <1>2, <1>3, <1>4 DEF IsPrefix
<1>6. QED
  BY <1>1, <1>5

LEMMA CommonFileOverlaps ==
  ASSUME NEW path \in Seq(Names), NEW p \in Seq(Segments), NEW q \in Seq(Segments),
         MatchesGlob(path, p), MatchesGlob(path, q)
  PROVE  ScopesOverlap(p, q)
<1>1. PICK k \in 0..Len(path) : ScopePrefix(p) = [i \in 1..k |-> path[i]]
  BY UnderItsPrefix
<1>2. PICK l \in 0..Len(path) : ScopePrefix(q) = [i \in 1..l |-> path[i]]
  BY UnderItsPrefix
<1>3. CASE l \in k..Len(path)
  BY <1>1, <1>2, <1>3, PrefixesNest DEF ScopesOverlap, Within
<1>4. CASE k \in l..Len(path)
  BY <1>1, <1>2, <1>4, PrefixesNest DEF ScopesOverlap, Within
<1>5. QED
  BY <1>3, <1>4

LEMMA PathsAreSeqs == Paths \subseteq Seq(Names) /\ Patterns \subseteq Seq(Segments)
<1>1. ASSUME NEW S, NEW f \in BoundedSeq(S, MaxDepth) PROVE f \in Seq(S)
  <2>1. PICK m \in 0..MaxDepth : f \in [1..m -> S]
    BY <1>1 DEF BoundedSeq, SeqOf
  <2>2. m \in Nat
    BY MaxDepthAssumption
  <2>3. QED
    BY <2>1, <2>2
<1>2. QED
  BY <1>1 DEF Paths, Patterns, Segments

(* Patterns taken for disjoint match no file in common, whatever they are  *)
(* (schedule.js scopesOverlap, scopePrefix against yukl.js globToRegExp).  *)
THEOREM OverlapIsConservative == Spec => []OverlapIsSound
<1>1. OverlapIsSound
  BY PathsAreSeqs, CommonFileOverlaps DEF OverlapIsSound
<1>2. QED
  BY <1>1, PTL

-----------------------------------------------------------------------------
(* A plan keeps apart what overlaps: by induction over the tasks placed.   *)
Apart(set, scope) == \A t, u \in set : t # u => ~TasksOverlap(scope[t], scope[u])

PlanKeepsApart(plans, scope) ==
  plans \in Seq(Seq(Tasks)) /\ \A k \in 1..Len(plans) : Apart(ToSet(plans[k]), scope)

LEMMA OverlapIsMutual ==
  ASSUME NEW a, NEW b, TasksOverlap(a, b)
  PROVE  TasksOverlap(b, a)
<1>1. \A p, q : ScopesOverlap(p, q) => ScopesOverlap(q, p)
  BY DEF ScopesOverlap
<1>2. QED
  BY <1>1 DEF TasksOverlap

LEMMA Appended ==
  ASSUME NEW S, NEW s \in Seq(S), NEW e \in S
  PROVE  /\ Append(s, e) \in Seq(S)
         /\ Len(Append(s, e)) = Len(s) + 1 /\ Append(s, e)[Len(s) + 1] = e
         /\ \A k \in 1..Len(s) : Append(s, e)[k] = s[k]
         /\ ToSet(Append(s, e)) = ToSet(s) \cup {e}
<1>1. PICK w : w = Append(s, e)
  OBVIOUS
<1>2. /\ w \in Seq(S) /\ Len(w) = Len(s) + 1 /\ w[Len(s) + 1] = e
      /\ \A i \in 1..Len(s) : w[i] = s[i]
  BY <1>1
<1>3. DOMAIN w = 1..Len(s) + 1 /\ DOMAIN s = 1..Len(s) /\ Len(s) \in Nat
  BY <1>2
<1>4. \A i \in 1..Len(s) + 1 : i \in 1..Len(s) \/ i = Len(s) + 1
  BY <1>3
<1>5. ToSet(w) = ToSet(s) \cup {e}
  BY <1>2, <1>3, <1>4 DEF ToSet
<1>6. QED
  BY <1>1, <1>2, <1>5

LEMMA PlaceKeepsApart ==
  ASSUME NEW scope, NEW plans, PlanKeepsApart(plans, scope), NEW t \in Tasks
  PROVE  PlaceTask(plans, t, scope) # <<>> /\ PlanKeepsApart(PlaceTask(plans, t, scope), scope)
<1> DEFINE fitting == {k \in DOMAIN plans : FitsWave(t, plans[k], scope)}
           new     == PlaceTask(plans, t, scope)
<1>1. plans \in Seq(Seq(Tasks)) /\ DOMAIN plans = 1..Len(plans) /\ Len(plans) \in Nat
  BY DEF PlanKeepsApart
<1>2. CASE fitting = {}
  <2>1. PICK w : w = <<t>>
    OBVIOUS
  <2>2. new = Append(plans, w)
    BY <1>2, <2>1 DEF PlaceTask
  <2>3. w \in Seq(Tasks) /\ ToSet(w) = {t}
    BY <2>1 DEF ToSet
  <2> HIDE DEF new
  <2>4. /\ new \in Seq(Seq(Tasks)) /\ Len(new) = Len(plans) + 1 /\ new[Len(plans) + 1] = w
        /\ \A k \in 1..Len(plans) : new[k] = plans[k]
    BY <1>1, <2>2, <2>3, Appended
  <2>5. Apart(ToSet(w), scope)
    BY <2>3 DEF Apart
  <2>6. \A k \in 1..Len(new) : Apart(ToSet(new[k]), scope)
    <3> TAKE k \in 1..Len(new)
    <3>1. k \in 1..Len(plans) \/ k = Len(plans) + 1
      BY <1>1, <2>4
    <3>2. QED
      BY <2>4, <2>5, <3>1 DEF PlanKeepsApart
  <2>7. new # <<>>
    BY <1>1, <2>4
  <2>8. QED
    BY <2>4, <2>6, <2>7 DEF PlanKeepsApart, new
<1>3. CASE fitting # {}
  <2>1. PICK c \in fitting : \A l \in fitting : ~(l < c)
    <3>1. fitting \in SUBSET Nat
      BY <1>1
    <3> HIDE DEF fitting
    <3>2. QED
      BY <1>3, <3>1, Smallest
  <2>2. \E k \in fitting : \A l \in fitting : k <= l
    <3>1. fitting \subseteq Nat
      BY <1>1
    <3> HIDE DEF fitting
    <3>2. QED
      BY <2>1, <3>1
  <2>3. PICK m \in fitting : new = [plans EXCEPT ![m] = Append(@, t)]
    BY <1>3, <2>2 DEF PlaceTask
  <2>4. m \in 1..Len(plans) /\ FitsWave(t, plans[m], scope) /\ plans[m] \in Seq(Tasks)
    BY <1>1
  <2> HIDE DEF new, fitting
  <2>5. PICK w : w = Append(plans[m], t)
    OBVIOUS
  <2>6. w \in Seq(Tasks) /\ ToSet(w) = ToSet(plans[m]) \cup {t}
    BY <2>4, <2>5, Appended
  <2>7. /\ new \in Seq(Seq(Tasks)) /\ Len(new) = Len(plans) /\ new[m] = w
        /\ \A k \in 1..Len(plans) : k # m => new[k] = plans[k]
    BY <1>1, <2>3, <2>4, <2>5, <2>6
  <2>8. Apart(ToSet(w), scope)
    <3> SUFFICES ASSUME NEW a \in ToSet(w), NEW b \in ToSet(w), a # b
                 PROVE  ~TasksOverlap(scope[a], scope[b])
      BY DEF Apart
    <3>1. Apart(ToSet(plans[m]), scope)
      BY <2>4 DEF PlanKeepsApart
    <3>2. \A u \in ToSet(plans[m]) : ~TasksOverlap(scope[t], scope[u])
      BY <2>4 DEF FitsWave
    <3>3. QED
      BY <2>6, <3>1, <3>2, OverlapIsMutual DEF Apart
  <2>9. \A k \in 1..Len(new) : Apart(ToSet(new[k]), scope)
    BY <2>7, <2>8 DEF PlanKeepsApart
  <2>10. new # <<>>
    BY <1>1, <2>4, <2>7
  <2>11. QED
    BY <2>7, <2>9, <2>10 DEF PlanKeepsApart, new
<1>4. QED
  BY <1>2, <1>3

Plans(g, order, scope, n) ==
  g = [k \in 0..n |-> IF k = 0 THEN <<>> ELSE PlaceTask(g[k - 1], order[k], scope)]

LEMMA PlansExist ==
  ASSUME NEW order, NEW scope, NEW n \in Nat
  PROVE  \E g : Plans(g, order, scope, n)
<1> DEFINE B == {k \in Nat : ~ \E g : Plans(g, order, scope, k)}
<1> SUFFICES ASSUME B # {} PROVE FALSE
  OBVIOUS
<1>1. PICK m \in B : \A y \in B : ~(y < m)
  <2>1. B \in SUBSET Nat
    OBVIOUS
  <2> HIDE DEF B
  <2>2. QED
    BY <2>1, Smallest
<1>2. m \in Nat /\ ~ \E g : Plans(g, order, scope, m)
  OBVIOUS
<1>3. CASE m = 0
  <2>1. PICK g : g = [k \in 0..0 |-> <<>>]
    OBVIOUS
  <2>2. Plans(g, order, scope, 0)
    BY <2>1 DEF Plans
  <2>3. QED
    BY <1>2, <1>3, <2>2
<1>4. CASE m # 0
  <2>1. PICK b : b = m - 1
    OBVIOUS
  <2>2. b \in Nat /\ b < m /\ m = b + 1
    BY <1>2, <1>4, <2>1
  <2>3. PICK g : Plans(g, order, scope, b)
    BY <1>1, <2>2
  <2>4. PICK h : h = [k \in 0..m |-> IF k = m THEN PlaceTask(g[b], order[m], scope) ELSE g[k]]
    OBVIOUS
  <2>5. ASSUME NEW k \in 0..m
        PROVE  h[k] = IF k = 0 THEN <<>> ELSE PlaceTask(h[k - 1], order[k], scope)
    <3>1. CASE k = m
      <4>1. b \in 0..m /\ b # m /\ k # 0 /\ k - 1 = b
        BY <1>2, <2>2, <3>1
      <4>2. h[b] = g[b] /\ h[k] = PlaceTask(g[b], order[m], scope)
        BY <2>4, <3>1, <4>1
      <4>3. QED
        BY <3>1, <4>1, <4>2
    <3>2. CASE k # m /\ k # 0
      <4>1. k \in 0..b /\ k - 1 \in 0..m /\ k - 1 # m
        BY <1>2, <2>2, <3>2
      <4>2. h[k] = g[k] /\ h[k - 1] = g[k - 1]
        BY <2>4, <3>2, <4>1
      <4>3. g[k] = PlaceTask(g[k - 1], order[k], scope)
        BY <2>3, <3>2, <4>1 DEF Plans
      <4>4. QED
        BY <3>2, <4>2, <4>3
    <3>3. CASE k # m /\ k = 0
      <4>1. 0 \in 0..b
        BY <2>2
      <4>2. h[k] = g[0] /\ g[0] = <<>>
        BY <2>3, <2>4, <3>3, <4>1 DEF Plans
      <4>3. QED
        BY <3>3, <4>2
    <3>4. QED
      BY <3>1, <3>2, <3>3
  <2>6. h = [k \in 0..m |-> h[k]]
    BY <2>4
  <2>7. Plans(h, order, scope, m)
    BY <2>5, <2>6 DEF Plans
  <2>8. QED
    BY <1>2, <2>7
<1>5. QED
  BY <1>3, <1>4

LEMMA PlanWavesKeepsApart ==
  ASSUME NEW order \in Seq(Tasks), order # <<>>, NEW scope
  PROVE  PlanWaves(order, scope) # <<>> /\ PlanKeepsApart(PlanWaves(order, scope), scope)
<1>1. PICK n : n = Len(order) /\ n \in Nat /\ n # 0
  OBVIOUS
<1>2. PICK g : Plans(g, order, scope, n) /\ PlanWaves(order, scope) = g[n]
  <2> DEFINE planned == CHOOSE g : Plans(g, order, scope, Len(order))
  <2>1. PlanWaves(order, scope) = planned[Len(order)]
    BY DEF PlanWaves, Plans
  <2>2. Plans(planned, order, scope, Len(order))
    BY <1>1, PlansExist
  <2>3. QED
    BY <1>1, <2>1, <2>2
<1> DEFINE Good(k) == PlanKeepsApart(g[k], scope) /\ (k # 0 => g[k] # <<>>)
           B == {k \in 0..n : ~Good(k)}
<1>3. B = {}
  <2> SUFFICES ASSUME B # {} PROVE FALSE
    OBVIOUS
  <2>1. PICK m \in B : \A y \in B : ~(y < m)
    <3>1. B \in SUBSET Nat
      BY <1>1
    <3> HIDE DEF B
    <3>2. QED
      BY <3>1, Smallest
  <2>2. m \in 0..n /\ ~Good(m)
    OBVIOUS
  <2>3. m # 0
    <3>1. g[0] = <<>>
      BY <1>1, <1>2 DEF Plans
    <3>2. PlanKeepsApart(<<>>, scope)
      BY DEF PlanKeepsApart
    <3>3. QED
      BY <2>2, <3>1, <3>2
  <2>4. m - 1 \in 0..n /\ m - 1 < m /\ m \in 1..n
    BY <1>1, <2>2, <2>3
  <2>5. Good(m - 1)
    BY <2>1, <2>4
  <2>6. g[m] = PlaceTask(g[m - 1], order[m], scope)
    BY <1>2, <2>2, <2>3 DEF Plans
  <2>7. order[m] \in Tasks
    BY <1>1, <2>4
  <2>8. QED
    BY <2>2, <2>5, <2>6, <2>7, PlaceKeepsApart
<1>4. Good(n)
  BY <1>1, <1>3
<1>5. QED
  BY <1>1, <1>2, <1>4

-----------------------------------------------------------------------------
(* A scheduler that has begun is in a wave of a plan made from the intents.*)
Underway ==
  /\ intent \in [Tasks -> Intents \cup {NoScope}]
  /\ \A s \in Schedulers : at[s] # "idle" =>
       PlanKeepsApart(waves[s], intent) /\ wave[s] \in 1..Len(waves[s])

WaveInv == ScheduleInv /\ Underway

LEMMA WaveStep == WaveInv /\ [Next]_vars => WaveInv'
<1> SUFFICES ASSUME ScheduleInv, Underway, [Next]_vars PROVE Underway'
  BY ScheduleStep DEF WaveInv
<1>1. ScheduleInv' /\ Types /\ Types'
  BY ScheduleStep DEF ScheduleInv
<1>2. CASE UNCHANGED <<intent, waves, wave, at>>
  BY <1>2 DEF Underway
<1>3. ASSUME NEW s \in Schedulers, Start(s) PROVE Underway'
  <2>1. PICK order \in Orders :
          waves' = [waves EXCEPT ![s] = PlanWaves(order, intent)] /\ Enter(s, 1, waves'[s])
    BY <1>3 DEF Start
  <2>2. intent' = intent /\ at' = [at EXCEPT ![s] = "driving"]
    BY <1>3 DEF Start
  <2>3. PlanWaves(order, intent) # <<>> /\ PlanKeepsApart(PlanWaves(order, intent), intent)
    BY ScheduleAssumption, PlanWavesKeepsApart
  <2>4. waves'[s] = PlanWaves(order, intent) /\ \A z \in Schedulers \ {s} : waves'[z] = waves[z]
    BY <1>1, <2>1 DEF Types
  <2>5. wave'[s] = 1 /\ \A z \in Schedulers \ {s} : wave'[z] = wave[z] /\ at'[z] = at[z]
    BY <1>1, <2>1, <2>2, EnterMoves DEF Types
  <2>6. 1 \in 1..Len(waves'[s])
    BY <2>3, <2>4 DEF PlanKeepsApart
  <2>7. QED
    BY <2>2, <2>3, <2>4, <2>5, <2>6 DEF Underway
<1>4. ASSUME NEW s \in Schedulers, NextWave(s) PROVE Underway'
  <2>1. /\ at[s] = "driving" /\ wave[s] < Len(waves[s]) /\ Enter(s, wave[s] + 1, waves[s])
        /\ UNCHANGED <<intent, waves, at>>
    BY <1>4 DEF NextWave
  <2>2. wave[s] \in 1..Len(waves[s]) /\ Len(waves[s]) \in Nat /\ wave[s] + 1 \in Nat
    BY <1>1, <2>1 DEF Underway, PlanKeepsApart, Types
  <2>3. wave'[s] = wave[s] + 1 /\ \A z \in Schedulers \ {s} : wave'[z] = wave[z]
    BY <1>1, <2>1, <2>2, EnterMoves
  <2>4. QED
    BY <2>1, <2>2, <2>3 DEF Underway
<1>5. ASSUME NEW s \in Schedulers, Finish(s) \/ Reject(s) \/ Kill(s) PROVE Underway'
  <2>1. at[s] = "driving" /\ UNCHANGED <<intent, waves, wave>>
    BY <1>5 DEF Finish, Reject, Kill
  <2>2. \A z \in Schedulers \ {s} : at'[z] = at[z]
    BY <1>1, <1>5 DEF Finish, Reject, Kill, Types
  <2>3. QED
    BY <2>1, <2>2 DEF Underway
<1>6. ASSUME NEW s \in Schedulers, NEW t \in Tasks, Acquire(s, t) \/ Prepare(s, t) \/ Settle(s, t)
      PROVE  Underway'
  BY <1>2, <1>6 DEF Acquire, Prepare, Settle
<1>7. ASSUME NEW r \in Runs, End(r) PROVE Underway'
  BY <1>2, <1>7 DEF End
<1>8. CASE UNCHANGED vars
  BY <1>2, <1>8 DEF vars
<1>9. QED
  BY <1>3, <1>4, <1>5, <1>6, <1>7, <1>8 DEF Next, Step

(* No two runs of one scheduler at any one time have a file both may write *)
(* (schedule.js planWaves and the loop over waves).                        *)
THEOREM NoFileIsShared == Spec => []NoSharedFile
<1>1. Init => WaveInv
  <2> SUFFICES ASSUME Init PROVE Underway
    BY ScheduleInit DEF WaveInv
  <2>1. QED
    BY DEF Init, Underway
<1>2. WaveInv => NoSharedFile
  <2> SUFFICES ASSUME ScheduleInv, Underway, NEW r \in LivingRuns, NEW q \in LivingRuns,
                      r # q, r.by = q.by, NEW path \in Paths,
                      Allows(r.task, path), Allows(q.task, path)
               PROVE  FALSE
    BY DEF NoSharedFile, WaveInv
  <2>1. PICK s : s = r.by
    OBVIOUS
  <2>2. /\ r \in Runs /\ q \in Runs /\ s \in Schedulers /\ at[s] # "killed"
        /\ drive[s][r.task] = "running" /\ drive[s][q.task] = "running"
    BY <2>1 DEF LivingRuns, ScheduleInv, Types, Awaited, Runs
  <2>3. r.task \in Tasks /\ q.task \in Tasks /\ r.task # q.task
    BY <2>1, <2>2 DEF Runs
  <2>4. r.task \in InWave(s) /\ q.task \in InWave(s) /\ at[s] # "idle"
    BY <2>2, <2>3 DEF ScheduleInv, Elsewhere, Is, Quiet
  <2>5. Apart(InWave(s), intent)
    BY <2>2, <2>4 DEF Underway, PlanKeepsApart, InWave, Wave
  <2>6. ~TasksOverlap(intent[r.task], intent[q.task])
    BY <2>3, <2>4, <2>5 DEF Apart
  <2>7. intent[r.task] \in Intents /\ intent[q.task] \in Intents
    BY <2>3, <2>6 DEF Underway, TasksOverlap
  <2>8. PICK a \in intent[r.task], b \in intent[q.task] : MatchesGlob(path, a) /\ MatchesGlob(path, b)
    BY <2>6 DEF Allows, TasksOverlap
  <2>9. a \in Seq(Segments) /\ b \in Seq(Segments)
    BY <2>7, ScheduleAssumption DEF Segments
  <2>10. ScopesOverlap(a, b)
    BY <2>8, <2>9, PathsAreSeqs, CommonFileOverlaps
  <2>11. QED
    BY <2>6, <2>10 DEF TasksOverlap
<1>3. QED
  BY <1>1, <1>2, WaveStep, PTL DEF Spec
=============================================================================
