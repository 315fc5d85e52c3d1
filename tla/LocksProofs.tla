----------------------------- MODULE LocksProofs -----------------------------
(***************************************************************************)
(* Proofs about Locks, for any set of processes, any number of attempts    *)
(* and any number of deaths: while nothing undoes the reclaim guard, two   *)
(* processes never hold the lock together and a lock that is not stale is  *)
(* never taken from its owner; and nothing is left in the way, nor is      *)
(* everyone refused, whatever happens to the guard.                        *)
(***************************************************************************)
EXTENDS Locks, TLAPS

USE LockAssumption DEF files, mine, fate, vars

(* The three contents a lock or guard file can have are files.             *)
LEMMA FilesMade ==
  /\ NoFile \in Files
  /\ \A p \in Procs \cup {Ghost} : Created(p) \in Files /\ WrittenBy(p) \in Files
BY DEF Files, NoFile, Created, WrittenBy

(* An attempt is under way only while one is left: what keeps the counters *)
(* within MAX_ATTEMPTS.                                                    *)
Counting ==
  \A p \in Procs :
    pc[p] \notin {"refused", "dead"} =>
      /\ tries[p] < MaxTries
      /\ pc[p] \in {"guard", "guardInspect", "guardJudge", "guardRemove"} => guardTries[p] < MaxTries

Typed == TypeOK /\ Counting

LEMMA TypedInit == Init => Typed
<1> SUFFICES ASSUME Init PROVE Typed
  OBVIOUS
<1> USE FilesMade DEF Init, Typed, TypeOK, Counting, Places
<1>1. orphaned \in BOOLEAN /\ outdated \in BOOLEAN
  OBVIOUS
<1>2. Counting
  OBVIOUS
<1>3. lock \in Files /\ guard \in Files
  OBVIOUS
<1>4. pc \in [Procs -> Places] /\ seen \in [Procs -> Procs \cup {Ghost, NoOwner}]
      /\ met \in [Procs -> Procs \cup {Ghost, NoOwner}]
  OBVIOUS
<1>5. tries \in [Procs -> 0..MaxTries] /\ guardTries \in [Procs -> 0..MaxTries]
  OBVIOUS
<1>6. QED
  BY <1>1, <1>2, <1>3, <1>4, <1>5

(* Every step of locks.js keeps the counters and the types.                *)
LEMMA TypedStep == Typed /\ [Next]_vars => Typed'
<1> SUFFICES ASSUME Typed, [Next]_vars PROVE Typed'
  OBVIOUS
<1> USE FilesMade DEF Typed, TypeOK, Counting, Places, Goes,
              NextTry, NextGuardTry, Filled, AfterGuard
<1>1. ASSUME NEW p \in Procs, Begin(p) \/ Create(p) \/ Write(p) PROVE Typed'
  <2>1. CASE Begin(p)
    BY <2>1 DEF Begin
  <2>2. CASE Create(p)
    BY <2>2 DEF Create
  <2>3. CASE Write(p)
    BY <2>3 DEF Write
  <2>4. QED
    BY <1>1, <2>1, <2>2, <2>3
<1>2. ASSUME NEW p \in Procs, WriteFails(p) PROVE Typed'
  BY <1>2 DEF WriteFails, Writing
<1>3. ASSUME NEW p \in Procs, Inspect(p) PROVE Typed'
  <2>1. lock.owner \in Procs \cup {Ghost, NoOwner}
    BY DEF Files
  <2>2. TypeOK'
    BY <1>3, <2>1 DEF Inspect
  <2>3. Counting'
    BY <1>3 DEF Inspect
  <2>4. QED
    BY <2>2, <2>3
<1>3j. ASSUME NEW p \in Procs, Judge(p) PROVE Typed'
  BY <1>3j DEF Judge
<1>4. ASSUME NEW p \in Procs, CreateGuard(p) \/ WriteGuard(p) PROVE Typed'
  <2>1. CASE CreateGuard(p)
    BY <2>1 DEF CreateGuard
  <2>2. CASE WriteGuard(p)
    BY <2>2 DEF WriteGuard
  <2>3. QED
    BY <1>4, <2>1, <2>2
<1>5. ASSUME NEW p \in Procs, InspectGuard(p) PROVE Typed'
  <2>1. guard.owner \in Procs \cup {Ghost, NoOwner}
    BY DEF Files
  <2>2. TypeOK'
    BY <1>5, <2>1 DEF InspectGuard
  <2>3. Counting'
    BY <1>5 DEF InspectGuard
  <2>4. QED
    BY <2>2, <2>3
<1>5j. ASSUME NEW p \in Procs, JudgeGuard(p) PROVE Typed'
  BY <1>5j DEF JudgeGuard
<1>6. ASSUME NEW p \in Procs, RemoveGuard(p) PROVE Typed'
  BY <1>6 DEF RemoveGuard
<1>7. ASSUME NEW p \in Procs, InspectAgain(p) \/ Remove(p) PROVE Typed'
  BY <1>7 DEF InspectAgain, Remove
<1>8. ASSUME NEW p \in Procs, Recreate(p) \/ Rewrite(p) PROVE Typed'
  BY <1>8 DEF Recreate, Rewrite
<1>9. ASSUME NEW p \in Procs, InspectOwnGuard(p) \/ DropGuard(p) PROVE Typed'
  BY <1>9 DEF InspectOwnGuard, DropGuard
<1>10. ASSUME NEW p \in Procs, Release(p) PROVE Typed'
  BY <1>10 DEF Release, Finish, InspectOwn, Unlink
<1>11. ASSUME NEW p \in Procs, Die(p) PROVE Typed'
  BY <1>11 DEF Die
<1>11e. ASSUME NEW p \in Procs, Exit(p) PROVE Typed'
  BY <1>11e DEF Exit
<1>12. CASE ForceRelease
  BY <1>12 DEF ForceRelease
<1>13. CASE UNCHANGED vars
  BY <1>13
<1>14. QED
  BY <1>1, <1>2, <1>3, <1>3j, <1>4, <1>5, <1>5j, <1>6, <1>7, <1>8, <1>9, <1>10, <1>11,
     <1>11e, <1>12, <1>13 DEF Next, Acquire

(* Every variable stays in its type: places, owners and counters within    *)
(* MAX_ATTEMPTS, whatever the processes of locks.js do.                    *)
THEOREM TypesHold == Spec => []TypeOK
<1>1. Typed => TypeOK
  BY DEF Typed
<1>2. QED
  BY TypedInit, TypedStep, <1>1, PTL DEF Spec

-----------------------------------------------------------------------------
(* Why two processes never hold the lock: a guard belongs to one process,  *)
(* who is alive and is reclaiming, or to one whose write failed and whom   *)
(* nobody can tell dead, and who has read it will find its owner alive;    *)
(* so the lock found stale again under the guard is still there when it is *)
(* removed, and what a live process created stays.                         *)

(* Who was told that the lock is its own.                                  *)
Owns(p) ==
  \/ pc[p] \in {"held", "release", "unlink"}
  \/ pc[p] \in {"unguard", "dropGuard"} /\ p \in won

GuardIsLive ==
  guard # NoFile =>
    guard.owner \in Procs /\ (pc[guard.owner] \in Guarding \/ ~guard.written)

MetIsLive == \A p \in Procs : pc[p] = "guardJudge" => Alive(met[p])

GuardIsMine ==
  \A p \in Procs :
    /\ pc[p] = "guardWrite" => guard = Created(p)
    /\ pc[p] \in Guarding \ {"guardWrite"} => guard = WrittenBy(p)

GuardIsNeverStale == \A p \in Procs : pc[p] # "guardRemove"

StaleStaysStale ==
  \A p \in Procs : pc[p] = "remove" => lock = WrittenBy(seen[p]) /\ ~Alive(seen[p])

CreatedIsMine ==
  \A p \in Procs : pc[p] \in {"write", "rewrite"} => lock = Created(p)

OwnedIsMine == \A p \in Procs : Owns(p) => lock = WrittenBy(p)

(* Only who owns the lock, owned it or died has ever won it.               *)
WonIsOwned ==
  \A p \in won : pc[p] \in {"held", "release", "unlink", "unguard", "dropGuard", "done", "dead"}

Sound ==
  /\ GuardIsLive /\ MetIsLive /\ GuardIsMine /\ GuardIsNeverStale
  /\ StaleStaysStale /\ CreatedIsMine /\ OwnedIsMine

LockInv == Typed /\ WonIsOwned /\ (GuardHeld => Sound)

LEMMA LockInit == Init => LockInv
<1> SUFFICES ASSUME Init PROVE LockInv
  OBVIOUS
<1>1. \A p \in Procs : pc[p] = "idle"
  BY DEF Init
<1>2. won = {} /\ orphaned = (guard # NoFile)
  BY DEF Init
<1>3. WonIsOwned
  BY <1>2 DEF WonIsOwned
<1>4. ~orphaned => Sound
  BY <1>1, <1>2 DEF Sound, GuardIsLive, MetIsLive, GuardIsMine, GuardIsNeverStale,
     StaleStaysStale, CreatedIsMine, OwnedIsMine, Owns, Guarding
<1>5. QED
  BY TypedInit, <1>3, <1>4 DEF LockInv, GuardHeld

(* Only a live process or nobody becomes alive: who is dead stays dead.    *)
LEMMA DeadStaysDead ==
  ASSUME Typed, [Next]_vars, NEW p PROVE ~Alive(p) => ~Alive(p)'
<1> SUFFICES ASSUME ~Alive(p), p \in Procs PROVE pc'[p] = "dead"
  BY DEF Alive
<1>1. pc[p] = "dead" /\ pc \in [Procs -> Places]
  BY DEF Alive, Typed, TypeOK
<1> USE <1>1 DEF Goes, NextTry, NextGuardTry, AfterGuard
<1>2. ASSUME NEW q \in Procs, Acquire(q) PROVE pc'[p] = "dead"
  BY <1>2 DEF Acquire, Begin, Create, Write, WriteFails, Writing, Inspect, Judge,
     CreateGuard, WriteGuard, InspectGuard, JudgeGuard, RemoveGuard, InspectAgain, Remove,
     Recreate, Rewrite, InspectOwnGuard, DropGuard
<1>3. ASSUME NEW q \in Procs, Release(q) \/ Die(q) \/ Exit(q) PROVE pc'[p] = "dead"
  BY <1>3 DEF Release, Finish, InspectOwn, Unlink, Die, Exit
<1>4. QED
  BY <1>2, <1>3 DEF Next, ForceRelease

(* Who has won the lock goes on to hold it and give it back, or dies.      *)
LEMMA WonStep == Typed /\ WonIsOwned /\ [Next]_vars => WonIsOwned'
<1> SUFFICES ASSUME Typed, WonIsOwned, [Next]_vars PROVE WonIsOwned'
  OBVIOUS
<1> USE DEF Typed, TypeOK, WonIsOwned, Goes, NextTry, NextGuardTry, AfterGuard
<1>1. ASSUME NEW p \in Procs, Acquire(p) PROVE WonIsOwned'
  BY <1>1 DEF Acquire, Begin, Create, Write, WriteFails, Writing, Inspect, Judge,
     CreateGuard, WriteGuard, InspectGuard, JudgeGuard, RemoveGuard, InspectAgain, Remove,
     Recreate, Rewrite, InspectOwnGuard, DropGuard
<1>2. ASSUME NEW p \in Procs, Release(p) \/ Die(p) \/ Exit(p) PROVE WonIsOwned'
  BY <1>2 DEF Release, Finish, InspectOwn, Unlink, Die, Exit
<1>3. QED
  BY <1>1, <1>2 DEF Next, ForceRelease

(* While nothing has undone the guard, every step keeps it with one        *)
(* reclaimer and the lock with who created it.                             *)
LEMMA SoundStep ==
  ASSUME Typed, WonIsOwned, Sound, [Next]_vars, GuardHeld'
  PROVE  Sound'
<1> USE DEF Typed, TypeOK, WonIsOwned, Sound, GuardHeld, GuardIsLive, MetIsLive, GuardIsMine,
            GuardIsNeverStale, StaleStaysStale, CreatedIsMine, OwnedIsMine,
            Owns, Guarding, Alive, Goes, NextTry, NextGuardTry, Filled,
            AfterGuard, NoFile, Created, WrittenBy
<1>1. ASSUME NEW p \in Procs, Begin(p) PROVE Sound'
  BY <1>1 DEF Begin
<1>2. ASSUME NEW p \in Procs, Create(p) PROVE Sound'
  BY <1>2 DEF Create
<1>3. ASSUME NEW p \in Procs, Write(p) PROVE Sound'
  <2>1. lock = Created(p) /\ lock' = WrittenBy(p)
    BY <1>3 DEF Write
  <2>2. QED
    BY <1>3, <2>1 DEF Write
<1>4. ASSUME NEW p \in Procs, WriteFails(p) PROVE Sound'
  <2>1. GuardIsLive'
    BY <1>4 DEF WriteFails, Writing
  <2>2. MetIsLive'
    BY <1>4 DEF WriteFails, Writing
  <2>3. (GuardIsMine /\ GuardIsNeverStale)'
    BY <1>4 DEF WriteFails, Writing
  <2>4. (StaleStaysStale /\ CreatedIsMine /\ OwnedIsMine)'
    BY <1>4 DEF WriteFails, Writing
  <2>5. QED
    BY <2>1, <2>2, <2>3, <2>4
<1>5. ASSUME NEW p \in Procs, Inspect(p) PROVE Sound'
  BY <1>5 DEF Inspect
<1>5j. ASSUME NEW p \in Procs, Judge(p) PROVE Sound'
  BY <1>5j DEF Judge
<1>6. ASSUME NEW p \in Procs, CreateGuard(p) PROVE Sound'
  BY <1>6 DEF CreateGuard
<1>7. ASSUME NEW p \in Procs, WriteGuard(p) PROVE Sound'
  <2>1. guard = Created(p) /\ guard' = WrittenBy(p)
    BY <1>7 DEF WriteGuard
  <2>2. GuardIsLive' /\ GuardIsMine'
    <3>1. pc' = [pc EXCEPT ![p] = "again"]
      BY <1>7 DEF WriteGuard
    <3>2. \A q \in Procs : q # p => pc'[q] \notin Guarding
      BY <2>1, <3>1
    <3>3. pc'[p] = "again"
      BY <3>1
    <3>4. GuardIsLive'
      BY <2>1, <3>3
    <3>5. GuardIsMine'
      BY <2>1, <3>2, <3>3
    <3>6. QED
      BY <3>4, <3>5
  <2>3. (MetIsLive /\ GuardIsNeverStale /\ StaleStaysStale /\ CreatedIsMine /\ OwnedIsMine)'
    BY <1>7 DEF WriteGuard
  <2>4. QED
    BY <2>2, <2>3
<1>8. ASSUME NEW p \in Procs, InspectGuard(p) PROVE Sound'
  BY <1>8 DEF InspectGuard
<1>8j. ASSUME NEW p \in Procs, JudgeGuard(p) PROVE Sound'
  BY <1>8j DEF JudgeGuard
<1>9. ASSUME NEW p \in Procs, RemoveGuard(p) PROVE Sound'
  BY <1>9 DEF RemoveGuard
<1>10. ASSUME NEW p \in Procs, InspectAgain(p) PROVE Sound'
  BY <1>10 DEF InspectAgain, StillStale
<1>11. ASSUME NEW p \in Procs, Remove(p) PROVE Sound'
  BY <1>11 DEF Remove
<1>12. ASSUME NEW p \in Procs, Recreate(p) PROVE Sound'
  BY <1>12 DEF Recreate
<1>13. ASSUME NEW p \in Procs, Rewrite(p) PROVE Sound'
  <2>1. lock = Created(p) /\ lock' = WrittenBy(p)
    BY <1>13 DEF Rewrite
  <2>2. QED
    BY <1>13, <2>1 DEF Rewrite
<1>14. ASSUME NEW p \in Procs, InspectOwnGuard(p) PROVE Sound'
  BY <1>14 DEF InspectOwnGuard
<1>15. ASSUME NEW p \in Procs, DropGuard(p) PROVE Sound'
  BY <1>15 DEF DropGuard
<1>16. ASSUME NEW p \in Procs, Finish(p) PROVE Sound'
  BY <1>16 DEF Finish
<1>17. ASSUME NEW p \in Procs, InspectOwn(p) PROVE Sound'
  BY <1>17 DEF InspectOwn
<1>18. ASSUME NEW p \in Procs, Unlink(p) PROVE Sound'
  BY <1>18 DEF Unlink
<1>19. ASSUME NEW p \in Procs, Die(p) PROVE Sound'
  <2>1. GuardIsLive'
    BY <1>19 DEF Die, Awaited
  <2>2. MetIsLive'
    BY <1>19 DEF Die, Awaited
  <2>3. (GuardIsMine /\ GuardIsNeverStale)'
    BY <1>19 DEF Die, Awaited
  <2>4. (StaleStaysStale /\ CreatedIsMine /\ OwnedIsMine)'
    BY <1>19 DEF Die, Awaited
  <2>5. QED
    BY <2>1, <2>2, <2>3, <2>4
<1>19e. ASSUME NEW p \in Procs, Exit(p) PROVE Sound'
  <2>1. GuardIsLive'
    BY <1>19e DEF Exit, Awaited
  <2>2. MetIsLive'
    BY <1>19e DEF Exit, Awaited
  <2>3. (GuardIsMine /\ GuardIsNeverStale)'
    BY <1>19e DEF Exit, Awaited
  <2>4. (StaleStaysStale /\ CreatedIsMine /\ OwnedIsMine)'
    BY <1>19e DEF Exit, Awaited
  <2>5. QED
    BY <2>1, <2>2, <2>3, <2>4
<1>20. CASE UNCHANGED vars
  BY <1>20
<1>21. QED
  BY <1>1, <1>2, <1>3, <1>4, <1>5, <1>5j, <1>6, <1>7, <1>8, <1>8j, <1>9, <1>10, <1>11, <1>12, <1>13, <1>14, <1>15, <1>16, <1>17, <1>18, <1>19, <1>19e, <1>20 DEF Next, Acquire, Release, ForceRelease

(* What has undone the guard is never forgotten.                           *)
LEMMA ExceptionsStay ==
  ASSUME [Next]_vars PROVE GuardHeld' => GuardHeld
<1> USE DEF GuardHeld
<1>1. ASSUME NEW p \in Procs, Die(p) PROVE GuardHeld' => GuardHeld
  BY <1>1, Zenon DEF Die
<1>2. ASSUME NEW p \in Procs, Exit(p) PROVE GuardHeld' => GuardHeld
  BY <1>2, Zenon DEF Exit
<1>3. ASSUME ForceRelease PROVE GuardHeld' => GuardHeld
  BY <1>3, Zenon DEF ForceRelease
<1>4. ASSUME NEW p \in Procs, Acquire(p) \/ Release(p)
      PROVE  UNCHANGED <<orphaned, outdated, forced>>
  BY <1>4 DEF Acquire, Release, Begin, Create, Write, WriteFails, Inspect, Judge,
     CreateGuard, WriteGuard, InspectGuard, JudgeGuard, RemoveGuard, InspectAgain, Remove,
     Recreate, Rewrite, InspectOwnGuard, DropGuard, Finish, InspectOwn, Unlink
<1>5. CASE UNCHANGED vars
  BY <1>5, Zenon
<1>6. QED
  BY <1>1, <1>2, <1>3, <1>4, <1>5, Zenon DEF Next

LEMMA LockStep == LockInv /\ [Next]_vars => LockInv'
<1> SUFFICES ASSUME LockInv, [Next]_vars PROVE LockInv'
  OBVIOUS
<1> QED
  BY ExceptionsStay, TypedStep, WonStep, SoundStep DEF LockInv

LEMMA LockInvariant == Spec => []LockInv
BY LockInit, LockStep, PTL DEF Spec

(* Two processes never hold the lock together, of however many race for it *)
(* and whoever dies with it, as long as no reclaimer dies with its guard   *)
(* (the window that the header of locks.js names), nobody goes away        *)
(* between another's reading its guard and judging it (locks.js:186 and    *)
(* 195, which the header does not name), and nobody uses --force.          *)
THEOREM HoldersAreAlone == Spec => []MutualExclusion
<1>1. LockInv => MutualExclusion
  BY DEF LockInv, Sound, OwnedIsMine, Owns, MutualExclusion, Holders, WrittenBy
<1>2. QED
  BY LockInvariant, <1>1, PTL

(* No step takes the lock of a live process from it but its own release,   *)
(* nor removes a file that names nobody: reclaiming under the guard        *)
(* (locks.js:277-298) removes only the stale lock it found, with the same  *)
(* three exceptions.                                                       *)
THEOREM OnlyStaleTaken == Spec => OnlyStaleLocksAreTaken
<1> DEFINE Earned == GuardHeld /\ ~forced' /\ lock # NoFile /\ lock' = NoFile =>
                       \/ lock.written /\ ~Alive(lock.owner)
                       \/ pc[lock.owner] = "unlink"
<1>1. LockInv /\ [Next]_vars => Earned
  <2> SUFFICES ASSUME LockInv, [Next]_vars, GuardHeld, ~forced', lock # NoFile, lock' = NoFile
               PROVE  \/ lock.written /\ ~Alive(lock.owner)
                      \/ pc[lock.owner] = "unlink"
    OBVIOUS
  <2>1. Sound
    BY DEF LockInv
  <2>2. PICK p \in Procs : Remove(p) \/ Unlink(p)
    BY DEF Next, Acquire, Release, Begin, Create, Write, WriteFails, Inspect, Judge,
       CreateGuard, WriteGuard, InspectGuard, JudgeGuard, RemoveGuard, InspectAgain,
       Recreate, Rewrite, InspectOwnGuard, DropGuard, Finish, InspectOwn,
       Die, Exit, ForceRelease, GuardHeld, Filled, NoFile, Created, WrittenBy
  <2>3. QED
    BY <2>1, <2>2 DEF Sound, StaleStaysStale, OwnedIsMine, Owns, Remove, Unlink,
       WrittenBy
<1>2. QED
  BY LockInvariant, <1>1, PTL DEF OnlyStaleLocksAreTaken, Spec

-----------------------------------------------------------------------------
(* Why what is left is in nobody's way, with force and orphaned guards     *)
(* too: a file that was created is written or given up, unless a write was *)
(* cut short, and one that was written goes when its owner is through.     *)

LockIsTended ==
  lock # NoFile =>
    IF lock.written
      THEN lock.owner = Ghost \/ (lock.owner \in Procs /\ (Owns(lock.owner) \/ pc[lock.owner] = "dead"))
      ELSE lock.owner \in Procs /\ pc[lock.owner] \in {"write", "rewrite"}

GuardIsTended ==
  guard # NoFile =>
    IF guard.written
      THEN \/ guard.owner = Ghost
           \/ /\ guard.owner \in Procs
              /\ pc[guard.owner] \in (Guarding \ {"guardWrite"}) \cup {"dead"}
      ELSE guard.owner \in Procs /\ pc[guard.owner] = "guardWrite"

Tended == cutShort = {} => LockIsTended /\ GuardIsTended

(* Why not everyone is refused.  While no one has won, died or failed to   *)
(* write, someone is about to write the lock; or no one has created it     *)
(* yet, and then an attempt fails once at most, for what made it fail, the *)
(* lock of a dead process, is gone by then; and who is turned away is      *)
(* turned away by a reclaimer who will try the lock again.                 *)
Creating == \E p \in Procs : pc[p] \in {"write", "rewrite"}

Hopeful ==
  \E p \in Procs : pc[p] \in Guarding \/ (pc[p] = "create" /\ tries[p] # 0)

Untouched == {NoFile, WrittenBy(Ghost)}

NothingCreated ==
  /\ lock \in Untouched
  /\ \A p \in Procs :
       /\ tries[p] # 0 => lock = NoFile /\ pc[p] = "create"
       /\ pc[p] \in {"recreate", "unguard", "dropGuard"} => lock = NoFile
       /\ pc[p] \in {"judge", "guard", "guardInspect", "guardJudge", "guardRemove", "guardWrite",
                  "again", "remove"} => seen[p] = Ghost

NooneRefused ==
  /\ guard \in Untouched
  /\ \A p \in Procs :
       /\ pc[p] \in {"idle", "create", "inspect", "judge", "guard", "guardInspect",
                    "guardJudge", "guardRemove"}
       /\ pc[p] = "guardJudge" => met[p] = Ghost
       /\ guardTries[p] # 0 => guard = NoFile /\ pc[p] = "guard"

Fair ==
  won = {} /\ deaths = {} /\ cutShort = {} =>
    Creating \/ (NothingCreated /\ (Hopeful \/ NooneRefused))

(* Who holds the lock, or held it, won it.                                 *)
Accounted ==
  \A p \in Procs : pc[p] \in {"held", "release", "unlink", "done"} => p \in won

QuietInv == Typed /\ Accounted /\ Tended /\ Fair

LEMMA QuietInit == Init => QuietInv
<1> SUFFICES ASSUME Init PROVE QuietInv
  OBVIOUS
<1>1. Typed
  BY TypedInit
<1>2. /\ \A p \in Procs : pc[p] = "idle" /\ tries[p] = 0 /\ guardTries[p] = 0
      /\ lock \in Untouched /\ guard \in Untouched
  BY DEF Init, Untouched
<1>3. Accounted
  BY <1>2 DEF Accounted
<1>4. Tended
  BY <1>2 DEF Tended, LockIsTended, GuardIsTended, Untouched, NoFile, WrittenBy
<1>5. Fair
  BY <1>2 DEF Fair, NothingCreated, NooneRefused
<1>6. QED
  BY <1>1, <1>3, <1>4, <1>5 DEF QuietInv

LEMMA AccountedStep == Typed /\ Accounted /\ [Next]_vars => Accounted'
<1> SUFFICES ASSUME Typed, Accounted, [Next]_vars PROVE Accounted'
  OBVIOUS
<1> USE DEF Typed, TypeOK, Accounted, Goes, NextTry, NextGuardTry, AfterGuard
<1>1. ASSUME NEW p \in Procs, Acquire(p) PROVE Accounted'
  BY <1>1 DEF Acquire, Begin, Create, Write, WriteFails, Writing, Inspect, Judge,
     CreateGuard, WriteGuard, InspectGuard, JudgeGuard, RemoveGuard, InspectAgain, Remove,
     Recreate, Rewrite, InspectOwnGuard, DropGuard
<1>2. ASSUME NEW p \in Procs, Release(p) \/ Die(p) \/ Exit(p) PROVE Accounted'
  BY <1>2 DEF Release, Finish, InspectOwn, Unlink, Die, Exit
<1>3. QED
  BY <1>1, <1>2 DEF Next, ForceRelease

(* What has been won, killed or cut short is not undone.                   *)
LEMMA NothingForgotten ==
  ASSUME [Next]_vars
  PROVE  won \subseteq won' /\ deaths \subseteq deaths' /\ cutShort \subseteq cutShort'
BY DEF Next, Acquire, Release, Begin, Create, Write, WriteFails, Inspect, Judge,
   CreateGuard, WriteGuard, InspectGuard, JudgeGuard, RemoveGuard, InspectAgain, Remove,
   Recreate, Rewrite, InspectOwnGuard, DropGuard, Finish, InspectOwn, Unlink, Die, Exit, ForceRelease

(* Every step leaves both files with someone who will write or remove them *)
(* or whom the next acquirer can tell is gone.                             *)
LEMMA TendedStep ==
  ASSUME Typed, Accounted, LockIsTended, GuardIsTended, [Next]_vars, cutShort' = {}
  PROVE  LockIsTended' /\ GuardIsTended'
<1> USE DEF Typed, TypeOK, Accounted, LockIsTended, GuardIsTended, Files, Owns, Guarding, Goes,
            NextTry, NextGuardTry, Filled, AfterGuard, NoFile, Created, WrittenBy
<1>1. ASSUME NEW p \in Procs, Begin(p) PROVE LockIsTended' /\ GuardIsTended'
  BY <1>1 DEF Begin
<1>2. ASSUME NEW p \in Procs, Create(p) PROVE LockIsTended' /\ GuardIsTended'
  BY <1>2 DEF Create
<1>3. ASSUME NEW p \in Procs, Write(p) PROVE LockIsTended' /\ GuardIsTended'
  BY <1>3 DEF Write
<1>4. ASSUME NEW p \in Procs, WriteFails(p) PROVE LockIsTended' /\ GuardIsTended'
  BY <1>4 DEF WriteFails
<1>5. ASSUME NEW p \in Procs, Inspect(p) PROVE LockIsTended' /\ GuardIsTended'
  BY <1>5 DEF Inspect
<1>5j. ASSUME NEW p \in Procs, Judge(p) PROVE LockIsTended' /\ GuardIsTended'
  BY <1>5j DEF Judge
<1>6. ASSUME NEW p \in Procs, CreateGuard(p) PROVE LockIsTended' /\ GuardIsTended'
  BY <1>6 DEF CreateGuard
<1>7. ASSUME NEW p \in Procs, WriteGuard(p) PROVE LockIsTended' /\ GuardIsTended'
  BY <1>7 DEF WriteGuard
<1>8. ASSUME NEW p \in Procs, InspectGuard(p) PROVE LockIsTended' /\ GuardIsTended'
  BY <1>8 DEF InspectGuard
<1>8j. ASSUME NEW p \in Procs, JudgeGuard(p) PROVE LockIsTended' /\ GuardIsTended'
  BY <1>8j DEF JudgeGuard
<1>9. ASSUME NEW p \in Procs, RemoveGuard(p) PROVE LockIsTended' /\ GuardIsTended'
  BY <1>9 DEF RemoveGuard
<1>10. ASSUME NEW p \in Procs, InspectAgain(p) PROVE LockIsTended' /\ GuardIsTended'
  BY <1>10 DEF InspectAgain
<1>11. ASSUME NEW p \in Procs, Remove(p) PROVE LockIsTended' /\ GuardIsTended'
  BY <1>11 DEF Remove
<1>12. ASSUME NEW p \in Procs, Recreate(p) PROVE LockIsTended' /\ GuardIsTended'
  BY <1>12 DEF Recreate
<1>13. ASSUME NEW p \in Procs, Rewrite(p) PROVE LockIsTended' /\ GuardIsTended'
  BY <1>13 DEF Rewrite
<1>14. ASSUME NEW p \in Procs, InspectOwnGuard(p) PROVE LockIsTended' /\ GuardIsTended'
  BY <1>14 DEF InspectOwnGuard
<1>15. ASSUME NEW p \in Procs, DropGuard(p) PROVE LockIsTended' /\ GuardIsTended'
  BY <1>15 DEF DropGuard
<1>16. ASSUME NEW p \in Procs, Finish(p) PROVE LockIsTended' /\ GuardIsTended'
  BY <1>16 DEF Finish
<1>17. ASSUME NEW p \in Procs, InspectOwn(p) PROVE LockIsTended' /\ GuardIsTended'
  BY <1>17 DEF InspectOwn
<1>18. ASSUME NEW p \in Procs, Unlink(p) PROVE LockIsTended' /\ GuardIsTended'
  BY <1>18 DEF Unlink
<1>19. ASSUME NEW p \in Procs, Die(p) PROVE LockIsTended' /\ GuardIsTended'
  BY <1>19 DEF Die, Writing
<1>19e. ASSUME NEW p \in Procs, Exit(p) PROVE LockIsTended' /\ GuardIsTended'
  BY <1>19e DEF Exit
<1>20. CASE ForceRelease
  BY <1>20 DEF ForceRelease
<1>21. CASE UNCHANGED vars
  BY <1>21
<1>22. QED
  BY <1>1, <1>2, <1>3, <1>4, <1>5, <1>5j, <1>6, <1>7, <1>8, <1>8j, <1>9, <1>10, <1>11, <1>12, <1>13, <1>14, <1>15, <1>16, <1>17, <1>18, <1>19, <1>19e, <1>20, <1>21 DEF Next, Acquire, Release

(* Who is about to write the lock wins it, unless that write fails.        *)
LEMMA CreatingStays ==
  ASSUME Typed, Creating, [Next]_vars, won' = {}, deaths' = {}, cutShort' = {}
  PROVE  Creating'
<1> USE DEF Typed, TypeOK, Creating, Goes, NextTry, NextGuardTry, AfterGuard
<1>1. ASSUME NEW p \in Procs, Begin(p) PROVE Creating'
  BY <1>1 DEF Begin
<1>2. ASSUME NEW p \in Procs, Create(p) PROVE Creating'
  BY <1>2 DEF Create
<1>3. ASSUME NEW p \in Procs, Write(p) PROVE Creating'
  BY <1>3 DEF Write
<1>4. ASSUME NEW p \in Procs, WriteFails(p) PROVE Creating'
  BY <1>4 DEF WriteFails
<1>5. ASSUME NEW p \in Procs, Inspect(p) PROVE Creating'
  BY <1>5 DEF Inspect
<1>5j. ASSUME NEW p \in Procs, Judge(p) PROVE Creating'
  BY <1>5j DEF Judge
<1>6. ASSUME NEW p \in Procs, CreateGuard(p) PROVE Creating'
  BY <1>6 DEF CreateGuard
<1>7. ASSUME NEW p \in Procs, WriteGuard(p) PROVE Creating'
  BY <1>7 DEF WriteGuard
<1>8. ASSUME NEW p \in Procs, InspectGuard(p) PROVE Creating'
  BY <1>8 DEF InspectGuard
<1>8j. ASSUME NEW p \in Procs, JudgeGuard(p) PROVE Creating'
  BY <1>8j DEF JudgeGuard
<1>9. ASSUME NEW p \in Procs, RemoveGuard(p) PROVE Creating'
  BY <1>9 DEF RemoveGuard
<1>10. ASSUME NEW p \in Procs, InspectAgain(p) PROVE Creating'
  BY <1>10 DEF InspectAgain
<1>11. ASSUME NEW p \in Procs, Remove(p) PROVE Creating'
  BY <1>11 DEF Remove
<1>12. ASSUME NEW p \in Procs, Recreate(p) PROVE Creating'
  BY <1>12 DEF Recreate
<1>13. ASSUME NEW p \in Procs, Rewrite(p) PROVE Creating'
  BY <1>13 DEF Rewrite
<1>14. ASSUME NEW p \in Procs, InspectOwnGuard(p) PROVE Creating'
  BY <1>14 DEF InspectOwnGuard
<1>15. ASSUME NEW p \in Procs, DropGuard(p) PROVE Creating'
  BY <1>15 DEF DropGuard
<1>16. ASSUME NEW p \in Procs, Finish(p) PROVE Creating'
  BY <1>16 DEF Finish
<1>17. ASSUME NEW p \in Procs, InspectOwn(p) PROVE Creating'
  BY <1>17 DEF InspectOwn
<1>18. ASSUME NEW p \in Procs, Unlink(p) PROVE Creating'
  BY <1>18 DEF Unlink
<1>19. ASSUME NEW p \in Procs, Die(p) PROVE Creating'
  BY <1>19 DEF Die
<1>19e. ASSUME NEW p \in Procs, Exit(p) PROVE Creating'
  BY <1>19e DEF Exit
<1>20. CASE ForceRelease
  BY <1>20 DEF ForceRelease
<1>21. CASE UNCHANGED vars
  BY <1>21
<1>22. QED
  BY <1>1, <1>2, <1>3, <1>4, <1>5, <1>5j, <1>6, <1>7, <1>8, <1>8j, <1>9, <1>10, <1>11, <1>12, <1>13, <1>14, <1>15, <1>16, <1>17, <1>18, <1>19, <1>19e, <1>20, <1>21 DEF Next, Acquire, Release

(* Until someone creates the lock, no attempt at it fails twice.           *)
LEMMA NothingCreatedStep ==
  ASSUME Typed, Accounted, NothingCreated, [Next]_vars, MaxTries > 1,
         won' = {}, deaths' = {}, cutShort' = {}
  PROVE  NothingCreated' \/ Creating'
<1>0. won = {} /\ deaths = {} /\ cutShort = {}
  BY NothingForgotten
<1> USE <1>0 DEF Typed, TypeOK, Accounted, NothingCreated, Untouched, Creating, Goes, NextTry,
            NextGuardTry, Filled, AfterGuard, StillStale, Alive, NoFile, Created, WrittenBy
<1>1. ASSUME NEW p \in Procs, Begin(p) PROVE NothingCreated' \/ Creating'
  BY <1>1 DEF Begin
<1>2. ASSUME NEW p \in Procs, Create(p) PROVE NothingCreated' \/ Creating'
  BY <1>2 DEF Create
<1>3. ASSUME NEW p \in Procs, Write(p) PROVE NothingCreated' \/ Creating'
  BY <1>3 DEF Write
<1>4. ASSUME NEW p \in Procs, WriteFails(p) PROVE NothingCreated' \/ Creating'
  BY <1>4 DEF WriteFails
<1>5. ASSUME NEW p \in Procs, Inspect(p) PROVE NothingCreated' \/ Creating'
  BY <1>5 DEF Inspect
<1>5j. ASSUME NEW p \in Procs, Judge(p) PROVE NothingCreated' \/ Creating'
  BY <1>5j DEF Judge
<1>6. ASSUME NEW p \in Procs, CreateGuard(p) PROVE NothingCreated' \/ Creating'
  BY <1>6 DEF CreateGuard
<1>7. ASSUME NEW p \in Procs, WriteGuard(p) PROVE NothingCreated' \/ Creating'
  BY <1>7 DEF WriteGuard
<1>8. ASSUME NEW p \in Procs, InspectGuard(p) PROVE NothingCreated' \/ Creating'
  BY <1>8 DEF InspectGuard
<1>8j. ASSUME NEW p \in Procs, JudgeGuard(p) PROVE NothingCreated' \/ Creating'
  BY <1>8j DEF JudgeGuard
<1>9. ASSUME NEW p \in Procs, RemoveGuard(p) PROVE NothingCreated' \/ Creating'
  BY <1>9 DEF RemoveGuard
<1>10. ASSUME NEW p \in Procs, InspectAgain(p) PROVE NothingCreated' \/ Creating'
  BY <1>10 DEF InspectAgain
<1>11. ASSUME NEW p \in Procs, Remove(p) PROVE NothingCreated' \/ Creating'
  BY <1>11 DEF Remove
<1>12. ASSUME NEW p \in Procs, Recreate(p) PROVE NothingCreated' \/ Creating'
  BY <1>12 DEF Recreate
<1>13. ASSUME NEW p \in Procs, Rewrite(p) PROVE NothingCreated' \/ Creating'
  BY <1>13 DEF Rewrite
<1>14. ASSUME NEW p \in Procs, InspectOwnGuard(p) PROVE NothingCreated' \/ Creating'
  BY <1>14 DEF InspectOwnGuard
<1>15. ASSUME NEW p \in Procs, DropGuard(p) PROVE NothingCreated' \/ Creating'
  BY <1>15 DEF DropGuard
<1>16. ASSUME NEW p \in Procs, Finish(p) PROVE NothingCreated' \/ Creating'
  BY <1>16 DEF Finish
<1>17. ASSUME NEW p \in Procs, InspectOwn(p) PROVE NothingCreated' \/ Creating'
  BY <1>17 DEF InspectOwn
<1>18. ASSUME NEW p \in Procs, Unlink(p) PROVE NothingCreated' \/ Creating'
  BY <1>18 DEF Unlink
<1>19. ASSUME NEW p \in Procs, Die(p) PROVE NothingCreated' \/ Creating'
  BY <1>19 DEF Die
<1>19e. ASSUME NEW p \in Procs, Exit(p) PROVE NothingCreated' \/ Creating'
  BY <1>19e DEF Exit
<1>20. CASE ForceRelease
  BY <1>20 DEF ForceRelease
<1>21. CASE UNCHANGED vars
  BY <1>21
<1>22. QED
  BY <1>1, <1>2, <1>3, <1>4, <1>5, <1>5j, <1>6, <1>7, <1>8, <1>8j, <1>9, <1>10, <1>11, <1>12, <1>13, <1>14, <1>15, <1>16, <1>17, <1>18, <1>19, <1>19e, <1>20, <1>21 DEF Next, Acquire, Release

(* A reclaimer that is done with the guard has an attempt left, and that   *)
(* attempt creates the lock.                                               *)
LEMMA HopeStays ==
  ASSUME Typed, Accounted, NothingCreated, Hopeful, [Next]_vars, MaxTries > 1,
         won' = {}, deaths' = {}, cutShort' = {}
  PROVE  Hopeful' \/ Creating'
<1>0. won = {} /\ deaths = {} /\ cutShort = {}
  BY NothingForgotten
<1> USE <1>0 DEF Typed, TypeOK, Accounted, NothingCreated, Untouched, Creating, Hopeful, Guarding,
            Goes, NextTry, NextGuardTry, Filled, AfterGuard, NoFile, Created, WrittenBy
<1>1. ASSUME NEW p \in Procs, Begin(p) PROVE Hopeful' \/ Creating'
  BY <1>1 DEF Begin
<1>2. ASSUME NEW p \in Procs, Create(p) PROVE Hopeful' \/ Creating'
  BY <1>2 DEF Create
<1>3. ASSUME NEW p \in Procs, Write(p) PROVE Hopeful' \/ Creating'
  BY <1>3 DEF Write
<1>4. ASSUME NEW p \in Procs, WriteFails(p) PROVE Hopeful' \/ Creating'
  BY <1>4 DEF WriteFails
<1>5. ASSUME NEW p \in Procs, Inspect(p) PROVE Hopeful' \/ Creating'
  BY <1>5 DEF Inspect
<1>5j. ASSUME NEW p \in Procs, Judge(p) PROVE Hopeful' \/ Creating'
  BY <1>5j DEF Judge
<1>6. ASSUME NEW p \in Procs, CreateGuard(p) PROVE Hopeful' \/ Creating'
  BY <1>6 DEF CreateGuard
<1>7. ASSUME NEW p \in Procs, WriteGuard(p) PROVE Hopeful' \/ Creating'
  BY <1>7 DEF WriteGuard
<1>8. ASSUME NEW p \in Procs, InspectGuard(p) PROVE Hopeful' \/ Creating'
  BY <1>8 DEF InspectGuard
<1>8j. ASSUME NEW p \in Procs, JudgeGuard(p) PROVE Hopeful' \/ Creating'
  BY <1>8j DEF JudgeGuard
<1>9. ASSUME NEW p \in Procs, RemoveGuard(p) PROVE Hopeful' \/ Creating'
  BY <1>9 DEF RemoveGuard
<1>10. ASSUME NEW p \in Procs, InspectAgain(p) PROVE Hopeful' \/ Creating'
  BY <1>10 DEF InspectAgain
<1>11. ASSUME NEW p \in Procs, Remove(p) PROVE Hopeful' \/ Creating'
  BY <1>11 DEF Remove
<1>12. ASSUME NEW p \in Procs, Recreate(p) PROVE Hopeful' \/ Creating'
  BY <1>12 DEF Recreate
<1>13. ASSUME NEW p \in Procs, Rewrite(p) PROVE Hopeful' \/ Creating'
  BY <1>13 DEF Rewrite
<1>14. ASSUME NEW p \in Procs, InspectOwnGuard(p) PROVE Hopeful' \/ Creating'
  BY <1>14 DEF InspectOwnGuard
<1>15. ASSUME NEW p \in Procs, DropGuard(p) PROVE Hopeful' \/ Creating'
  BY <1>15 DEF DropGuard
<1>16. ASSUME NEW p \in Procs, Finish(p) PROVE Hopeful' \/ Creating'
  BY <1>16 DEF Finish
<1>17. ASSUME NEW p \in Procs, InspectOwn(p) PROVE Hopeful' \/ Creating'
  BY <1>17 DEF InspectOwn
<1>18. ASSUME NEW p \in Procs, Unlink(p) PROVE Hopeful' \/ Creating'
  BY <1>18 DEF Unlink
<1>19. ASSUME NEW p \in Procs, Die(p) PROVE Hopeful' \/ Creating'
  BY <1>19 DEF Die
<1>19e. ASSUME NEW p \in Procs, Exit(p) PROVE Hopeful' \/ Creating'
  BY <1>19e DEF Exit
<1>20. CASE ForceRelease
  BY <1>20 DEF ForceRelease
<1>21. CASE UNCHANGED vars
  BY <1>21
<1>22. QED
  BY <1>1, <1>2, <1>3, <1>4, <1>5, <1>5j, <1>6, <1>7, <1>8, <1>8j, <1>9, <1>10, <1>11, <1>12, <1>13, <1>14, <1>15, <1>16, <1>17, <1>18, <1>19, <1>19e, <1>20, <1>21 DEF Next, Acquire, Release

(* While nobody is reclaiming and none is at a second attempt, nobody is   *)
(* turned away, by the lock or by the guard of a dead process.             *)
LEMMA NooneRefusedStep ==
  ASSUME Typed, Accounted, NothingCreated, NooneRefused, ~Hopeful, [Next]_vars, MaxTries > 1,
         won' = {}, deaths' = {}, cutShort' = {}
  PROVE  NooneRefused' \/ Hopeful' \/ Creating'
<1>0. won = {} /\ deaths = {} /\ cutShort = {}
  BY NothingForgotten
<1> USE <1>0 DEF Typed, TypeOK, Accounted, NothingCreated, NooneRefused, Untouched, Creating,
            Hopeful, Guarding, Goes, NextTry, NextGuardTry, Filled, AfterGuard, Alive,
            NoFile, Created, WrittenBy
<1>1. ASSUME NEW p \in Procs, Begin(p) PROVE NooneRefused' \/ Hopeful' \/ Creating'
  BY <1>1 DEF Begin
<1>2. ASSUME NEW p \in Procs, Create(p) PROVE NooneRefused' \/ Hopeful' \/ Creating'
  BY <1>2 DEF Create
<1>3. ASSUME NEW p \in Procs, Write(p) PROVE NooneRefused' \/ Hopeful' \/ Creating'
  BY <1>3 DEF Write
<1>4. ASSUME NEW p \in Procs, WriteFails(p) PROVE NooneRefused' \/ Hopeful' \/ Creating'
  BY <1>4 DEF WriteFails
<1>5. ASSUME NEW p \in Procs, Inspect(p) PROVE NooneRefused' \/ Hopeful' \/ Creating'
  BY <1>5 DEF Inspect
<1>5j. ASSUME NEW p \in Procs, Judge(p) PROVE NooneRefused' \/ Hopeful' \/ Creating'
  BY <1>5j DEF Judge
<1>6. ASSUME NEW p \in Procs, CreateGuard(p) PROVE NooneRefused' \/ Hopeful' \/ Creating'
  BY <1>6 DEF CreateGuard
<1>7. ASSUME NEW p \in Procs, WriteGuard(p) PROVE NooneRefused' \/ Hopeful' \/ Creating'
  BY <1>7 DEF WriteGuard
<1>8. ASSUME NEW p \in Procs, InspectGuard(p) PROVE NooneRefused' \/ Hopeful' \/ Creating'
  BY <1>8 DEF InspectGuard
<1>8j. ASSUME NEW p \in Procs, JudgeGuard(p) PROVE NooneRefused' \/ Hopeful' \/ Creating'
  BY <1>8j DEF JudgeGuard
<1>9. ASSUME NEW p \in Procs, RemoveGuard(p) PROVE NooneRefused' \/ Hopeful' \/ Creating'
  BY <1>9 DEF RemoveGuard
<1>10. ASSUME NEW p \in Procs, InspectAgain(p) PROVE NooneRefused' \/ Hopeful' \/ Creating'
  BY <1>10 DEF InspectAgain
<1>11. ASSUME NEW p \in Procs, Remove(p) PROVE NooneRefused' \/ Hopeful' \/ Creating'
  BY <1>11 DEF Remove
<1>12. ASSUME NEW p \in Procs, Recreate(p) PROVE NooneRefused' \/ Hopeful' \/ Creating'
  BY <1>12 DEF Recreate
<1>13. ASSUME NEW p \in Procs, Rewrite(p) PROVE NooneRefused' \/ Hopeful' \/ Creating'
  BY <1>13 DEF Rewrite
<1>14. ASSUME NEW p \in Procs, InspectOwnGuard(p) PROVE NooneRefused' \/ Hopeful' \/ Creating'
  BY <1>14 DEF InspectOwnGuard
<1>15. ASSUME NEW p \in Procs, DropGuard(p) PROVE NooneRefused' \/ Hopeful' \/ Creating'
  BY <1>15 DEF DropGuard
<1>16. ASSUME NEW p \in Procs, Finish(p) PROVE NooneRefused' \/ Hopeful' \/ Creating'
  BY <1>16 DEF Finish
<1>17. ASSUME NEW p \in Procs, InspectOwn(p) PROVE NooneRefused' \/ Hopeful' \/ Creating'
  BY <1>17 DEF InspectOwn
<1>18. ASSUME NEW p \in Procs, Unlink(p) PROVE NooneRefused' \/ Hopeful' \/ Creating'
  BY <1>18 DEF Unlink
<1>19. ASSUME NEW p \in Procs, Die(p) PROVE NooneRefused' \/ Hopeful' \/ Creating'
  BY <1>19 DEF Die
<1>19e. ASSUME NEW p \in Procs, Exit(p) PROVE NooneRefused' \/ Hopeful' \/ Creating'
  BY <1>19e DEF Exit
<1>20. CASE ForceRelease
  BY <1>20 DEF ForceRelease
<1>21. CASE UNCHANGED vars
  BY <1>21
<1>22. QED
  BY <1>1, <1>2, <1>3, <1>4, <1>5, <1>5j, <1>6, <1>7, <1>8, <1>8j, <1>9, <1>10, <1>11, <1>12, <1>13, <1>14, <1>15, <1>16, <1>17, <1>18, <1>19, <1>19e, <1>20, <1>21 DEF Next, Acquire, Release

LEMMA QuietStep ==
  ASSUME QuietInv, [Next]_vars, MaxTries > 1
  PROVE  QuietInv'
<1>1. Typed' /\ Accounted'
  BY TypedStep, AccountedStep DEF QuietInv
<1>2. Tended'
  BY NothingForgotten, TendedStep DEF QuietInv, Tended
<1>3. Fair'
  <2> SUFFICES ASSUME won' = {}, deaths' = {}, cutShort' = {}
               PROVE  Creating' \/ (NothingCreated' /\ (Hopeful' \/ NooneRefused'))
    BY DEF Fair
  <2>1. Creating \/ (NothingCreated /\ (Hopeful \/ NooneRefused))
    BY NothingForgotten DEF QuietInv, Fair
  <2>2. QED
    BY <2>1, CreatingStays, NothingCreatedStep, HopeStays, NooneRefusedStep DEF QuietInv
<1>4. QED
  BY <1>1, <1>2, <1>3 DEF QuietInv

(* When all is over, both files are gone or plainly of a dead process: no  *)
(* later acquirer is refused for what this race left behind.               *)
THEOREM NothingLeftInTheWay == Spec => []NextAcquirerIsNotBlocked
<1>1. Init => Typed /\ Accounted /\ Tended
  BY QuietInit DEF QuietInv
<1>2. Typed /\ Accounted /\ Tended /\ [Next]_vars => (Typed /\ Accounted /\ Tended)'
  <2> SUFFICES ASSUME Typed, Accounted, Tended, [Next]_vars PROVE (Typed /\ Accounted /\ Tended)'
    OBVIOUS
  <2>1. Tended'
    BY NothingForgotten, TendedStep DEF Tended
  <2>2. QED
    BY <2>1, TypedStep, AccountedStep
<1>3. Tended => NextAcquirerIsNotBlocked
  BY DEF Tended, LockIsTended, GuardIsTended, NextAcquirerIsNotBlocked, Quiet, Alive, Owns, Guarding
<1>4. QED
  BY <1>1, <1>2, <1>3, PTL DEF Spec

(* Of those who race for the lock one has it: the broker never refuses     *)
(* everyone, given a second attempt (MAX_ATTEMPTS is 3).                   *)
THEOREM NotEveryoneIsRefused ==
  ASSUME Procs # {}, MaxTries > 1
  PROVE  Spec => []SomeoneAcquires
<1>1. QuietInv => SomeoneAcquires
  BY DEF QuietInv, Fair, Creating, Hopeful, Guarding, NooneRefused, Quiet, SomeoneAcquires
<1>2. QuietInv /\ [Next]_vars => QuietInv'
  BY QuietStep
<1>3. QED
  BY QuietInit, <1>1, <1>2, PTL DEF Spec
=============================================================================
