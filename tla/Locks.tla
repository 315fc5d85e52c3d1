-------------------------------- MODULE Locks --------------------------------
(***************************************************************************)
(* The advisory lock broker (scripts/lifecycle/locks.js) for one lock name *)
(* and the processes that want it.  Every file operation is a step of its  *)
(* own: the exclusive create and the write that follows it, each read and  *)
(* each removal; so is asking whether the owner that was read is alive.    *)
(* Processes interleave, exit and die between any two.                     *)
(***************************************************************************)
EXTENDS Naturals, FiniteSets

CONSTANTS
  Procs,      \* the processes that acquire, each once
  Ghost,      \* a process that died before the model begins
  NoOwner,
  MaxTries,   \* MAX_ATTEMPTS
  MaxDeaths   \* bound: processes killed

ASSUME LockAssumption ==
  /\ Ghost \notin Procs /\ NoOwner \notin Procs \cup {Ghost}
  /\ MaxTries \in Nat \ {0} /\ MaxDeaths \in Nat

VARIABLES
  lock,      \* <name>.lock
  guard,     \* <name>.lock.reclaim
  pc,        \* where each process is
  seen,      \* the owner each process read in the lock
  met,       \* ... and in the guard, until it is judged
  tries,     \* the attempts each process has made at the lock
  guardTries,\* ... and at the guard
  won,       \* the processes whose lock file was created
  deaths,    \* the processes killed
  cutShort,  \* the processes that left a file created and never written
  orphaned,  \* whether a reclaimer ever died and left its guard
  outdated,  \* whether one went away between another's reading its guard and
             \* asking whether it is alive
  forced     \* whether a human released the lock by force; once is the bound

files == <<lock, guard>>
mine  == <<seen, met, tries, guardTries, won>>
fate  == <<deaths, cutShort, orphaned, outdated, forced>>
vars  == <<files, pc, mine, fate>>

-----------------------------------------------------------------------------
(* A file is created empty and written after; until then it names nobody   *)
(* to a reader, though its creator is who may still write it.              *)
Files == [owner: Procs \cup {Ghost, NoOwner}, written: BOOLEAN]

NoFile       == [owner |-> NoOwner, written |-> FALSE]
Created(p)   == [owner |-> p, written |-> FALSE]
WrittenBy(p) == [owner |-> p, written |-> TRUE]

Places ==
  {"idle", "create", "write", "inspect", "judge", "guard", "guardWrite",
   "guardInspect", "guardJudge", "guardRemove", "again", "remove", "recreate", "rewrite",
   "unguard", "dropGuard", "held", "release", "unlink", "done", "refused", "dead"}

(* A process is gone once it was killed or has exited.                     *)
Alive(p) == p \in Procs /\ pc[p] # "dead"

(* Between creating a file and writing it.                                 *)
Writing == {"write", "guardWrite", "rewrite"}

(* Between taking its guard and removing it.                               *)
Guarding == {"guardWrite", "again", "remove", "recreate", "rewrite", "unguard", "dropGuard"}

Goes(p, place) == pc' = [pc EXCEPT ![p] = place]

(* An earlier owner died with the lock, and perhaps a reclaimer with the   *)
(* guard.                                                                  *)
Init ==
  /\ lock \in {NoFile, WrittenBy(Ghost)}
  /\ guard \in {NoFile, WrittenBy(Ghost)}
  /\ pc = [p \in Procs |-> "idle"]
  /\ seen = [p \in Procs |-> NoOwner]
  /\ met = [p \in Procs |-> NoOwner]
  /\ tries = [p \in Procs |-> 0]
  /\ guardTries = [p \in Procs |-> 0]
  /\ won = {}
  /\ deaths = {}
  /\ cutShort = {}
  /\ orphaned = (guard # NoFile)
  /\ outdated = FALSE
  /\ forced = FALSE

-----------------------------------------------------------------------------
(* acquireLock: the exclusive create, and what is read when it fails.      *)
NextTry(p) ==
  /\ tries' = [tries EXCEPT ![p] = @ + 1]
  /\ Goes(p, IF tries[p] + 1 < MaxTries THEN "create" ELSE "refused")

Begin(p) ==
  /\ pc[p] = "idle"
  /\ Goes(p, "create")
  /\ UNCHANGED <<files, mine, fate>>

Create(p) ==
  /\ pc[p] = "create"
  /\ IF lock = NoFile
       THEN lock' = Created(p) /\ Goes(p, "write")
       ELSE Goes(p, "inspect") /\ UNCHANGED lock
  /\ UNCHANGED <<guard, mine, fate>>

(* A write goes to the file that was opened, be it still in place or not.  *)
Filled(file, p) == IF file.owner = p THEN WrittenBy(p) ELSE file

Write(p) ==
  /\ pc[p] = "write"
  /\ lock' = Filled(lock, p)
  /\ won' = won \cup {p}
  /\ Goes(p, "held")
  /\ UNCHANGED <<guard, seen, met, tries, guardTries, fate>>

Inspect(p) ==
  /\ pc[p] = "inspect"
  /\ \/ /\ lock = NoFile
        /\ NextTry(p)
        /\ UNCHANGED seen
     \/ /\ lock # NoFile /\ ~lock.written
        /\ Goes(p, "refused")
        /\ UNCHANGED <<seen, tries>>
     \/ /\ lock.written
        /\ seen' = [seen EXCEPT ![p] = lock.owner]
        /\ Goes(p, "judge")
        /\ UNCHANGED tries
  /\ UNCHANGED <<files, met, guardTries, won, fate>>

(* Whoever was read may have released the lock, and exited, since.         *)
Judge(p) ==
  /\ pc[p] = "judge"
  /\ Goes(p, IF Alive(seen[p]) THEN "refused" ELSE "guard")
  /\ guardTries' = [guardTries EXCEPT ![p] = 0]
  /\ UNCHANGED <<files, seen, met, tries, won, fate>>

-----------------------------------------------------------------------------
(* takeReclaimGuard.                                                       *)
NextGuardTry(p) ==
  /\ guardTries' = [guardTries EXCEPT ![p] = @ + 1]
  /\ Goes(p, IF guardTries[p] + 1 < MaxTries THEN "guard" ELSE "refused")

CreateGuardFault(p) ==
  /\ pc[p] = "guard"
  /\ guard' = Created(p)
  /\ Goes(p, "guardWrite")
  /\ UNCHANGED <<lock, mine, fate>>

CreateGuard(p) ==
  /\ pc[p] = "guard"
  /\ IF guard = NoFile
       THEN guard' = Created(p) /\ Goes(p, "guardWrite")
       ELSE Goes(p, "guardInspect") /\ UNCHANGED guard
  /\ UNCHANGED <<lock, mine, fate>>

WriteGuard(p) ==
  /\ pc[p] = "guardWrite"
  /\ guard' = Filled(guard, p)
  /\ Goes(p, "again")
  /\ UNCHANGED <<lock, mine, fate>>

InspectGuard(p) ==
  /\ pc[p] = "guardInspect"
  /\ \/ /\ guard = NoFile
        /\ NextGuardTry(p)
        /\ UNCHANGED met
     \/ /\ guard # NoFile /\ ~guard.written
        /\ Goes(p, "refused")
        /\ UNCHANGED <<met, guardTries>>
     \/ /\ guard.written
        /\ met' = [met EXCEPT ![p] = guard.owner]
        /\ Goes(p, "guardJudge")
        /\ UNCHANGED guardTries
  /\ UNCHANGED <<files, seen, tries, won, fate>>

JudgeGuard(p) ==
  /\ pc[p] = "guardJudge"
  /\ Goes(p, IF Alive(met[p]) THEN "refused" ELSE "guardRemove")
  /\ met' = [met EXCEPT ![p] = NoOwner]
  /\ UNCHANGED <<files, seen, tries, guardTries, won, fate>>

(* Nothing guards the removal of a stale guard: it removes what is there.  *)
RemoveGuard(p) ==
  /\ pc[p] = "guardRemove"
  /\ guard' = NoFile
  /\ NextGuardTry(p)
  /\ UNCHANGED <<lock, seen, met, tries, won, fate>>

-----------------------------------------------------------------------------
(* The reclaim, under the guard.  The owner was found gone before the      *)
(* guard was taken, and who is gone stays so: asking again adds nothing.   *)
StillStaleFault(p) == TRUE

StillStaleMixup(p) == lock = WrittenBy(p) /\ ~Alive(seen[p])

StillStale(p) == lock = WrittenBy(seen[p]) /\ ~Alive(seen[p])

InspectAgain(p) ==
  /\ pc[p] = "again"
  /\ Goes(p, IF StillStale(p) THEN "remove" ELSE "unguard")
  /\ UNCHANGED <<files, mine, fate>>

Remove(p) ==
  /\ pc[p] = "remove"
  /\ lock' = NoFile
  /\ Goes(p, "recreate")
  /\ UNCHANGED <<guard, mine, fate>>

Recreate(p) ==
  /\ pc[p] = "recreate"
  /\ IF lock = NoFile
       THEN lock' = Created(p) /\ Goes(p, "rewrite")
       ELSE Goes(p, "unguard") /\ UNCHANGED lock
  /\ UNCHANGED <<guard, mine, fate>>

Rewrite(p) ==
  /\ pc[p] = "rewrite"
  /\ lock' = Filled(lock, p)
  /\ won' = won \cup {p}
  /\ Goes(p, "unguard")
  /\ UNCHANGED <<guard, seen, met, tries, guardTries, fate>>

(* releaseReclaimGuard reads the guard, then removes it if it is its own;   *)
(* then the acquirer has the lock or tries again, and what this attempt    *)
(* has read is gone with it.                                               *)
AfterGuard(p) ==
  /\ IF p \in won THEN Goes(p, "held") /\ UNCHANGED tries ELSE NextTry(p)
  /\ seen' = [seen EXCEPT ![p] = NoOwner]
  /\ guardTries' = [guardTries EXCEPT ![p] = 0]

InspectOwnGuardFault(p) ==
  /\ pc[p] = "unguard"
  /\ AfterGuard(p)
  /\ UNCHANGED <<files, met, won, fate>>

InspectOwnGuard(p) ==
  /\ pc[p] = "unguard"
  /\ IF guard = WrittenBy(p)
       THEN Goes(p, "dropGuard") /\ UNCHANGED <<seen, tries, guardTries>>
       ELSE AfterGuard(p)
  /\ UNCHANGED <<files, met, won, fate>>

DropGuard(p) ==
  /\ pc[p] = "dropGuard"
  /\ guard' = NoFile
  /\ AfterGuard(p)
  /\ UNCHANGED <<lock, met, won, fate>>

-----------------------------------------------------------------------------
(* The write fails once the file is there (a full disk): the file stays,   *)
(* empty, and the create reports an error.                                 *)
WriteFails(p) ==
  /\ pc[p] \in Writing
  /\ Goes(p, IF pc[p] = "rewrite" THEN "unguard" ELSE "refused")
  /\ cutShort' = cutShort \cup {p}
  /\ UNCHANGED <<files, mine, deaths, orphaned, outdated, forced>>

-----------------------------------------------------------------------------
(* releaseLock, when the command the lock was held for has ended.          *)
Finish(p) ==
  /\ pc[p] = "held"
  /\ Goes(p, "release")
  /\ UNCHANGED <<files, mine, fate>>

InspectOwn(p) ==
  /\ pc[p] = "release"
  /\ Goes(p, IF lock = WrittenBy(p) THEN "unlink" ELSE "done")
  /\ UNCHANGED <<files, mine, fate>>

Unlink(p) ==
  /\ pc[p] = "unlink"
  /\ lock' = NoFile
  /\ Goes(p, "done")
  /\ UNCHANGED <<guard, mine, fate>>

(* A process is killed, or exits when it is through.  Someone may be about *)
(* to ask whether it is alive.                                             *)
Awaited(p) == \E q \in Procs : pc[q] = "guardJudge" /\ met[q] = p

Die(p) ==
  /\ pc[p] \notin {"idle", "done", "refused", "dead"}
  /\ Cardinality(deaths) < MaxDeaths
  /\ Goes(p, "dead")
  /\ deaths' = deaths \cup {p}
  /\ cutShort' = IF pc[p] \in Writing THEN cutShort \cup {p} ELSE cutShort
  /\ orphaned' = (orphaned \/ pc[p] \in Guarding)
  /\ outdated' = (outdated \/ Awaited(p))
  /\ UNCHANGED <<files, mine, forced>>

Exit(p) ==
  /\ pc[p] \in {"done", "refused"}
  /\ Goes(p, "dead")
  /\ outdated' = (outdated \/ Awaited(p))
  /\ UNCHANGED <<files, mine, deaths, cutShort, orphaned, forced>>

(* yukl lock release --force removes the lock whatever it says.            *)
ForceRelease ==
  /\ ~forced
  /\ lock # NoFile
  /\ lock' = NoFile
  /\ forced' = TRUE
  /\ UNCHANGED <<guard, pc, mine, deaths, cutShort, orphaned, outdated>>

-----------------------------------------------------------------------------
Acquire(p) ==
  \/ Begin(p) \/ Create(p) \/ Write(p) \/ WriteFails(p) \/ Inspect(p) \/ Judge(p)
  \/ CreateGuard(p) \/ WriteGuard(p) \/ InspectGuard(p) \/ JudgeGuard(p)
  \/ RemoveGuard(p)
  \/ InspectAgain(p) \/ Remove(p) \/ Recreate(p) \/ Rewrite(p)
  \/ InspectOwnGuard(p) \/ DropGuard(p)

Release(p) == Finish(p) \/ InspectOwn(p) \/ Unlink(p)

Next == (\E p \in Procs : Acquire(p) \/ Release(p) \/ Die(p) \/ Exit(p)) \/ ForceRelease

Spec == Init /\ [][Next]_vars

-----------------------------------------------------------------------------
TypeOK ==
  /\ lock \in Files /\ guard \in Files
  /\ pc \in [Procs -> Places]
  /\ seen \in [Procs -> Procs \cup {Ghost, NoOwner}]
  /\ met \in [Procs -> Procs \cup {Ghost, NoOwner}]
  /\ tries \in [Procs -> 0..MaxTries] /\ guardTries \in [Procs -> 0..MaxTries]
  /\ won \subseteq Procs /\ deaths \subseteq Procs /\ cutShort \subseteq Procs
  /\ orphaned \in BOOLEAN /\ outdated \in BOOLEAN /\ forced \in BOOLEAN

(* The processes that were told that the lock is theirs and have not given *)
(* it back.                                                                *)
Holders == {p \in Procs : pc[p] \in {"held", "release", "unlink"}}

(* Nothing has undone the guard: no reclaimer died with it, the window the *)
(* header of the file leaves open (locks.js:28-39), nobody went away whose *)
(* guard another had read and had yet to judge (locks.js:186 and 195),     *)
(* which is one more, and no human used force.                             *)
GuardHeld == ~orphaned /\ ~outdated /\ ~forced

(* Two processes never hold the lock together, whoever dies holding it and *)
(* however many find it stale (locks.js:4-21), while the guard is.         *)
MutualExclusion == GuardHeld => \A p, q \in Holders : p = q

(* The lock of a live process is taken away by that process alone, and one *)
(* that names nobody by no one: what cannot be proved stale is left alone  *)
(* (locks.js:17-24), with the same exceptions.                             *)
OnlyStaleLocksAreTaken ==
  [][GuardHeld /\ ~forced' /\ lock # NoFile /\ lock' = NoFile =>
       \/ lock.written /\ ~Alive(lock.owner)
       \/ pc[lock.owner] = "unlink"]_vars

Quiet == \A p \in Procs : pc[p] \in {"done", "refused", "dead"}

(* The broker does not refuse everyone: when nobody died and no write      *)
(* failed, of those who raced for the lock at least one had it.            *)
SomeoneAcquires ==
  Quiet /\ deaths = {} /\ cutShort = {} => won # {}

(* Whatever is left when all is over is in nobody's way: a file is gone,   *)
(* or a later acquirer can tell that its owner is (locks.js:14-16 and      *)
(* 25-26), unless someone stopped between creating and writing it.         *)
NextAcquirerIsNotBlocked ==
  Quiet /\ cutShort = {} =>
    \A file \in {lock, guard} : file = NoFile \/ (file.written /\ ~Alive(file.owner))

-----------------------------------------------------------------------------
(* What the header of locks.js says and the code does not do; refuted by a *)
(* run of its own (see the README).                                        *)

(* "a reclaimer that crashed mid-reclaim leaves a stale guard the next     *)
(* acquirer reclaims in turn" (locks.js:24-26): nobody who meets the guard *)
(* of a dead reclaimer is turned away by it.                               *)
DeadReclaimersBlockNobody ==
  [][\A p \in Procs :
       pc[p] = "guardInspect" /\ pc'[p] = "refused" /\ guard # NoFile
         => Alive(guard.owner)]_vars

(* "One window is known to remain open [...]: two acquirers colliding on   *)
(* the guard of a reclaimer that crashed mid-reclaim" (locks.js:28-31):    *)
(* but for that one and for force, nobody holds the lock beside another.   *)
OneWindowIsOpen ==
  ~orphaned /\ ~forced => \A p, q \in Holders : p = q

=============================================================================
