---------------------------- MODULE LandingProofs -----------------------------
(***************************************************************************)
(* Proofs about Landing, for any tasks, changes and merging processes and  *)
(* any number of moves by others: the base only moves forward, a process   *)
(* that is refused leaves nothing on it, what lands is what was seen to    *)
(* pass, and status finds the head of the last merge.                      *)
(***************************************************************************)
EXTENDS LandingProperties, TLAPS

Hashes  == Mergers \cup {NoHash}
Commits == [adds: SUBSET Changes, run: [task: Tasks \cup {NoHash}, hash: Hashes]]
Mergings == [at: Places, hash: Hashes, old: Seq(Commits), seen: SUBSET Changes,
             new: Seq(Commits)]

Types ==
  /\ adapter \in {"git-local", "github"}
  /\ base \in Seq(Commits)
  /\ branch \in [Tasks -> SUBSET Changes]
  /\ out \in BOOLEAN
  /\ target \subseteq Tasks
  /\ merger \in [Mergers -> Mergings]
  /\ moves \in 0..MaxMoves
  /\ late \subseteq Mergers
  /\ landed \in [Tasks -> Hashes]

LEMMA TaskOfMerger == \A m \in Mergers : TaskOf[m] \in Tasks
BY DEF Tasks

LEMMA ContentTyped ==
  ASSUME NEW commits \in Seq(Commits)
  PROVE  Content(commits) \subseteq Changes
<1> SUFFICES ASSUME NEW c \in Content(commits) PROVE c \in Changes
  OBVIOUS
<1>1. PICK i \in DOMAIN commits : c \in commits[i].adds
  BY DEF Content
<1>2. commits[i] \in Commits
  OBVIOUS
<1>3. QED
  BY <1>1, <1>2 DEF Commits

(* The places a process goes to, cited without the set they make up.       *)
LEMMA PlaceNames ==
  /\ "idle" \in Places /\ "base" \in Places /\ "worktrees" \in Places
  /\ "checks" \in Places /\ "target" \in Places /\ "merge" \in Places
  /\ "update" \in Places /\ "ok" \in Places /\ "refused" \in Places
  /\ "failed" \in Places /\ "dead" \in Places
BY DEF Places, Ended

USE DEF repo, notes, Goes

LEMMA MergeTyped ==
  ASSUME Types, NEW m \in Mergers, NEW commits \in Seq(Commits)
  PROVE  MergeOf(m, commits) \in Seq(Commits)
<1>1. Tip(m) \ Content(commits) \in SUBSET Changes
  BY TaskOfMerger DEF Types, Tip
<1>2. Trailer(m) \in [task: Tasks \cup {NoHash}, hash: Hashes]
  BY TaskOfMerger DEF Types, Mergings, Trailer
<1>3. Commit(Tip(m) \ Content(commits), Trailer(m)) \in Commits
  BY <1>1, <1>2 DEF Commit, Commits
<1>4. QED
  BY <1>3 DEF MergeOf

LEMMA TypesInit == Init => Types
<1> SUFFICES ASSUME Init PROVE Types
  OBVIOUS
<1>1. merger \in [Mergers -> Mergings]
  BY PlaceNames DEF Init, Mergings, Hashes
<1>2. branch \in [Tasks -> SUBSET Changes]
  BY DEF Init
<1>3. landed \in [Tasks -> Hashes]
  BY DEF Init, Hashes
<1>4. base \in Seq(Commits) /\ moves \in 0..MaxMoves
  BY LandingAssumption DEF Init
<1>5. QED
  BY <1>1, <1>2, <1>3, <1>4 DEF Init, Types

LEMMA GoesTyped ==
  ASSUME Types, NEW m \in Mergers, NEW place \in Places, Goes(m, place)
  PROVE  merger' \in [Mergers -> Mergings]
BY DEF Types, Mergings

LEMMA TypesStep == Types /\ [Next]_vars => Types'
<1> SUFFICES ASSUME Types, [Next]_vars PROVE Types'
  OBVIOUS
<1> USE LandingAssumption, TaskOfMerger, PlaceNames DEF Types, Mergings
<1>1. ASSUME NEW m \in Mergers, Begin(m) PROVE Types'
  <2>1. CASE Goes(m, "refused")
    BY <1>1, <2>1 DEF Begin
  <2>2. ASSUME ~Goes(m, "refused") PROVE Types'
    <3> DEFINE place == IF adapter = "github" THEN "checks" ELSE "base"
    <3>1. place \in Places /\ m \in Hashes
      BY DEF Hashes
    <3>2. merger' = [merger EXCEPT ![m].hash = m, ![m].at = place]
      BY <1>1, <2>2 DEF Begin
    <3> HIDE DEF place
    <3>3. merger' \in [Mergers -> Mergings]
      BY <3>1, <3>2
    <3>4. QED
      BY <1>1, <3>3 DEF Begin
  <2>3. QED
    BY <2>1, <2>2
<1>2. ASSUME NEW m \in Mergers, ReadBase(m) PROVE Types'
  BY <1>2 DEF ReadBase
<1>3. ASSUME NEW m \in Mergers, LookForCheckouts(m) PROVE Types'
  <2>1. merger' \in [Mergers -> Mergings]
    BY <1>3, GoesTyped DEF LookForCheckouts
  <2>2. QED
    BY <1>3, <2>1 DEF LookForCheckouts
<1>4. ASSUME NEW m \in Mergers, Check(m) PROVE Types'
  <2>1. CASE Goes(m, "refused")
    BY <1>4, <2>1 DEF Check
  <2>2. ASSUME ~Goes(m, "refused") PROVE Types'
    <3> DEFINE place == IF adapter = "github" THEN "target" ELSE "merge"
    <3>1. place \in Places /\ Tip(m) \in SUBSET Changes
      BY DEF Tip
    <3>2. merger' = [merger EXCEPT ![m].seen = Tip(m), ![m].at = place]
      BY <1>4, <2>2 DEF Check
    <3> HIDE DEF place
    <3>3. merger' \in [Mergers -> Mergings]
      BY <3>1, <3>2
    <3>4. QED
      BY <1>4, <3>3 DEF Check
  <2>3. QED
    BY <2>1, <2>2
<1>5. ASSUME NEW m \in Mergers, MergeInWorktree(m) PROVE Types'
  <2>1. MergeOf(m, merger[m].old) \in Seq(Commits)
    BY MergeTyped
  <2>2. CASE Goes(m, "refused")
    BY <1>5, <2>2 DEF MergeInWorktree
  <2>3. CASE merger' = [merger EXCEPT ![m].new = MergeOf(m, merger[m].old), ![m].at = "update"]
    BY <1>5, <2>1, <2>3 DEF MergeInWorktree
  <2>4. QED
    BY <1>5, <2>2, <2>3 DEF MergeInWorktree
<1>6. ASSUME NEW m \in Mergers, UpdateRef(m) PROVE Types'
  <2>1. merger' \in [Mergers -> Mergings]
    BY <1>6, GoesTyped DEF UpdateRef
  <2>2. base' \in Seq(Commits) /\ landed' \in [Tasks -> Hashes]
    BY <1>6 DEF UpdateRef, Lands, Hashes
  <2>3. QED
    BY <1>6, <2>1, <2>2 DEF UpdateRef
<1>7. ASSUME NEW m \in Mergers, ReadTarget(m) PROVE Types'
  <2>1. merger' \in [Mergers -> Mergings]
    BY <1>7, GoesTyped DEF ReadTarget
  <2>2. QED
    BY <1>7, <2>1 DEF ReadTarget
<1>8. ASSUME NEW m \in Mergers, MergeOnForge(m) PROVE Types'
  <2>1. MergeOf(m, base) \in Seq(Commits)
    BY MergeTyped
  <2>2. base' \in Seq(Commits)
    BY <1>8, <2>1 DEF MergeOnForge
  <2>3. merger' \in [Mergers -> Mergings]
    BY <1>8, GoesTyped DEF MergeOnForge
  <2>4. landed' \in [Tasks -> Hashes]
    BY <1>8 DEF MergeOnForge, Lands, Hashes
  <2>5. QED
    BY <1>8, <2>2, <2>3, <2>4 DEF MergeOnForge
<1>9. ASSUME NEW m \in Mergers, Die(m) PROVE Types'
  BY <1>9 DEF Die
<1>10. ASSUME NEW t \in Tasks, Push(t) PROVE Types'
  BY <1>10 DEF Push, Moves
<1>11. ASSUME NEW t \in Tasks, Retarget(t) PROVE Types'
  BY <1>11 DEF Retarget, Moves
<1>12. CASE CommitToBase
  <2>1. PICK c \in Changes : base' = Append(base, Commit({c}, NoRun))
    BY <1>12 DEF CommitToBase
  <2>2. Commit({c}, NoRun) \in Commits
    BY DEF Commit, Commits, NoRun, Hashes
  <2>3. QED
    BY <1>12, <2>1, <2>2 DEF CommitToBase
<1>13. CASE CheckOut
  BY <1>13 DEF CheckOut
<1>14. CASE UNCHANGED vars
  BY <1>14 DEF vars
<1>15. QED
  BY <1>1, <1>2, <1>3, <1>4, <1>5, <1>6, <1>7, <1>8, <1>9, <1>10, <1>11, <1>12, <1>13,
     <1>14 DEF Next

-----------------------------------------------------------------------------
(* The base moves forward.                                                 *)

LEMMA PrefixOfAppend ==
  ASSUME NEW S, NEW s \in Seq(S), NEW e
  PROVE  IsPrefix(s, Append(s, e)) /\ IsPrefix(s, s)
BY DEF IsPrefix

LEMMA MergeGrows ==
  ASSUME NEW m \in Mergers, NEW commits \in Seq(Commits)
  PROVE  IsPrefix(commits, MergeOf(m, commits))
BY PrefixOfAppend DEF MergeOf

LEMMA ByAppend ==
  ASSUME Types, NEW c \in Commits, base' = Append(base, c), NEW m
  PROVE  By(m)' = By(m) \cup (IF c.run.hash = m THEN {Len(base) + 1} ELSE {})
BY DEF By, Types

LEMMA ContentAppend ==
  ASSUME NEW s \in Seq(Commits), NEW c \in Commits
  PROVE  Content(Append(s, c)) = Content(s) \cup c.adds
<1> DEFINE t == Append(s, c)
<1>1. DOMAIN t = DOMAIN s \cup {Len(s) + 1} /\ t[Len(s) + 1] = c
  OBVIOUS
<1>2. \A i \in DOMAIN s : t[i] = s[i]
  OBVIOUS
<1> HIDE DEF t
<1>3. Content(t) = Content(s) \cup c.adds
  BY <1>1, <1>2 DEF Content
<1>4. QED
  BY <1>3 DEF t

-----------------------------------------------------------------------------
(* A process that has begun and was not refused then has the hash of its   *)
(* log.                                                                    *)
Hashed ==
  \A m \in Mergers :
    /\ merger[m].hash \in {m, NoHash}
    /\ merger[m].at \notin {"idle", "refused"} => merger[m].hash = m

(* Unless the branch moved, what is about to be merged is what passed.     *)
Fresh ==
  \A m \in Mergers \ late : merger[m].at \in {"target", "merge"} =>
    /\ Tip(m) = merger[m].seen /\ merger[m].seen \cap Broken = {}
    /\ merger[m].at = "merge" /\ adapter = "github" => TaskOf[m] \in target

(* What a local merge has in hand is a merge of its own on the base read.  *)
Prepared ==
  \A m \in Mergers : merger[m].at = "update" =>
    /\ \/ merger[m].new = merger[m].old
       \/ \E adds \in SUBSET Changes :
            /\ merger[m].new = Append(merger[m].old, Commit(adds, Trailer(m)))
            /\ m \notin late => adds \subseteq merger[m].seen \ Broken
    /\ m \notin late => merger[m].seen \subseteq Content(merger[m].new)

(* The merge of a process was asked for and answered, rightly or not.      *)
Answered == {"ok", "failed"}

(* The base holds at most one merge of a process, of one that was answered.*)
Reported ==
  \A m \in Mergers :
    /\ \A i, j \in By(m) : i = j
    /\ By(m) # {} => merger[m].at \in Answered

-----------------------------------------------------------------------------
(* What the steps of a process that change more than its place do to it.   *)
Only(m) == \A n \in Mergers \ {m} : merger'[n] = merger[n]

LEMMA GoesMoves ==
  ASSUME Types, NEW m \in Mergers, NEW place \in Places, Goes(m, place)
  PROVE  /\ Only(m)
         /\ merger'[m].at = place
         /\ merger'[m].hash = merger[m].hash /\ merger'[m].old = merger[m].old
         /\ merger'[m].seen = merger[m].seen /\ merger'[m].new = merger[m].new
BY DEF Types, Mergings, Only

LEMMA BeginMoves ==
  ASSUME Types, NEW m \in Mergers, Begin(m)
  PROVE  /\ Only(m)
         /\ \/ merger'[m].at = "refused" /\ merger'[m].hash = merger[m].hash
            \/ merger'[m].at \in {"checks", "base"} /\ merger'[m].hash = m
<1>1. CASE Goes(m, "refused")
  BY <1>1, GoesMoves, PlaceNames
<1>2. ASSUME ~Goes(m, "refused") PROVE /\ Only(m)
                                       /\ merger'[m].at \in {"checks", "base"}
                                       /\ merger'[m].hash = m
  <2> DEFINE place == IF adapter = "github" THEN "checks" ELSE "base"
  <2>1. merger' = [merger EXCEPT ![m].hash = m, ![m].at = place]
    BY <1>2 DEF Begin
  <2>2. place \in {"checks", "base"}
    OBVIOUS
  <2> HIDE DEF place
  <2>3. Only(m) /\ merger'[m].at = place /\ merger'[m].hash = m
    BY <2>1 DEF Types, Mergings, Only
  <2>4. QED
    BY <2>2, <2>3
<1>3. QED
  BY <1>1, <1>2

LEMMA ReadBaseMoves ==
  ASSUME Types, NEW m \in Mergers, ReadBase(m)
  PROVE  Only(m) /\ merger'[m].at = "worktrees" /\ merger'[m].hash = merger[m].hash
BY DEF ReadBase, Types, Mergings, Only

LEMMA CheckMoves ==
  ASSUME Types, NEW m \in Mergers, Check(m)
  PROVE  /\ Only(m)
         /\ merger'[m].hash = merger[m].hash
         /\ \/ merger'[m].at = "refused"
            \/ /\ Tip(m) \cap Broken = {} /\ merger'[m].seen = Tip(m)
               /\ merger'[m].at = IF adapter = "github" THEN "target" ELSE "merge"
<1>1. CASE Goes(m, "refused")
  BY <1>1, GoesMoves, PlaceNames
<1>2. ASSUME ~Goes(m, "refused")
      PROVE  /\ Only(m) /\ Tip(m) \cap Broken = {} /\ merger'[m].hash = merger[m].hash
             /\ merger'[m].seen = Tip(m)
             /\ merger'[m].at = IF adapter = "github" THEN "target" ELSE "merge"
  <2> DEFINE place == IF adapter = "github" THEN "target" ELSE "merge"
             tip == Tip(m)
  <2>1. merger' = [merger EXCEPT ![m].seen = tip, ![m].at = place] /\ tip \cap Broken = {}
    BY <1>2 DEF Check
  <2> HIDE DEF place, tip
  <2>2. Only(m) /\ merger'[m].at = place /\ merger'[m].seen = tip
        /\ merger'[m].hash = merger[m].hash
    BY <2>1 DEF Types, Mergings, Only
  <2>3. QED
    BY <2>1, <2>2 DEF place, tip
<1>3. QED
  BY <1>1, <1>2

LEMMA WorktreeMoves ==
  ASSUME Types, NEW m \in Mergers, MergeInWorktree(m)
  PROVE  /\ Only(m)
         /\ merger'[m].hash = merger[m].hash /\ merger'[m].old = merger[m].old
         /\ merger'[m].seen = merger[m].seen
         /\ \/ merger'[m].at = "refused"
            \/ merger'[m].at = "update" /\ merger'[m].new = MergeOf(m, merger[m].old)
<1>1. CASE Goes(m, "refused")
  BY <1>1, GoesMoves, PlaceNames
<1>2. ASSUME ~Goes(m, "refused")
      PROVE  /\ Only(m)
             /\ merger'[m].hash = merger[m].hash /\ merger'[m].old = merger[m].old
             /\ merger'[m].seen = merger[m].seen
             /\ merger'[m].at = "update" /\ merger'[m].new = MergeOf(m, merger[m].old)
  <2> DEFINE new == MergeOf(m, merger[m].old)
  <2>1. merger' = [merger EXCEPT ![m].new = new, ![m].at = "update"]
    BY <1>2 DEF MergeInWorktree
  <2> HIDE DEF new
  <2>2. /\ Only(m)
        /\ merger'[m].hash = merger[m].hash /\ merger'[m].old = merger[m].old
        /\ merger'[m].seen = merger[m].seen
        /\ merger'[m].at = "update" /\ merger'[m].new = new
    BY <2>1 DEF Types, Mergings, Only
  <2>3. QED
    BY <2>2 DEF new
<1>3. QED
  BY <1>1, <1>2

-----------------------------------------------------------------------------
LEMMA HashedStep == Types /\ Hashed /\ [Next]_vars => Hashed'
<1> SUFFICES ASSUME Types, Hashed, [Next]_vars PROVE Hashed'
  OBVIOUS
<1> USE PlaceNames DEF Hashed, Ended
<1>1. ASSUME NEW m \in Mergers, Begin(m) PROVE Hashed'
  BY <1>1, BeginMoves DEF Only, Begin
<1>2. ASSUME NEW m \in Mergers, ReadBase(m) PROVE Hashed'
  <2>1. merger[m].at = "base"
    BY <1>2 DEF ReadBase
  <2>2. QED
    BY <1>2, <2>1, ReadBaseMoves DEF Only
<1>3. ASSUME NEW m \in Mergers, Check(m) PROVE Hashed'
  BY <1>3, CheckMoves DEF Only, Check
<1>4. ASSUME NEW m \in Mergers, MergeInWorktree(m) PROVE Hashed'
  BY <1>4, WorktreeMoves DEF Only, MergeInWorktree
<1>5. ASSUME NEW m \in Mergers, NEW place \in Places, Goes(m, place),
             merger[m].at \notin {"idle", "refused"} PROVE Hashed'
  BY <1>5, GoesMoves DEF Only
<1>6. ASSUME NEW m \in Mergers,
             LookForCheckouts(m) \/ UpdateRef(m) \/ ReadTarget(m) \/ MergeOnForge(m) \/ Die(m)
      PROVE  Hashed'
  BY <1>5, <1>6 DEF LookForCheckouts, UpdateRef, ReadTarget, MergeOnForge, Die
<1>7. CASE UNCHANGED merger
  BY <1>7
<1>8. QED
  BY <1>1, <1>2, <1>3, <1>4, <1>6, <1>7
  DEF Next, vars, Push, Retarget, CommitToBase, CheckOut

LEMMA FreshStep == Types /\ Fresh /\ [Next]_vars => Fresh'
<1> SUFFICES ASSUME Types, Fresh, [Next]_vars PROVE Fresh'
  OBVIOUS
<1> USE PlaceNames, TaskOfMerger DEF Fresh
<1>1. ASSUME NEW m \in Mergers, Begin(m) PROVE Fresh'
  BY <1>1, BeginMoves DEF Only, Begin, Tip
<1>2. ASSUME NEW m \in Mergers, ReadBase(m) PROVE Fresh'
  BY <1>2, ReadBaseMoves DEF Only, ReadBase, Tip
<1>3. ASSUME NEW m \in Mergers, Check(m) PROVE Fresh'
  BY <1>3, CheckMoves DEF Only, Check, Tip
<1>4. ASSUME NEW m \in Mergers, MergeInWorktree(m) PROVE Fresh'
  BY <1>4, WorktreeMoves DEF Only, MergeInWorktree, Tip
<1>5. ASSUME NEW m \in Mergers, NEW place \in Places, Goes(m, place),
             UNCHANGED <<adapter, branch, target, late>>,
             place \notin {"target", "merge"} PROVE Fresh'
  BY <1>5, GoesMoves DEF Only, Tip
<1>6. ASSUME NEW m \in Mergers,
             LookForCheckouts(m) \/ UpdateRef(m) \/ MergeOnForge(m) \/ Die(m)
      PROVE  Fresh'
  BY <1>5, <1>6 DEF LookForCheckouts, UpdateRef, MergeOnForge, Die
<1>7. ASSUME NEW m \in Mergers, ReadTarget(m) PROVE Fresh'
  <2>1. CASE Goes(m, "refused")
    BY <1>5, <1>7, <2>1 DEF ReadTarget
  <2>2. CASE TaskOf[m] \in target /\ Goes(m, "merge")
    BY <1>7, <2>2, GoesMoves DEF ReadTarget, Only, Tip
  <2>3. QED
    BY <1>7, <2>1, <2>2 DEF ReadTarget
<1>8. ASSUME NEW t \in Tasks, Push(t) PROVE Fresh'
  BY <1>8 DEF Push, Moves, Tip, Types
<1>9. ASSUME NEW t \in Tasks, Retarget(t) PROVE Fresh'
  BY <1>9 DEF Retarget, Moves, Tip, Types
<1>10. CASE UNCHANGED <<adapter, branch, target, merger, late>>
  BY <1>10 DEF Tip
<1>11. QED
  BY <1>1, <1>2, <1>3, <1>4, <1>6, <1>7, <1>8, <1>9, <1>10
  DEF Next, vars, CommitToBase, CheckOut

LEMMA PreparedStep == Types /\ Types' /\ Fresh /\ Prepared /\ [Next]_vars => Prepared'
<1> SUFFICES ASSUME Types, Types', Fresh, Prepared, [Next]_vars PROVE Prepared'
  OBVIOUS
<1> DEFINE At(m) ==
      /\ \/ merger[m].new = merger[m].old
         \/ \E adds \in SUBSET Changes :
              /\ merger[m].new = Append(merger[m].old, Commit(adds, Trailer(m)))
              /\ m \notin late => adds \subseteq merger[m].seen \ Broken
      /\ m \notin late => merger[m].seen \subseteq Content(merger[m].new)
<1>1. ASSUME NEW m \in Mergers, merger'[m] = merger[m], late \subseteq late',
             merger[m].at = "update"
      PROVE  At(m)'
  BY <1>1 DEF Prepared, Trailer
<1>2. ASSUME NEW m \in Mergers, Only(m), merger'[m].at # "update", late \subseteq late'
      PROVE  Prepared'
  BY <1>1, <1>2 DEF Prepared, Only
<1>3. ASSUME NEW m \in Mergers, NEW place \in Places, Goes(m, place), place # "update",
             UNCHANGED late
      PROVE  Prepared'
  <2>1. Only(m) /\ merger'[m].at = place
    BY <1>3, GoesMoves
  <2>2. QED
    BY <1>2, <1>3, <2>1
<1>4. ASSUME NEW m \in Mergers,
             \/ LookForCheckouts(m) \/ UpdateRef(m) \/ ReadTarget(m) \/ MergeOnForge(m)
             \/ Die(m)
      PROVE  Prepared'
  BY <1>3, <1>4, PlaceNames DEF LookForCheckouts, UpdateRef, ReadTarget, MergeOnForge, Die
<1>5. ASSUME NEW m \in Mergers, Begin(m) PROVE Prepared'
  BY <1>2, <1>5, BeginMoves DEF Begin
<1>6. ASSUME NEW m \in Mergers, ReadBase(m) PROVE Prepared'
  BY <1>2, <1>6, ReadBaseMoves DEF ReadBase
<1>7. ASSUME NEW m \in Mergers, Check(m) PROVE Prepared'
  BY <1>2, <1>7, CheckMoves DEF Check
<1>8. ASSUME NEW m \in Mergers, MergeInWorktree(m) PROVE Prepared'
  <2>1. Only(m) /\ late' = late /\ merger[m].at = "merge"
    BY <1>8, WorktreeMoves DEF MergeInWorktree
  <2>2. CASE merger'[m].at = "refused"
    BY <1>2, <2>1, <2>2
  <2>3. CASE merger'[m].at = "update" /\ merger'[m].new = MergeOf(m, merger[m].old)
    <3> DEFINE old == merger[m].old  seen == merger[m].seen  tip == Tip(m)
               adds == Tip(m) \ Content(merger[m].old)
    <3>1. merger'[m].old = old /\ merger'[m].seen = seen /\ merger'[m].hash = merger[m].hash
      BY <1>8, WorktreeMoves
    <3>2. old \in Seq(Commits) /\ tip \in SUBSET Changes
      BY TaskOfMerger DEF Types, Mergings, Tip
    <3>3. m \notin late => tip = seen /\ seen \cap Broken = {}
      BY <2>1 DEF Fresh
    <3>4. CASE tip \subseteq Content(old)
      <4>1. merger'[m].new = old
        BY <2>3, <3>4 DEF MergeOf
      <4>2. At(m)'
        BY <2>1, <3>1, <3>3, <3>4, <4>1
      <4>3. QED
        BY <1>1, <2>1, <4>2 DEF Prepared, Only
    <3>5. CASE ~(tip \subseteq Content(old))
      <4> DEFINE c == Commit(adds, Trailer(m))
      <4>1. merger'[m].new = Append(old, c)
        BY <2>3, <3>5 DEF MergeOf
      <4>2. c \in Commits /\ c.adds = adds
        BY <3>2, TaskOfMerger DEF Commits, Commit, Trailer, Types, Mergings
      <4>3. Content(Append(old, c)) = Content(old) \cup adds
        BY <3>2, <4>2, ContentAppend
      <4>4. Trailer(m)' = Trailer(m)
        BY <3>1 DEF Trailer
      <4>5. adds \in SUBSET Changes
        BY <3>2
      <4>6. m \notin late => adds \subseteq seen \ Broken /\ seen \subseteq Content(Append(old, c))
        BY <3>3, <4>3
      <4> HIDE DEF adds, old, seen, tip
      <4>7. At(m)'
        BY <2>1, <3>1, <4>1, <4>4, <4>5, <4>6
      <4>8. QED
        BY <1>1, <2>1, <4>7 DEF Prepared, Only
    <3>6. QED
      BY <3>4, <3>5
  <2>4. QED
    BY <1>8, <2>2, <2>3, WorktreeMoves
<1>9. CASE merger' = merger /\ late \subseteq late'
  BY <1>1, <1>9 DEF Prepared
<1>10. QED
  BY <1>4, <1>5, <1>6, <1>7, <1>8, <1>9
  DEF Next, vars, Push, Retarget, CommitToBase, CheckOut, Moves

-----------------------------------------------------------------------------
(* Three kinds of step: most leave the base alone, a person commits to it, *)
(* a process puts its merge there.                                         *)
LeavesBase ==
  /\ UNCHANGED <<base, landed>> /\ late \subseteq late'
  /\ \A n \in Mergers :
       /\ merger[n].at \in Answered => merger'[n] = merger[n]
       /\ merger'[n].at = "ok" /\ n \notin late => merger'[n].seen \subseteq Content(base)

CommitsTo(c) ==
  c \in Changes /\ base' = Append(base, Commit({c}, NoRun)) /\ UNCHANGED <<merger, late, landed>>

LandsOn(m, adds) ==
  /\ base' = Append(base, Commit(adds, Trailer(m))) /\ merger[m].hash = m
  /\ merger[m].at \notin Ended
  /\ Only(m) /\ merger'[m].at \in Answered /\ merger'[m].seen = merger[m].seen
  /\ late' = late /\ landed' = [landed EXCEPT ![TaskOf[m]] = m]
  /\ m \notin late => /\ adds \subseteq merger[m].seen \ Broken
                      /\ merger[m].seen \subseteq Content(base')

(* Every process that reported a merge the base holds all of it.           *)
Whole ==
  \A m \in Mergers \ late : merger[m].at = "ok" => merger[m].seen \subseteq Content(base)

LEMMA LandsByHash ==
  ASSUME Types, NEW m \in Mergers, NEW adds \in SUBSET Changes, merger[m].hash = m,
         base' = Append(base, Commit(adds, Trailer(m))), Lands(m, base')
  PROVE  landed' = [landed EXCEPT ![TaskOf[m]] = m]
<1>1. base'[Len(base) + 1] = Commit(adds, Trailer(m)) /\ Len(base) + 1 \in DOMAIN base'
  BY DEF Types
<1>2. base'[Len(base) + 1].run.hash = m
  BY <1>1 DEF Commit, Trailer
<1>3. QED
  BY <1>1, <1>2 DEF Lands

LEMMA LandsNothing ==
  ASSUME Types, Reported, NEW m \in Mergers, merger[m].at \notin Answered, base' = base,
         Lands(m, base')
  PROVE  landed' = landed
BY DEF Lands, Reported, By, Types

LEMMA StepKinds ==
  ASSUME Types, Hashed, Fresh, Prepared, Reported, Whole, [Next]_vars
  PROVE  \/ LeavesBase
         \/ \E c \in Changes : CommitsTo(c)
         \/ \E m \in Mergers, adds \in SUBSET Changes : LandsOn(m, adds)
<1> DEFINE Kinds == \/ LeavesBase
                    \/ \E c \in Changes : CommitsTo(c)
                    \/ \E m \in Mergers, adds \in SUBSET Changes : LandsOn(m, adds)
<1> USE DEF Answered
<1>1. ASSUME NEW m \in Mergers, Only(m), merger[m].at \notin Answered, late' = late,
             UNCHANGED <<base, landed>>,
             merger'[m].at = "ok" /\ m \notin late => merger'[m].seen \subseteq Content(base)
      PROVE  LeavesBase
  <2>1. ASSUME NEW n \in Mergers, n # m
        PROVE  /\ merger[n].at \in Answered => merger'[n] = merger[n]
               /\ merger'[n].at = "ok" /\ n \notin late => merger'[n].seen \subseteq Content(base)
    BY <1>1, <2>1 DEF Only, Whole
  <2>2. QED
    BY <1>1, <2>1 DEF LeavesBase
<1>2. ASSUME NEW m \in Mergers, merger[m].at \notin Answered,
             Goes(m, "refused") \/ Goes(m, "failed") \/ Goes(m, "dead"),
             UNCHANGED <<base, landed, late>>
      PROVE  LeavesBase
  <2>1. Only(m) /\ merger'[m].at # "ok"
    BY <1>2, GoesMoves, PlaceNames
  <2>2. QED
    BY <1>1, <1>2, <2>1
<1>3. ASSUME NEW m \in Mergers, Begin(m) PROVE LeavesBase
  BY <1>1, <1>3, BeginMoves DEF Begin
<1>4. ASSUME NEW m \in Mergers, ReadBase(m) PROVE LeavesBase
  BY <1>1, <1>4, ReadBaseMoves DEF ReadBase
<1>5. ASSUME NEW m \in Mergers, Check(m) PROVE LeavesBase
  BY <1>1, <1>5, CheckMoves DEF Check
<1>6. ASSUME NEW m \in Mergers, MergeInWorktree(m) PROVE LeavesBase
  BY <1>1, <1>6, WorktreeMoves DEF MergeInWorktree
<1>7. ASSUME NEW m \in Mergers, LookForCheckouts(m) \/ ReadTarget(m) PROVE LeavesBase
  <2>1. PICK place \in {"refused", "checks", "merge"} : Goes(m, place)
    BY <1>7 DEF LookForCheckouts, ReadTarget
  <2>2. place \in Places
    BY <2>1, PlaceNames
  <2>3. Only(m) /\ merger'[m].at # "ok"
    BY <2>1, <2>2, GoesMoves
  <2>4. QED
    BY <1>1, <1>7, <2>3 DEF LookForCheckouts, ReadTarget
<1>8. ASSUME NEW m \in Mergers, Die(m) PROVE LeavesBase
  BY <1>2, <1>8 DEF Die, Ended
<1>9. ASSUME NEW m \in Mergers, UpdateRef(m) PROVE Kinds
  <2>1. merger[m].at = "update" /\ late' = late /\ merger[m].hash = m
    BY <1>9 DEF UpdateRef, Hashed
  <2>2. CASE base # merger[m].old
    <3>1. LeavesBase
      BY <1>2, <1>9, <2>1, <2>2 DEF UpdateRef
    <3>2. QED
      BY <3>1
  <2>3. CASE base = merger[m].old
    <3>1. base' = merger[m].new /\ Lands(m, base') /\ Goes(m, "ok")
      BY <1>9, <2>3 DEF UpdateRef
    <3>2. Only(m) /\ merger'[m].at = "ok" /\ merger'[m].seen = merger[m].seen
      BY <3>1, GoesMoves, PlaceNames
    <3>3. CASE merger[m].new = merger[m].old
      <4>1. base' = base /\ landed' = landed
        BY <2>1, <2>3, <3>1, <3>3, LandsNothing
      <4>2. m \notin late => merger'[m].seen \subseteq Content(base)
        BY <2>1, <2>3, <3>2, <3>3 DEF Prepared
      <4>3. LeavesBase
        BY <1>1, <2>1, <3>2, <4>1, <4>2
      <4>4. QED
        BY <4>3
    <3>4. ASSUME NEW adds \in SUBSET Changes,
                 merger[m].new = Append(merger[m].old, Commit(adds, Trailer(m))),
                 m \notin late => adds \subseteq merger[m].seen \ Broken
          PROVE  LandsOn(m, adds)
      <4>1. base' = Append(base, Commit(adds, Trailer(m)))
        BY <2>3, <3>1, <3>4
      <4>2. landed' = [landed EXCEPT ![TaskOf[m]] = m]
        BY <2>1, <3>1, <4>1, LandsByHash
      <4>3. m \notin late => merger[m].seen \subseteq Content(base')
        BY <2>1, <3>1 DEF Prepared
      <4>4. QED
        BY <2>1, <3>2, <3>4, <4>1, <4>2, <4>3 DEF LandsOn, Ended
    <3>5. QED
      BY <2>1, <3>3, <3>4 DEF Prepared
  <2>4. QED
    BY <2>2, <2>3
<1>10. ASSUME NEW m \in Mergers, MergeOnForge(m) PROVE Kinds
  <2>1. merger[m].at = "merge" /\ adapter = "github" /\ late' = late /\ merger[m].hash = m
    BY <1>10 DEF MergeOnForge, Hashed
  <2>2. CASE Goes(m, "failed") /\ UNCHANGED <<base, landed>>
    <3>1. LeavesBase
      BY <1>2, <2>1, <2>2
    <3>2. QED
      BY <3>1
  <2>3. CASE /\ base' = IF TaskOf[m] \in target THEN MergeOf(m, base) ELSE base
             /\ Lands(m, base') /\ (Goes(m, "ok") \/ Goes(m, "failed"))
    <3>1. Only(m) /\ merger'[m].at \in Answered /\ merger'[m].seen = merger[m].seen
      BY <2>3, GoesMoves, PlaceNames
    <3>2. m \notin late => /\ Tip(m) = merger[m].seen /\ merger[m].seen \cap Broken = {}
                           /\ TaskOf[m] \in target
      BY <2>1 DEF Fresh
    <3>3. Tip(m) \in SUBSET Changes
      BY TaskOfMerger DEF Types, Tip
    <3>4. CASE TaskOf[m] \notin target \/ Tip(m) \subseteq Content(base)
      <4>1. base' = base
        BY <2>3, <3>4 DEF MergeOf
      <4>2. landed' = landed
        BY <2>1, <2>3, <4>1, LandsNothing
      <4>3. m \notin late => merger'[m].seen \subseteq Content(base)
        BY <3>1, <3>2, <3>4
      <4>4. LeavesBase
        BY <1>1, <2>1, <3>1, <4>1, <4>2, <4>3
      <4>5. QED
        BY <4>4
    <3>5. CASE TaskOf[m] \in target /\ ~(Tip(m) \subseteq Content(base))
      <4> DEFINE adds == Tip(m) \ Content(base)
      <4>1. base' = Append(base, Commit(adds, Trailer(m)))
        BY <2>3, <3>5 DEF MergeOf
      <4>2. adds \in SUBSET Changes
        BY <3>3
      <4>3. landed' = [landed EXCEPT ![TaskOf[m]] = m]
        BY <2>1, <2>3, <4>1, <4>2, LandsByHash
      <4>4. Commit(adds, Trailer(m)) \in Commits /\ Commit(adds, Trailer(m)).adds = adds
        BY <4>2, TaskOfMerger DEF Commits, Commit, Trailer, Types, Mergings
      <4>5. Content(base') = Content(base) \cup adds
        BY <4>1, <4>4, ContentAppend DEF Types
      <4>6. m \notin late => /\ adds \subseteq merger[m].seen \ Broken
                             /\ merger[m].seen \subseteq Content(base')
        BY <3>2, <4>5
      <4> HIDE DEF adds
      <4>7. LandsOn(m, adds)
        BY <2>1, <3>1, <4>1, <4>3, <4>6 DEF LandsOn, Ended
      <4>8. QED
        BY <4>2, <4>7
    <3>6. QED
      BY <3>4, <3>5
  <2>4. QED
    BY <1>10, <2>2, <2>3 DEF MergeOnForge
<1>11. ASSUME NEW t \in Tasks, Push(t) \/ Retarget(t) PROVE LeavesBase
  BY <1>11 DEF Push, Retarget, Moves, LeavesBase, Whole
<1>12. CASE CommitToBase
  BY <1>12 DEF CommitToBase, CommitsTo
<1>13. CASE CheckOut \/ UNCHANGED vars
  BY <1>13 DEF CheckOut, vars, LeavesBase, Whole
<1>14. QED
  BY <1>3, <1>4, <1>5, <1>6, <1>7, <1>8, <1>9, <1>10, <1>11, <1>12, <1>13 DEF Next

-----------------------------------------------------------------------------
(* What lands is what passed, of a process whose branch did not move.      *)
Passed ==
  \A m \in Mergers \ late : \A i \in By(m) : base[i].adds \subseteq merger[m].seen \ Broken

(* A commit is a person's or has the hash of a process.                    *)
Hanging ==
  \A i \in DOMAIN base : base[i].run = NoRun \/ base[i].run.hash \in Mergers

(* The newest trailer of a task, if there is one, is its last merge's.     *)
Found ==
  \A t \in Tasks :
    \/ landed[t] = NoHash /\ \A i \in DOMAIN base : base[i].run.task # t
    \/ \E i \in DOMAIN base :
         /\ base[i].run.task = t /\ base[i].run.hash = landed[t]
         /\ \A j \in DOMAIN base : base[j].run.task = t => j <= i

BaseInv == Reported /\ Whole /\ Passed /\ Hanging /\ Found

LEMMA LeftAlone ==
  ASSUME Types, BaseInv, LeavesBase
  PROVE  BaseInv'
<1>1. \A m : By(m)' = By(m)
  BY DEF LeavesBase, By
<1>2. \A m \in Mergers : By(m) # {} => merger'[m] = merger[m] /\ merger[m].at \in Answered
  BY DEF LeavesBase, BaseInv, Reported
<1>3. Reported'
  BY <1>1, <1>2 DEF BaseInv, Reported
<1>4. Whole'
  BY DEF LeavesBase, Whole
<1>5. Passed'
  BY <1>1, <1>2 DEF BaseInv, Passed, LeavesBase
<1>6. Hanging' /\ Found'
  BY DEF BaseInv, Hanging, Found, LeavesBase
<1>7. QED
  BY <1>3, <1>4, <1>5, <1>6 DEF BaseInv

(* A commit of a person has no trailer.                                    *)
LEMMA CommittedTo ==
  ASSUME Types, BaseInv, NEW c \in Changes, CommitsTo(c)
  PROVE  BaseInv'
<1> DEFINE commit == Commit({c}, NoRun)
<1>1. /\ base' = Append(base, commit) /\ commit \in Commits /\ commit.adds = {c}
      /\ commit.run = NoRun /\ NoRun.hash = NoHash /\ NoRun.task = NoHash
  BY DEF CommitsTo, Commit, Commits, NoRun, Hashes
<1> HIDE DEF commit
<1>2. /\ DOMAIN base' = DOMAIN base \cup {Len(base) + 1}
      /\ base'[Len(base) + 1] = commit /\ \A i \in DOMAIN base : base'[i] = base[i]
  BY <1>1 DEF Types
<1>3. \A m \in Mergers : By(m)' = By(m) /\ By(m) \subseteq DOMAIN base
  BY <1>1, <1>2, LandingAssumption DEF By
<1>4. Content(base) \subseteq Content(base')
  BY <1>1, ContentAppend DEF Types
<1>5. UNCHANGED <<merger, late, landed>>
  BY DEF CommitsTo
<1>6. Reported'
  BY <1>3, <1>5 DEF BaseInv, Reported
<1>7. Whole'
  BY <1>4, <1>5 DEF BaseInv, Whole
<1>8. Passed'
  BY <1>2, <1>3, <1>5 DEF BaseInv, Passed
<1>9. Hanging'
  BY <1>1, <1>2 DEF BaseInv, Hanging
<1>10. Found'
  BY <1>1, <1>2, <1>5, LandingAssumption DEF BaseInv, Found
<1>11. QED
  BY <1>6, <1>7, <1>8, <1>9, <1>10 DEF BaseInv

(* A merge is the first of its process and the newest of its task.         *)
LEMMA LandedOn ==
  ASSUME Types, BaseInv, NEW m \in Mergers, NEW adds \in SUBSET Changes, LandsOn(m, adds)
  PROVE  BaseInv'
<1> DEFINE commit == Commit(adds, Trailer(m))
<1>1. /\ base' = Append(base, commit) /\ commit \in Commits /\ commit.adds = adds
      /\ commit.run.hash = m /\ commit.run.task = TaskOf[m]
  BY TaskOfMerger DEF LandsOn, Commit, Commits, Trailer, Types, Mergings, Hashes
<1> HIDE DEF commit
<1>2. /\ DOMAIN base' = DOMAIN base \cup {Len(base) + 1}
      /\ base'[Len(base) + 1] = commit /\ \A i \in DOMAIN base : base'[i] = base[i]
      /\ \A i \in DOMAIN base : i <= Len(base) + 1
  BY <1>1 DEF Types
<1>3. By(m) = {} /\ By(m)' = {Len(base) + 1}
  <2>1. By(m) = {}
    BY DEF BaseInv, Reported, LandsOn, Ended, Answered
  <2>2. QED
    BY <1>1, <1>2, <2>1 DEF By
<1>4. \A n \in Mergers \ {m} : /\ By(n)' = By(n) /\ By(n) \subseteq DOMAIN base
                               /\ merger'[n] = merger[n]
  BY <1>1, <1>2 DEF By, LandsOn, Only
<1>5. Content(base) \subseteq Content(base')
  BY <1>1, ContentAppend DEF Types
<1>6. /\ late' = late /\ merger'[m].at \in Answered /\ merger'[m].seen = merger[m].seen
      /\ m \notin late => /\ adds \subseteq merger[m].seen \ Broken
                          /\ merger[m].seen \subseteq Content(base')
  BY DEF LandsOn
<1>7. Reported'
  BY <1>3, <1>4, <1>6 DEF BaseInv, Reported
<1>8. Whole'
  BY <1>4, <1>5, <1>6 DEF BaseInv, Whole
<1>9. Passed'
  BY <1>1, <1>2, <1>3, <1>4, <1>6 DEF BaseInv, Passed
<1>10. Hanging'
  BY <1>1, <1>2 DEF BaseInv, Hanging
<1>11. Found'
  <2>1. landed'[TaskOf[m]] = m /\ \A t \in Tasks \ {TaskOf[m]} : landed'[t] = landed[t]
    BY TaskOfMerger DEF LandsOn, Types
  <2>2. QED
    BY <1>1, <1>2, <2>1 DEF BaseInv, Found
<1>12. QED
  BY <1>7, <1>8, <1>9, <1>10, <1>11 DEF BaseInv

-----------------------------------------------------------------------------
LandingInv == Types /\ Hashed /\ Fresh /\ Prepared /\ BaseInv

LEMMA LandingInit == Init => LandingInv
<1> SUFFICES ASSUME Init PROVE LandingInv
  OBVIOUS
<1>1. Types
  BY TypesInit
<1>2. base = <<>> /\ \A m : By(m) = {}
  BY DEF Init, By
<1>3. \A m \in Mergers : merger[m].at = "idle" /\ merger[m].hash = NoHash
  BY DEF Init
<1>4. Hashed /\ Fresh /\ Prepared
  BY <1>3 DEF Hashed, Fresh, Prepared
<1>5. BaseInv
  BY <1>2, <1>3 DEF BaseInv, Reported, Whole, Passed, Hanging, Found, Init
<1>6. QED
  BY <1>1, <1>4, <1>5 DEF LandingInv

LEMMA LandingStep == LandingInv /\ [Next]_vars => LandingInv'
<1> SUFFICES ASSUME LandingInv, [Next]_vars PROVE LandingInv'
  OBVIOUS
<1>1. Types' /\ Hashed' /\ Fresh'
  BY TypesStep, HashedStep, FreshStep DEF LandingInv
<1>2. Prepared'
  BY <1>1, PreparedStep DEF LandingInv
<1>3. BaseInv'
  BY StepKinds, LeftAlone, CommittedTo, LandedOn DEF LandingInv, BaseInv
<1>4. QED
  BY <1>1, <1>2, <1>3 DEF LandingInv

(* Types hold, and no process puts two merges on the base (the adapters'   *)
(* merge).                                                                 *)
THEOREM TypesHold == Spec => []TypeOK
<1>1. ASSUME LandingInv PROVE TypeOK
  <2>1. Types /\ Hashed /\ Reported /\ Hanging
    BY <1>1 DEF LandingInv, BaseInv
  <2>2. ASSUME NEW i \in DOMAIN base PROVE base[i].adds \subseteq Changes
    <3>1. base[i] \in Commits
      BY <2>1, <2>2 DEF Types
    <3>2. QED
      BY <3>1 DEF Commits
  <2>3. \A m \in Mergers : merger[m].at \in Places
    BY <2>1 DEF Types, Mergings
  <2>4. QED
    BY <2>1, <2>2, <2>3 DEF TypeOK, Types, Hashed, Reported, Hanging
<1>2. QED
  BY <1>1, LandingInit, LandingStep, PTL DEF Spec

(* No merge moves the base back: the update-ref of vcs-git-local.js takes  *)
(* the base it read, or nothing.                                           *)
THEOREM BaseGrows == Spec => BaseOnlyGrows
<1>1. LandingInv /\ [Next]_vars => [IsPrefix(base, base')]_vars
  <2> SUFFICES ASSUME LandingInv, [Next]_vars PROVE IsPrefix(base, base')
    OBVIOUS
  <2>1. base' = base \/ \E c : base' = Append(base, c)
    BY StepKinds DEF LandingInv, BaseInv, LeavesBase, CommitsTo, LandsOn
  <2>2. QED
    BY <2>1, PrefixOfAppend DEF LandingInv, Types
<1>2. QED
  BY <1>1, LandingInit, LandingStep, PTL DEF Spec, BaseOnlyGrows

(* Every refusal leaves the base without a merge of the process refused:   *)
(* all of vcs-git-local.js, the lost compare-and-swap of update-ref with   *)
(* them, and what vcs-github.js returns before it calls gh pr merge; not   *)
(* what that call reports failed, which may have happened.                 *)
THEOREM RefusalLeavesNothing == Spec => []RefusedLeavesNothing
<1>1. LandingInv => RefusedLeavesNothing
  BY DEF LandingInv, BaseInv, Reported, Answered, RefusedLeavesNothing
<1>2. QED
  BY <1>1, LandingInit, LandingStep, PTL DEF Spec

(* The checks of both adapters bind what they merge, unless the branch or  *)
(* the target moved after them.                                            *)
THEOREM OnlyPassedLands == Spec => []LandsWhatPassed
<1>1. LandingInv => LandsWhatPassed
  BY DEF LandingInv, BaseInv, Passed, Whole, LandsWhatPassed
<1>2. QED
  BY <1>1, LandingInit, LandingStep, PTL DEF Spec

(* The trailer yukl status finds is that of the last merge of the task     *)
(* (status.js findRunHeadTrailer).                                         *)
THEOREM HeadIsFound == Spec => []StatusFindsHead
<1>1. ASSUME LandingInv, NEW t \in Tasks PROVE FindRunHeadTrailer(base, t) = landed[t]
  <2> DEFINE those == {i \in DOMAIN base : base[i].run.task = t}
  <2>1. CASE landed[t] = NoHash /\ \A i \in DOMAIN base : base[i].run.task # t
    BY <2>1 DEF FindRunHeadTrailer
  <2>2. ASSUME NEW i \in DOMAIN base, base[i].run.task = t, base[i].run.hash = landed[t],
               \A j \in DOMAIN base : base[j].run.task = t => j <= i
        PROVE  FindRunHeadTrailer(base, t) = landed[t]
    <3>1. those # {} /\ i \in those /\ \A j \in those : j <= i
      BY <2>2
    <3>2. those \subseteq Nat
      BY <1>1 DEF LandingInv, Types
    <3>3. \A k \in those : (\A j \in those : j <= k) => k = i
      BY <3>1, <3>2
    <3>4. (CHOOSE k \in those : \A j \in those : j <= k) = i
      BY <3>1, <3>3
    <3>5. QED
      BY <2>2, <3>1, <3>4 DEF FindRunHeadTrailer
  <2>3. QED
    BY <1>1, <2>1, <2>2 DEF LandingInv, BaseInv, Found
<1>2. LandingInv => StatusFindsHead
  BY <1>1 DEF StatusFindsHead
<1>3. QED
  BY <1>2, LandingInit, LandingStep, PTL DEF Spec
=============================================================================
