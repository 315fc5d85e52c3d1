------------------------------ MODULE OrcaProofs -------------------------------
(***************************************************************************)
(* The properties of Orca, proved for any dispatches, settings, kinds of   *)
(* commit and bounds.  Three invariants, each resting on the one before:   *)
(* where a worker may run (StartInv), what is judged (JudgeInv) and what a *)
(* verdict is of (VerdictInv).                                             *)
(***************************************************************************)
EXTENDS Orca, WellFoundedInduction, TLAPS

Commits == [tree: Handles \cup {NoHandle}, at: Nat]

Judging == {"enforce", "anchor", "verdict", "complete"}

(* Types of every variable; NoStart for the states of a worker.            *)
TypeOK ==
  /\ given \in Settings
  /\ worker \in [Handles -> Ended \cup {"none", "running"}]
  /\ tree \in [Handles -> Seq(Changes)]
  /\ log \in [starts: Seq(Handles), open: Handles \cup {NoHandle}, starting: BOOLEAN,
              enforced: BOOLEAN, judged: [commit: Commits, verdict: Artefact],
              consumed: SUBSET Commits, done: BOOLEAN, anchor: Commits]
  /\ pc \in Places
  /\ held \in [id: Handles \cup {NoHandle, Leftover}, anchor: Commits]
  /\ hist \in [excused: SUBSET Handles, late: Nat, moved: SUBSET Handles,
               by: Handles \cup {NoHandle}]
  /\ log.open # NoHandle => log.starts # <<>> /\ Last(log.starts) = log.open
  /\ pc \in Judging \cup {"result", "fail"} => log.open # NoHandle

-----------------------------------------------------------------------------
(* The newest commit that touches the artefact.                            *)
LEMMA HasLargest ==
  ASSUME NEW n \in Nat, NEW S \in SUBSET (1..n), S # {}
  PROVE  \E k \in S : \A j \in S : j <= k
<1> DEFINE T == {m \in 0..n : n - m \in S}
<1> DEFINE R == OpToRel(<, Nat)
<1>1. T \subseteq Nat
  OBVIOUS
<1>2. \A j \in S : n - j \in T
  <2> TAKE j \in S
  <2>1. j \in 1..n /\ n - j \in 0..n /\ n - (n - j) = j
    OBVIOUS
  <2>2. QED
    BY <2>1
<1>3. T # {}
  BY <1>2
<1>4. \A x, y \in Nat : <<y, x>> \in R <=> y < x
  BY DEF OpToRel
<1>5. IsWellFoundedOn(R, Nat)
  BY NatLessThanWellFounded
<1> HIDE DEF T, R
<1>6. PICK x \in T : \A y \in T : ~(<<y, x>> \in R)
  BY <1>1, <1>3, <1>5, WFMin, Zenon
<1>7. x \in Nat /\ x <= n /\ n - x \in S
  BY <1>1 DEF T
<1>8. \A j \in S : j <= n - x
  <2> TAKE j \in S
  <2>1. n - j \in T /\ n - j \in Nat /\ j \in Nat
    BY <1>1, <1>2
  <2>2. ~(n - j < x)
    BY <1>4, <1>6, <1>7, <2>1
  <2>3. QED
    BY <1>7, <2>1, <2>2
<1>9. QED
  BY <1>7, <1>8

LEMMA TouchAt ==
  ASSUME NEW h \in Handles, NEW n \in Nat, Touching(h, n) # {}
  PROVE  LastTouch(h, n) \in Touching(h, n) /\ LastTouch(h, n) \in 1..n
<1>1. Touching(h, n) \in SUBSET (1..n)
  BY DEF Touching
<1>2. \E k \in Touching(h, n) : \A j \in Touching(h, n) : j <= k
  BY <1>1, HasLargest
<1>3. QED
  BY <1>1, <1>2 DEF LastTouch

(* An anchor is a commit of the worktree, or what it branched from.        *)
LEMMA AnchorIsCommit ==
  ASSUME NEW h \in Handles, NEW n \in Nat
  PROVE  /\ AnchorAt(h, n) \in Commits
         /\ AnchorAt(h, n) = Origin \/ (AnchorAt(h, n).tree = h /\ AnchorAt(h, n).at \in 1..n)
<1>1. \A k \in 0..n : /\ CommitAt(h, k) \in Commits
                      /\ CommitAt(h, k) = Origin \/ (CommitAt(h, k).tree = h /\ CommitAt(h, k).at \in 1..n)
  BY DEF CommitAt, Origin, Commits
<1>2. Touching(h, n) # {} => LastTouch(h, n) \in 0..n
  BY TouchAt
<1>3. Origin \in Commits /\ n \in 0..n
  BY DEF Origin, Commits
<1>4. QED
  BY <1>1, <1>2, <1>3 DEF AnchorAt

(* What is appended to a worktree changes nothing of what was there.       *)
LEMMA PrefixKept ==
  ASSUME NEW h \in Handles, NEW n \in Nat,
         \A k \in 1..n : tree'[h][k] = tree[h][k]
  PROVE  Touching(h, n)' = Touching(h, n) /\ LastTouch(h, n)' = LastTouch(h, n)
<1>1. Touching(h, n)' = Touching(h, n)
  BY DEF Touching
<1>2. QED
  BY <1>1 DEF LastTouch

-----------------------------------------------------------------------------
(* Types.                                                                  *)
LEMMA TypeInit == Init => TypeOK
BY OrcaAssumption DEF Init, TypeOK, Commits, Origin, NoJudgement, Nothing, Places, Judging, Artefact

LEMMA ResidualNames ==
  ASSUME NEW h \in Handles \cup {NoHandle}, NEW reply \in Replies(h)
  PROVE  ResidualDispatchId(reply) \in {h, NoHandle, Leftover}
<1>1. CASE h = NoHandle
  <2>1. PICK r \in {<<>>, <<Leftover>>} : reply = [id |-> NoHandle, residual |-> r]
    BY <1>1 DEF Replies
  <2>2. CASE r = <<>>
    BY <2>1, <2>2 DEF ResidualDispatchId
  <2>3. CASE r = <<Leftover>>
    <3>1. reply.id = NoHandle /\ reply.residual = <<Leftover>>
      BY <2>1, <2>3
    <3>2. {i \in DOMAIN reply.residual : reply.residual[i] # NoHandle} = {1}
      BY <3>1, OrcaAssumption
    <3>3. QED
      BY <3>1, <3>2 DEF ResidualDispatchId
  <2>4. QED
    BY <2>1, <2>2, <2>3
<1>2. CASE h # NoHandle
  <2>1. /\ reply.id \in {h, NoHandle}
        /\ reply.residual \in {<<>>, <<h>>, <<NoHandle, h>>, <<Leftover, h>>}
    BY <1>2 DEF Replies
  <2>2. CASE reply.id # NoHandle
    BY <2>1, <2>2 DEF ResidualDispatchId
  <2> DEFINE named == {i \in DOMAIN reply.residual : reply.residual[i] # NoHandle}
  <2>3. CASE reply.id = NoHandle /\ reply.residual = <<>>
    BY <2>3 DEF ResidualDispatchId
  <2>4. CASE reply.id = NoHandle /\ reply.residual = <<h>>
    <3>1. named = {1}
      BY <1>2, <2>4
    <3>2. QED
      BY <2>4, <3>1 DEF ResidualDispatchId
  <2>5. CASE reply.id = NoHandle /\ reply.residual = <<NoHandle, h>>
    <3>1. named = {2}
      BY <1>2, <2>5
    <3>2. QED
      BY <2>5, <3>1 DEF ResidualDispatchId
  <2>6. CASE reply.id = NoHandle /\ reply.residual = <<Leftover, h>>
    <3>1. named = {1, 2}
      BY <1>2, <2>6, OrcaAssumption
    <3>2. (CHOOSE i \in named : \A j \in named : i <= j) = 1
      BY <3>1
    <3>3. QED
      BY <2>6, <3>1, <3>2 DEF ResidualDispatchId
  <2>7. QED
    BY <2>1, <2>2, <2>3, <2>4, <2>5, <2>6
<1>3. QED
  BY <1>1, <1>2

LEMMA LastAppended ==
  ASSUME NEW s \in Seq(Handles), NEW h \in Handles
  PROVE  Append(s, h) \in Seq(Handles) /\ Append(s, h) # <<>> /\ Last(Append(s, h)) = h
BY DEF Last

LEMMA NothingTyped ==
  Nothing \in [id: Handles \cup {NoHandle, Leftover}, anchor: Commits] /\ Origin \in Commits
BY DEF Nothing, Origin, Commits

LEMMA TypeStart ==
  ASSUME TypeOK, StartStep, pc = "record" => held.id \in Handles
  PROVE  TypeOK'
<1>1. CASE BeginStart
  <2>1. log'.open = NoHandle /\ pc' = "start"
        /\ log' \in [starts: Seq(Handles), open: Handles \cup {NoHandle}, starting: BOOLEAN,
              enforced: BOOLEAN, judged: [commit: Commits, verdict: Artefact],
              consumed: SUBSET Commits, done: BOOLEAN, anchor: Commits]
    BY <1>1 DEF BeginStart, TypeOK
  <2>2. QED
    BY <1>1, <2>1 DEF BeginStart, TypeOK, Places, Judging
<1>9. CASE StartRefused
  BY <1>9 DEF StartRefused, TypeOK, Places, Judging
<1>7. CASE RecordFailedStart
  BY <1>7, NothingTyped DEF RecordFailedStart, Leave, TypeOK, Places, Judging
<1>8. CASE RecordUnknownStart
  BY <1>8, NothingTyped DEF RecordUnknownStart, Leave, TypeOK, Places, Judging
<1>2. CASE StopResidual
  BY <1>2 DEF StopResidual, Stopped, TypeOK, Places, Judging, Ended
<1>3. CASE RecordStarted
  <2>1. log'.judged = NoJudgement
        /\ NoJudgement \in [commit: Commits, verdict: Artefact]
    BY <1>3, NothingTyped DEF RecordStarted, NoJudgement, Artefact, TypeOK
  <2>2. /\ log'.starts = Append(log.starts, held.id) /\ log'.open = held.id
        /\ log.starts \in Seq(Handles) /\ held.id \in Handles
    BY <1>3 DEF RecordStarted, TypeOK
  <2>3. log'.starts \in Seq(Handles) /\ log'.starts # <<>> /\ Last(log'.starts) = log'.open
    BY <2>2, LastAppended
  <2>4. QED
    BY <1>3, <2>1, <2>2, <2>3, NothingTyped DEF RecordStarted, Leave, TypeOK, Places, Judging
<1>4. CASE \E h \in Handles : StartReady(h)
  BY <1>4 DEF StartReady, TypeOK, Places, Judging
<1>5. CASE \E h \in Unmade \cup {NoHandle} : StartFails(h)
  <2>1. PICK h \in Unmade \cup {NoHandle} : StartFails(h)
    BY <1>5
  <2>2. h \in Handles \cup {NoHandle}
    BY DEF Unmade
  <2>3. PICK reply \in Replies(h) :
          LET id == ResidualDispatchId(reply)
          IN /\ held' = [held EXCEPT !.id = id]
             /\ pc' = IF id = NoHandle THEN "throw" ELSE "stop"
             /\ hist' = IF id = NoHandle THEN [hist EXCEPT !.excused = @ \cup ({h} \cap Handles)]
                        ELSE hist
    BY <2>1 DEF StartFails
  <2>4. ResidualDispatchId(reply) \in Handles \cup {NoHandle, Leftover}
    BY <2>2, <2>3, ResidualNames
  <2>5. /\ held' \in [id: Handles \cup {NoHandle, Leftover}, anchor: Commits]
        /\ pc' \in {"throw", "stop"}
        /\ hist' \in [excused: SUBSET Handles, late: Nat, moved: SUBSET Handles,
                      by: Handles \cup {NoHandle}]
    BY <2>3, <2>4 DEF TypeOK
  <2>6. worker' \in [Handles -> Ended \cup {"none", "running"}] /\ UNCHANGED <<given, tree, log>>
    BY <2>1 DEF StartFails, TypeOK
  <2>7. QED
    BY <2>5, <2>6 DEF TypeOK, Places, Judging
<1>6. QED
  BY <1>1, <1>2, <1>3, <1>4, <1>5, <1>7, <1>8, <1>9 DEF StartStep

LEMMA TypePoll == ASSUME TypeOK, PollStep PROVE TypeOK'
<1>1. CASE StatusExited \/ Result
  BY <1>1 DEF StatusExited, Result, Polls, TypeOK, Places, Judging
<1>2. CASE StatusUnverifiable
  BY <1>2 DEF StatusUnverifiable, Polls, TypeOK, Places, Judging
<1>3. CASE RecordFailure
  BY <1>3, NothingTyped DEF RecordFailure, Leave, TypeOK, Places, Judging
<1>4. QED
  BY <1>1, <1>2, <1>3 DEF PollStep

LEMMA StageIsOpen ==
  ASSUME TypeOK, pc \in Judging
  PROVE  /\ StageHandle = log.open /\ StageHandle \in Handles
         /\ tree[StageHandle] \in Seq(Changes) /\ Tip \in Nat
BY DEF TypeOK, StageHandle, Tip

LEMMA TypeJudge == ASSUME TypeOK, JudgeStep PROVE TypeOK'
<1>1. CASE EnforceNoWorkspace \/ EnforceRefuses
  <2>1. Refuse
    BY <1>1 DEF EnforceNoWorkspace, EnforceRefuses
  <2>2. QED
    BY <2>1, NothingTyped DEF Refuse, Leave, TypeOK, Places, Judging
<1>2. CASE EnforcePasses \/ VerdictRecorded
  BY <1>2 DEF EnforcePasses, VerdictRecorded, TypeOK, Places, Judging
<1>3. CASE AnchorNoWorkspace \/ VerdictUnusable
  BY <1>3, NothingTyped DEF AnchorNoWorkspace, VerdictUnusable, Leave, TypeOK, Places, Judging
<1>4. CASE AnchorStage
  <2>1. AnchorAt(StageHandle, Tip) \in Commits
    BY <1>4, StageIsOpen, AnchorIsCommit DEF AnchorStage, Judging
  <2>2. QED
    BY <1>4, <2>1 DEF AnchorStage, TypeOK, Places, Judging
<1>5. CASE VerdictRead
  <2>1. ReadVerdict(held.anchor) \in Verdicts /\ held.anchor \in Commits
    BY <1>5 DEF VerdictRead, TypeOK
  <2>2. QED
    BY <1>5, <2>1 DEF VerdictRead, Artefact, TypeOK, Places, Judging
<1>6. CASE Complete
  BY <1>6, NothingTyped DEF Complete, Leave, TypeOK, Places, Judging
<1>7. QED
  BY <1>1, <1>2, <1>3, <1>4, <1>5, <1>6 DEF JudgeStep

LEMMA TypeOthers == ASSUME TypeOK, Others PROVE TypeOK'
<1>1. CASE Approve
  BY <1>1 DEF Approve, Running, TypeOK, Places, Judging
<1>2. CASE Die
  BY <1>2, NothingTyped DEF Die, Leave, TypeOK, Places, Judging
<1>3. CASE \E h \in Handles, change \in Changes : WorkerCommits(h, change)
  BY <1>3 DEF WorkerCommits, TypeOK
<1>4. CASE \E h \in Handles, change \in Changes : LateCommit(h, change)
  <2>1. PICK h \in Handles, change \in Changes : LateCommit(h, change)
    BY <1>4
  <2>2. hist'.late \in Nat /\ tree' \in [Handles -> Seq(Changes)]
    BY <2>1 DEF LateCommit, TypeOK
  <2>3. hist' \in [excused: SUBSET Handles, late: Nat, moved: SUBSET Handles,
                   by: Handles \cup {NoHandle}]
    BY <2>1, <2>2 DEF LateCommit, TypeOK
  <2>4. QED
    BY <2>1, <2>2, <2>3 DEF LateCommit, TypeOK
<1>5. CASE \E h \in Handles, outcome \in Ended \ {"stopped"} : WorkerEnds(h, outcome)
  BY <1>5 DEF WorkerEnds, TypeOK
<1>6. QED
  BY <1>1, <1>2, <1>3, <1>4, <1>5 DEF Others


-----------------------------------------------------------------------------
(* Where a worker may run, at each place of a step.                        *)
Starting == {"start", "stop", "record", "throw", "doubt"}

StartPlaces ==
  /\ pc \in Starting => log.starting
  /\ log.starting => log.open = NoHandle /\ pc \in Starting \cup {"off"}
  /\ pc = "record" => held.id \in Handles

(* What a step that is starting a worker does not have in hand is excused. *)
InHand ==
  /\ pc \in {"start", "throw"} => Running \subseteq hist.excused
  /\ pc \in {"stop", "record"} /\ held.id \in Handles =>
       Running \subseteq {held.id} \cup hist.excused

Polled ==
  /\ pc = "fail" => (log.open \in Running => log.open \in hist.excused)
  /\ pc \in Judging \cup {"result"} => worker[log.open] \in Ended

StartInv == TypeOK /\ StartPlaces /\ InHand /\ Polled /\ NoWorkerForgotten

LEMMA StartInvInit == Init => StartInv
<1> SUFFICES ASSUME Init PROVE StartInv
  OBVIOUS
<1>1. TypeOK
  BY TypeInit
<1>2. Running = {}
  BY DEF Init, Running
<1>3. QED
  BY <1>1, <1>2 DEF Init, StartInv, StartPlaces, InHand, Polled, NoWorkerForgotten, Starting, Judging

LEMMA StartPlacesStart == ASSUME StartInv, StartStep PROVE StartPlaces'
<1> USE DEF StartInv, StartPlaces, Starting
<1>1. CASE BeginStart \/ StartRefused \/ StopResidual
  BY <1>1 DEF BeginStart, StartRefused, StopResidual, TypeOK
<1>2. CASE RecordStarted
  BY <1>2 DEF RecordStarted, Leave, TypeOK
<1>3. CASE RecordFailedStart
  BY <1>3 DEF RecordFailedStart, Leave, TypeOK
<1>4. CASE RecordUnknownStart
  BY <1>4 DEF RecordUnknownStart, Leave
<1>5. CASE \E h \in Handles : StartReady(h)
  BY <1>5 DEF StartReady, TypeOK
<1>6. CASE \E h \in Unmade \cup {NoHandle} : StartFails(h)
  <2>1. pc' \in {"stop", "throw"} /\ log' = log /\ pc = "start"
    BY <1>6 DEF StartFails
  <2>2. QED
    BY <2>1
<1>7. QED
  BY <1>1, <1>2, <1>3, <1>4, <1>5, <1>6 DEF StartStep

LEMMA StartPlacesRest == ASSUME StartInv, PollStep \/ JudgeStep \/ Others PROVE StartPlaces'
<1> USE DEF StartInv, StartPlaces, Starting
<1>1. CASE PollStep
  BY <1>1 DEF PollStep, StatusExited, StatusUnverifiable, Result, RecordFailure, Polls, Leave, TypeOK
<1>2. CASE EnforceNoWorkspace \/ EnforceRefuses
  <2>1. Refuse
    BY <1>2 DEF EnforceNoWorkspace, EnforceRefuses
  <2>2. QED
    BY <1>2, <2>1 DEF Refuse, Leave, EnforceNoWorkspace, EnforceRefuses, TypeOK
<1>3. CASE EnforcePasses \/ AnchorStage \/ VerdictRecorded
  BY <1>3 DEF EnforcePasses, AnchorStage, VerdictRecorded, TypeOK
<1>4. CASE AnchorNoWorkspace \/ VerdictUnusable
  BY <1>4 DEF AnchorNoWorkspace, VerdictUnusable, Leave
<1>5. CASE VerdictRead
  BY <1>5 DEF VerdictRead, TypeOK
<1>6. CASE Complete
  BY <1>6 DEF Complete, Leave, TypeOK
<1>7. CASE Approve
  BY <1>7 DEF Approve, TypeOK
<1>8. CASE Die
  BY <1>8 DEF Die, Leave
<1>9. CASE \E h \in Handles, change \in Changes : WorkerCommits(h, change) \/ LateCommit(h, change)
  BY <1>9 DEF WorkerCommits, LateCommit
<1>10. CASE \E h \in Handles, outcome \in Ended \ {"stopped"} : WorkerEnds(h, outcome)
  BY <1>10 DEF WorkerEnds
<1>11. QED
  BY <1>1, <1>2, <1>3, <1>4, <1>5, <1>6, <1>7, <1>8, <1>9, <1>10 DEF JudgeStep, Others

(* The steps that make no worker and forget none.                          *)
LEMMA KeptByFewer ==
  ASSUME StartInv, Running' \subseteq Running, log' = log, hist'.excused = hist.excused,
         held' = held, pc' = pc, \A h \in Handles : worker[h] \in Ended => worker'[h] \in Ended
  PROVE  InHand' /\ Polled' /\ NoWorkerForgotten'
BY DEF StartInv, InHand, Polled, NoWorkerForgotten, TypeOK, Judging

LEMMA StartsTold == ASSUME StartInv, StartStep PROVE InHand' /\ Polled' /\ NoWorkerForgotten'
<1> USE DEF StartInv, InHand, Polled, NoWorkerForgotten, StartPlaces, Starting, Judging
<1>1. CASE BeginStart
  <2>1. Running \subseteq hist.excused
    BY <1>1, OrcaAssumption DEF BeginStart, Running
  <2>2. Running' = Running /\ hist' = hist /\ pc' = "start" /\ log'.starting
    BY <1>1 DEF BeginStart, Running, TypeOK
  <2>3. QED
    BY <2>1, <2>2 DEF Running
<1>2. CASE StartRefused
  BY <1>2 DEF StartRefused, Running
<1>3. CASE StopResidual
  <2>1. Running' \subseteq Running /\ (pc' = "throw" => held.id \notin Running')
    BY <1>3 DEF StopResidual, Stopped, Running, TypeOK
  <2>2. QED
    BY <1>3, <2>1 DEF StopResidual
<1>4. CASE RecordStarted
  <2>1. Running' = Running /\ hist' = hist /\ log'.open = held.id /\ pc' = "off" /\ ~log'.starting
    BY <1>4 DEF RecordStarted, Leave, Running, TypeOK
  <2>2. QED
    BY <1>4, <2>1 DEF RecordStarted
<1>5. CASE RecordFailedStart
  <2>1. Running' = Running /\ hist' = hist /\ pc' = "off" /\ ~log'.starting
    BY <1>5 DEF RecordFailedStart, Leave, Running, TypeOK
  <2>2. QED
    BY <1>5, <2>1 DEF RecordFailedStart
<1>6. CASE RecordUnknownStart
  BY <1>6 DEF RecordUnknownStart, Leave, Running
<1>7. CASE \E h \in Handles : StartReady(h)
  <2>1. PICK h \in Handles : StartReady(h)
    BY <1>7
  <2>2. Running' \subseteq Running \cup {h} /\ held'.id = h /\ pc' = "record"
        /\ hist' = hist /\ log' = log
    BY <2>1 DEF StartReady, Running, TypeOK
  <2>3. log.starting
    BY <2>1 DEF StartReady
  <2>4. Running' \subseteq Handles
    BY DEF Running
  <2>5. QED
    BY <2>1, <2>2, <2>3, <2>4 DEF StartReady
<1>8. CASE \E h \in Unmade \cup {NoHandle} : StartFails(h)
  <2>1. PICK h \in Unmade \cup {NoHandle} : StartFails(h)
    BY <1>8
  <2>2. PICK reply \in Replies(h) :
          LET id == ResidualDispatchId(reply)
          IN /\ held' = [held EXCEPT !.id = id]
             /\ pc' = IF id = NoHandle THEN "throw" ELSE "stop"
             /\ hist' = IF id = NoHandle THEN [hist EXCEPT !.excused = @ \cup ({h} \cap Handles)]
                        ELSE hist
    BY <2>1 DEF StartFails
  <2>3. h \in Handles \cup {NoHandle}
    BY DEF Unmade
  <2>4. Running' \subseteq Running \cup ({h} \cap Handles) /\ Running' \subseteq Handles
    BY <2>1, <2>3 DEF StartFails, Running, TypeOK
  <2>5. Running \subseteq hist.excused /\ log.starting /\ log' = log
    BY <2>1 DEF StartFails
  <2>6. CASE ResidualDispatchId(reply) = NoHandle
    <3>1. pc' = "throw" /\ hist'.excused = hist.excused \cup ({h} \cap Handles)
      BY <2>2, <2>6 DEF TypeOK
    <3>2. QED
      BY <2>4, <2>5, <3>1
  <2>7. CASE ResidualDispatchId(reply) # NoHandle
    <3>1. pc' = "stop" /\ hist' = hist /\ held'.id = ResidualDispatchId(reply)
      BY <2>2, <2>7 DEF TypeOK
    <3>2. held'.id \in Handles => held'.id = h
      BY <2>2, <2>3, <3>1, OrcaAssumption, ResidualNames
    <3>3. QED
      BY <2>4, <2>5, <3>1, <3>2
  <2>8. QED
    BY <2>6, <2>7
<1>9. QED
  BY <1>1, <1>2, <1>3, <1>4, <1>5, <1>6, <1>7, <1>8 DEF StartStep

LEMMA RestTold ==
  ASSUME StartInv, PollStep \/ JudgeStep \/ Others
  PROVE  InHand' /\ Polled' /\ NoWorkerForgotten'
<1> USE DEF StartInv, InHand, Polled, NoWorkerForgotten, StartPlaces, Starting, Judging
<1>1. CASE StatusExited
  BY <1>1 DEF StatusExited, Polls, Running, Ended, TypeOK
<1>2. CASE StatusUnverifiable
  <2>1. Running' = Running /\ hist'.excused = hist.excused \cup {log.open} /\ pc' = "fail"
    BY <1>2 DEF StatusUnverifiable, Running, TypeOK
  <2>2. QED
    BY <1>2, <2>1 DEF StatusUnverifiable
<1>3. CASE Result
  BY <1>3 DEF Result, Running, Ended, TypeOK
<1>4. CASE RecordFailure
  <2>1. Running' = Running /\ hist' = hist /\ pc' = "off" /\ ~log'.starting
    BY <1>4 DEF RecordFailure, Leave, Running, TypeOK
  <2>2. QED
    BY <1>4, <2>1 DEF RecordFailure
<1>5. CASE EnforceNoWorkspace \/ EnforceRefuses
  <2>1. Refuse
    BY <1>5 DEF EnforceNoWorkspace, EnforceRefuses
  <2>2. Running' = Running /\ hist' = hist /\ pc' = "off" /\ log'.open = log.open
        /\ log'.starting = log.starting
    BY <2>1 DEF Refuse, Leave, Running, TypeOK
  <2>3. QED
    BY <2>2
<1>6. CASE EnforcePasses
  BY <1>6 DEF EnforcePasses, Running
<1>7. CASE AnchorNoWorkspace \/ VerdictUnusable
  BY <1>7 DEF AnchorNoWorkspace, VerdictUnusable, Leave, Running
<1>8. CASE AnchorStage
  BY <1>8 DEF AnchorStage, Running
<1>9. CASE VerdictRecorded
  BY <1>9 DEF VerdictRecorded, Running, Ended
<1>10. CASE VerdictRead
  <2>1. Running' = Running /\ hist' = hist /\ pc' \in {"complete", "fail"}
        /\ log'.open = log.open /\ log'.starting = log.starting /\ worker' = worker
    BY <1>10 DEF VerdictRead, Running, TypeOK
  <2>2. QED
    BY <1>10, <2>1 DEF VerdictRead, Running, Ended
<1>11. CASE Complete
  <2>1. Running' = Running /\ hist'.excused = hist.excused /\ pc' = "off"
        /\ log'.open = log.open /\ log'.starting = log.starting
    BY <1>11 DEF Complete, Leave, Running, TypeOK
  <2>2. QED
    BY <2>1
<1>12. CASE Approve
  <2>1. Running' = Running /\ hist'.excused = hist.excused \cup Running /\ pc' = "off"
    BY <1>12 DEF Approve, Running, TypeOK
  <2>2. QED
    BY <2>1
<1>13. CASE Die
  BY <1>13 DEF Die, Leave, Running
<1>14. CASE \E h \in Handles, change \in Changes : WorkerCommits(h, change) \/ LateCommit(h, change)
  <2>1. worker' = worker /\ log' = log /\ held' = held /\ pc' = pc /\ hist'.excused = hist.excused
    BY <1>14 DEF WorkerCommits, LateCommit, TypeOK
  <2>2. QED
    BY <2>1, KeptByFewer DEF Running
<1>15. CASE \E h \in Handles, outcome \in Ended \ {"stopped"} : WorkerEnds(h, outcome)
  <2>1. PICK h \in Handles, outcome \in Ended \ {"stopped"} : WorkerEnds(h, outcome)
    BY <1>15
  <2>2. outcome \in Ended /\ outcome # "running" /\ worker[h] = "running"
    BY <2>1 DEF Ended, WorkerEnds, Running
  <2>3. \A g \in Handles : worker'[g] = IF g = h THEN outcome ELSE worker[g]
    BY <2>1 DEF WorkerEnds, TypeOK
  <2>4. Running' \subseteq Running /\ \A g \in Handles : worker[g] \in Ended => worker'[g] \in Ended
    BY <2>2, <2>3 DEF Running
  <2>5. QED
    BY <2>1, <2>4, KeptByFewer DEF WorkerEnds
<1>16. QED
  BY <1>1, <1>2, <1>3, <1>4, <1>5, <1>6, <1>7, <1>8, <1>9, <1>10, <1>11, <1>12, <1>13, <1>14, <1>15
  DEF PollStep, JudgeStep, Others

LEMMA StartInvNext == ASSUME StartInv, [Next]_vars PROVE StartInv'
<1>1. CASE StartStep
  BY <1>1, TypeStart, StartPlacesStart, StartsTold DEF StartInv, StartPlaces
<1>2. CASE PollStep \/ JudgeStep \/ Others
  BY <1>2, TypePoll, TypeJudge, TypeOthers, StartPlacesRest, RestTold DEF StartInv
<1>3. CASE UNCHANGED vars
  BY <1>3 DEF vars, StartInv, TypeOK, StartPlaces, InHand, Polled, NoWorkerForgotten, Running
<1>4. QED
  BY <1>1, <1>2, <1>3 DEF Next

(* No worker is forgotten (orca.js start, stopResidual, status), whatever  *)
(* replies are lost and wherever runs die.                                 *)
THEOREM NoneForgotten == Spec => []NoWorkerForgotten
<1>1. StartInv => NoWorkerForgotten
  BY DEF StartInv
<1>2. QED
  BY <1>1, StartInvInit, StartInvNext, PTL DEF Spec

-----------------------------------------------------------------------------
(* What every step leaves of the worktrees and of a worker that succeeded. *)
Grown(h) ==
  /\ Len(tree[h]) <= Len(tree'[h])
  /\ \A k \in 1..Len(tree[h]) : tree'[h][k] = tree[h][k]

LEMMA AppendGrows ==
  ASSUME TypeOK, NEW h \in Handles, NEW change \in Changes,
         tree' = [tree EXCEPT ![h] = Append(@, change)]
  PROVE  \A g \in Handles : Grown(g) /\ (g # h => tree'[g] = tree[g])
<1> TAKE g \in Handles
<1>1. CASE g = h
  <2>1. tree[h] \in Seq(Changes) /\ tree'[h] = Append(tree[h], change)
    BY DEF TypeOK
  <2>2. QED
    BY <1>1, <2>1 DEF Grown
<1>2. CASE g # h
  <2>1. tree'[g] = tree[g] /\ tree[g] \in Seq(Changes)
    BY <1>2 DEF TypeOK
  <2>2. Len(tree[g]) \in Nat
    BY <2>1
  <2>3. QED
    BY <2>1, <2>2 DEF Grown
<1>3. QED
  BY <1>1, <1>2

(* A worker that succeeded stays so, and only late commits follow its own. *)
Settled(h) ==
  worker[h] = "succeeded" =>
    worker'[h] = "succeeded" /\ (tree'[h] = tree[h] \/ h \in hist'.moved)

Past ==
  /\ given' = given /\ hist.moved \subseteq hist'.moved
  /\ \A h \in Handles : Grown(h) /\ Settled(h)

LEMMA SameTrees ==
  ASSUME TypeOK, given' = given, hist'.moved = hist.moved, tree' = tree,
         \A h \in Handles : worker[h] = "succeeded" => worker'[h] = "succeeded"
  PROVE  Past
<1>1. \A h \in Handles : Grown(h)
  <2> TAKE h \in Handles
  <2>1. Len(tree[h]) \in Nat
    BY DEF TypeOK
  <2>2. QED
    BY <2>1 DEF Grown
<1>2. QED
  BY <1>1 DEF Past, Settled

LEMMA PastStart == ASSUME TypeOK, StartStep PROVE Past
<1>1. given' = given /\ tree' = tree /\ hist'.moved = hist.moved
  <2>1. CASE BeginStart \/ StartRefused \/ StopResidual
    BY <2>1 DEF BeginStart, StartRefused, StopResidual
  <2>2. CASE RecordStarted \/ RecordFailedStart \/ RecordUnknownStart
    BY <2>2 DEF RecordStarted, RecordFailedStart, RecordUnknownStart
  <2>3. CASE \E h \in Handles : StartReady(h)
    BY <2>3 DEF StartReady
  <2>4. CASE \E h \in Unmade \cup {NoHandle} : StartFails(h)
    BY <2>4 DEF StartFails, TypeOK
  <2>5. QED
    BY <2>1, <2>2, <2>3, <2>4 DEF StartStep
<1>2. \A h \in Handles : worker[h] = "succeeded" => worker'[h] = "succeeded"
  <2>1. CASE BeginStart \/ StartRefused \/ RecordStarted \/ RecordFailedStart \/ RecordUnknownStart
    BY <2>1 DEF BeginStart, StartRefused, RecordStarted, RecordFailedStart, RecordUnknownStart
  <2>2. CASE StopResidual
    BY <2>2 DEF StopResidual, Stopped, TypeOK
  <2>3. CASE \E h \in Handles : StartReady(h)
    BY <2>3 DEF StartReady, Unmade, TypeOK
  <2>4. CASE \E h \in Unmade \cup {NoHandle} : StartFails(h)
    <3>1. PICK h \in Unmade \cup {NoHandle} :
            worker' = [g \in Handles |-> IF g = h THEN "running" ELSE worker[g]]
      BY <2>4 DEF StartFails
    <3>2. QED
      BY <3>1, OrcaAssumption DEF Unmade
  <2>5. QED
    BY <2>1, <2>2, <2>3, <2>4 DEF StartStep
<1>3. QED
  BY <1>1, <1>2, SameTrees

LEMMA PastRest == ASSUME TypeOK, PollStep \/ JudgeStep PROVE Past
<1>1. worker' = worker /\ tree' = tree /\ given' = given
  <2>1. CASE PollStep
    BY <2>1 DEF PollStep, StatusExited, StatusUnverifiable, Result, RecordFailure
  <2>2. CASE EnforceNoWorkspace \/ EnforceRefuses \/ EnforcePasses
    BY <2>2 DEF EnforceNoWorkspace, EnforceRefuses, EnforcePasses, Refuse
  <2>3. CASE AnchorNoWorkspace \/ AnchorStage \/ VerdictRecorded \/ VerdictUnusable
    BY <2>3 DEF AnchorNoWorkspace, AnchorStage, VerdictRecorded, VerdictUnusable
  <2>4. CASE VerdictRead \/ Complete
    BY <2>4 DEF VerdictRead, Complete
  <2>5. QED
    BY <2>1, <2>2, <2>3, <2>4 DEF JudgeStep
<1>2. hist'.moved = hist.moved
  <2>1. CASE PollStep
    BY <2>1 DEF PollStep, StatusExited, StatusUnverifiable, Result, RecordFailure, TypeOK
  <2>2. CASE EnforceNoWorkspace \/ EnforceRefuses \/ EnforcePasses
    BY <2>2 DEF EnforceNoWorkspace, EnforceRefuses, EnforcePasses, Refuse
  <2>3. CASE AnchorNoWorkspace \/ AnchorStage \/ VerdictRecorded \/ VerdictUnusable
    BY <2>3 DEF AnchorNoWorkspace, AnchorStage, VerdictRecorded, VerdictUnusable
  <2>4. CASE VerdictRead \/ Complete
    BY <2>4 DEF VerdictRead, Complete, TypeOK
  <2>5. QED
    BY <2>1, <2>2, <2>3, <2>4 DEF JudgeStep
<1>3. QED
  BY <1>1, <1>2, SameTrees

LEMMA PastOthers == ASSUME TypeOK, Others PROVE Past
<1>1. CASE Approve \/ Die
  <2>1. worker' = worker /\ tree' = tree /\ given' = given /\ hist'.moved = hist.moved
    BY <1>1 DEF Approve, Die, TypeOK
  <2>2. QED
    BY <2>1, SameTrees
<1>2. ASSUME NEW h \in Handles, NEW change \in Changes, WorkerCommits(h, change) PROVE Past
  <2>1. worker[h] = "running" /\ worker' = worker /\ given' = given /\ hist' = hist
        /\ tree' = [tree EXCEPT ![h] = Append(@, change)]
    BY <1>2 DEF WorkerCommits, Running
  <2>2. QED
    BY <2>1, AppendGrows DEF Past, Settled
<1>3. ASSUME NEW h \in Handles, NEW change \in Changes, LateCommit(h, change) PROVE Past
  <2>1. worker' = worker /\ given' = given /\ hist'.moved = hist.moved \cup {h}
        /\ tree' = [tree EXCEPT ![h] = Append(@, change)]
    BY <1>3 DEF LateCommit, TypeOK
  <2>2. QED
    BY <2>1, AppendGrows DEF Past, Settled
<1>4. ASSUME NEW h \in Handles, NEW outcome, WorkerEnds(h, outcome) PROVE Past
  <2>1. worker[h] = "running" /\ given' = given /\ hist' = hist /\ tree' = tree
        /\ \A g \in Handles : g # h => worker'[g] = worker[g]
    BY <1>4 DEF WorkerEnds, Running, TypeOK
  <2>2. QED
    BY <2>1, SameTrees
<1>5. QED
  BY <1>1, <1>2, <1>3, <1>4 DEF Others

LEMMA PastKept == ASSUME TypeOK, [Next]_vars PROVE Past
<1>1. CASE UNCHANGED vars
  BY <1>1, SameTrees DEF vars
<1>2. QED
  BY <1>1, PastStart, PastRest, PastOthers DEF Next

-----------------------------------------------------------------------------
(* What a stage is judged by.                                              *)
Sound(h) == given.based /\ h \notin hist.moved => ~Strays(h)

OfTree(h, c) == c = Origin \/ (c.tree = h /\ c.at \in 1..Len(tree[h]))

Enforced ==
  /\ pc \in Judging => worker[log.open] = "succeeded"
  /\ pc \in {"anchor", "verdict", "complete"} => Sound(log.open)
  /\ pc \in {"verdict", "complete"} => OfTree(log.open, held.anchor)

Concluded ==
  log.done => /\ pc = "off" /\ hist.by \in Handles /\ worker[hist.by] = "succeeded"
              /\ Sound(hist.by) /\ OfTree(hist.by, log.anchor)

JudgeInv == StartInv /\ Enforced /\ Concluded

LEMMA SoundKept ==
  ASSUME Past, NEW h \in Handles, worker[h] = "succeeded", Sound(h)
  PROVE  Sound(h)'
BY DEF Past, Settled, Sound, Strays

LEMMA OfTreeKept ==
  ASSUME TypeOK, Past, NEW h \in Handles, NEW c \in Commits, OfTree(h, c), TypeOK'
  PROVE  OfTree(h, c)'
<1>1. Len(tree[h]) \in Nat /\ Len(tree'[h]) \in Nat /\ Len(tree[h]) <= Len(tree'[h])
  <2>1. tree[h] \in Seq(Changes) /\ tree'[h] \in Seq(Changes)
    BY DEF TypeOK
  <2>2. QED
    BY <2>1 DEF Past, Grown
<1>2. QED
  BY <1>1 DEF OfTree

LEMMA JudgeInvInit == Init => JudgeInv
<1> SUFFICES ASSUME Init PROVE JudgeInv
  OBVIOUS
<1>1. pc = "off" /\ ~log.done
  BY DEF Init
<1>2. QED
  BY <1>1, StartInvInit DEF JudgeInv, Enforced, Concluded, Judging

(* Nothing but other people's steps follows the end of the stage.          *)
LEMMA DoneIsLast ==
  ASSUME JudgeInv, log.done, Next
  PROVE  /\ log'.done /\ log'.anchor = log.anchor /\ log'.judged = log.judged
         /\ hist'.by = hist.by /\ pc' = "off"
<1>1. pc = "off"
  BY DEF JudgeInv, Concluded
<1>2. ~StartStep
  BY <1>1 DEF StartStep, BeginStart, StartRefused, StopResidual, RecordStarted, RecordFailedStart,
              RecordUnknownStart, StartReady, StartFails
<1>3. ~PollStep /\ ~JudgeStep
  BY <1>1 DEF PollStep, StatusExited, StatusUnverifiable, Polls, Result, RecordFailure,
              JudgeStep, EnforceNoWorkspace, EnforceRefuses, EnforcePasses, AnchorNoWorkspace,
              AnchorStage, VerdictRecorded, VerdictUnusable, VerdictRead, Complete
<1>4. Others
  BY <1>2, <1>3 DEF Next
<1>5. CASE Approve
  BY <1>1, <1>5 DEF Approve, JudgeInv, StartInv, TypeOK
<1>6. CASE \E h \in Handles, change \in Changes : WorkerCommits(h, change) \/ LateCommit(h, change)
  BY <1>1, <1>6 DEF WorkerCommits, LateCommit, JudgeInv, StartInv, TypeOK
<1>7. CASE \E h \in Handles, outcome \in Ended \ {"stopped"} : WorkerEnds(h, outcome)
  BY <1>1, <1>7 DEF WorkerEnds
<1>8. QED
  BY <1>1, <1>4, <1>5, <1>6, <1>7 DEF Others, Die

(* The stage ends by completing what is at hand.                           *)
LEMMA DoneByComplete ==
  ASSUME TypeOK, ~log.done, Next, log'.done
  PROVE  Complete
<1>1. ~StartStep
  <2>1. CASE BeginStart \/ StartRefused \/ StopResidual
    BY <2>1 DEF BeginStart, StartRefused, StopResidual, TypeOK
  <2>2. CASE RecordStarted \/ RecordFailedStart \/ RecordUnknownStart
    BY <2>2 DEF RecordStarted, RecordFailedStart, RecordUnknownStart, TypeOK
  <2>3. CASE \E h \in Handles : StartReady(h)
    BY <2>3 DEF StartReady
  <2>4. CASE \E h \in Unmade \cup {NoHandle} : StartFails(h)
    BY <2>4 DEF StartFails
  <2>5. QED
    BY <2>1, <2>2, <2>3, <2>4 DEF StartStep
<1>2. ~PollStep
  BY DEF PollStep, StatusExited, StatusUnverifiable, Result, RecordFailure, TypeOK
<1>3. ~Others
  BY DEF Others, Approve, Die, WorkerCommits, LateCommit, WorkerEnds, TypeOK
<1>4. CASE JudgeStep
  <2>1. ~EnforceNoWorkspace /\ ~EnforceRefuses
    BY DEF EnforceNoWorkspace, EnforceRefuses, Refuse, TypeOK
  <2>2. ~EnforcePasses /\ ~AnchorNoWorkspace /\ ~AnchorStage /\ ~VerdictRecorded /\ ~VerdictUnusable
    BY DEF EnforcePasses, AnchorNoWorkspace, AnchorStage, VerdictRecorded, VerdictUnusable
  <2>3. ~VerdictRead
    BY DEF VerdictRead, TypeOK
  <2>4. QED
    BY <1>4, <2>1, <2>2, <2>3 DEF JudgeStep
<1>5. QED
  BY <1>1, <1>2, <1>3, <1>4 DEF Next

LEMMA ConcludedNext == ASSUME JudgeInv, Next, TypeOK' PROVE Concluded'
<1>1. TypeOK /\ Past
  BY PastKept DEF JudgeInv, StartInv
<1>2. CASE log.done
  <2>1. PICK h \in Handles : h = hist.by
    BY <1>2 DEF JudgeInv, Concluded
  <2>2. PICK c \in Commits : c = log.anchor
    BY <1>1 DEF TypeOK
  <2>3. worker[h] = "succeeded" /\ Sound(h) /\ OfTree(h, c)
    BY <1>2, <2>1, <2>2 DEF JudgeInv, Concluded
  <2>4. Sound(h)' /\ OfTree(h, c)' /\ worker'[h] = "succeeded"
    BY <1>1, <2>3, SoundKept, OfTreeKept DEF Past, Settled
  <2>5. hist'.by = h /\ log'.anchor = c /\ pc' = "off"
    BY <1>2, <2>1, <2>2, DoneIsLast
  <2>6. QED
    BY <2>4, <2>5 DEF Concluded
<1>3. CASE ~log.done /\ log'.done
  <2>1. Complete
    BY <1>1, <1>3, DoneByComplete
  <2>2. PICK h \in Handles : h = log.open
    BY <1>1, <2>1 DEF Complete, TypeOK, Judging
  <2>3. PICK c \in Commits : c = held.anchor
    BY <1>1 DEF TypeOK
  <2>4. worker[h] = "succeeded" /\ Sound(h) /\ OfTree(h, c)
    BY <2>1, <2>2, <2>3 DEF Complete, JudgeInv, Enforced, Judging
  <2>5. Sound(h)' /\ OfTree(h, c)' /\ worker'[h] = "succeeded"
    BY <1>1, <2>4, SoundKept, OfTreeKept DEF Past, Settled
  <2>6. hist'.by = h /\ log'.anchor = c /\ pc' = "off"
    BY <1>1, <2>1, <2>2, <2>3 DEF Complete, Leave, TypeOK
  <2>7. QED
    BY <2>5, <2>6 DEF Concluded
<1>4. QED
  BY <1>2, <1>3 DEF Concluded

(* A step that goes on judging the stage it was judging.                   *)
GoesOn == pc \in Judging /\ pc' \in Judging /\ log'.open = log.open

LEMMA EnforcedGoesOn ==
  ASSUME JudgeInv, TypeOK', Past, GoesOn,
         pc' \in {"anchor", "verdict", "complete"} =>
           Sound(log.open) \/ pc \in {"anchor", "verdict", "complete"},
         pc' \in {"verdict", "complete"} =>
           OfTree(log.open, held'.anchor) \/ (pc \in {"verdict", "complete"} /\ held' = held)
  PROVE  Enforced'
<1>1. TypeOK
  BY DEF JudgeInv, StartInv
<1>2. PICK h \in Handles : h = log.open
  BY <1>1 DEF TypeOK, GoesOn, Judging
<1>3. PICK c \in Commits : c = held'.anchor
  BY DEF TypeOK
<1>4. worker[h] = "succeeded" /\ worker'[h] = "succeeded" /\ log'.open = h
  BY <1>2 DEF GoesOn, JudgeInv, Enforced, Past, Settled
<1>5. ASSUME pc' \in {"anchor", "verdict", "complete"} PROVE Sound(h)'
  <2>1. Sound(h)
    BY <1>2, <1>5 DEF JudgeInv, Enforced
  <2>2. QED
    BY <1>4, <2>1, SoundKept
<1>6. ASSUME pc' \in {"verdict", "complete"} PROVE OfTree(h, c)'
  <2>1. OfTree(h, c)
    BY <1>2, <1>3, <1>6 DEF JudgeInv, Enforced
  <2>2. QED
    BY <1>1, <2>1, OfTreeKept
<1>7. QED
  BY <1>3, <1>4, <1>5, <1>6 DEF Enforced

LEMMA EnforcedNext == ASSUME JudgeInv, Next, TypeOK' PROVE Enforced'
<1>1. TypeOK /\ Past
  BY PastKept DEF JudgeInv, StartInv
<1>2. ASSUME pc' \notin Judging PROVE Enforced'
  BY <1>2 DEF Enforced, Judging
<1>3. CASE StartStep
  BY <1>2, <1>3 DEF StartStep, BeginStart, StartRefused, StopResidual, RecordStarted,
     RecordFailedStart, RecordUnknownStart, StartReady, StartFails, Leave, Judging
<1>4. CASE StatusExited \/ StatusUnverifiable \/ RecordFailure
  BY <1>2, <1>4 DEF StatusExited, StatusUnverifiable, RecordFailure, Leave, Judging
<1>5. CASE Result
  BY <1>5 DEF Result, Enforced, Judging
<1>6. CASE EnforceNoWorkspace \/ EnforceRefuses \/ AnchorNoWorkspace \/ VerdictUnusable \/ Complete
  BY <1>2, <1>6 DEF EnforceNoWorkspace, EnforceRefuses, Refuse, AnchorNoWorkspace, VerdictUnusable,
     Complete, Leave, Judging
<1>7. CASE EnforcePasses
  <2>1. GoesOn /\ pc' = "anchor"
    BY <1>7 DEF EnforcePasses, GoesOn, Judging
  <2>2. Sound(log.open)
    BY <1>1, <1>7, StageIsOpen DEF EnforcePasses, PathEnforcement, Sound, Judging
  <2>3. QED
    BY <1>1, <2>1, <2>2, EnforcedGoesOn
<1>8. CASE AnchorStage
  <2>1. GoesOn /\ pc = "anchor"
    BY <1>8 DEF AnchorStage, GoesOn, Judging
  <2>2. OfTree(log.open, held'.anchor)
    <3>1. held'.anchor = AnchorAt(StageHandle, Tip) /\ StageHandle = log.open
          /\ StageHandle \in Handles /\ Tip = Len(tree[log.open]) /\ Tip \in Nat
      BY <1>1, <1>8, StageIsOpen DEF AnchorStage, TypeOK, Tip, Judging
    <3>2. QED
      BY <3>1, AnchorIsCommit DEF OfTree
  <2>3. QED
    BY <1>1, <2>1, <2>2, EnforcedGoesOn
<1>9. CASE VerdictRecorded \/ VerdictRead
  <2>1. pc = "verdict" /\ held' = held /\ log'.open = log.open /\ pc' \in {"complete", "fail"}
    <3>1. CASE VerdictRecorded
      BY <3>1 DEF VerdictRecorded
    <3>2. CASE VerdictRead
      BY <1>1, <3>2 DEF VerdictRead, TypeOK
    <3>3. QED
      BY <1>9, <3>1, <3>2
  <2>2. CASE pc' = "fail"
    BY <1>2, <2>2 DEF Judging
  <2>3. CASE pc' = "complete"
    BY <1>1, <2>1, <2>3, EnforcedGoesOn DEF GoesOn, Judging
  <2>4. QED
    BY <2>1, <2>2, <2>3
<1>10. CASE Approve \/ Die
  BY <1>2, <1>10 DEF Approve, Die, Leave, Judging
<1>11. CASE \E h \in Handles :
            \/ \E change \in Changes : WorkerCommits(h, change) \/ LateCommit(h, change)
            \/ \E outcome \in Ended \ {"stopped"} : WorkerEnds(h, outcome)
  <2>1. pc' = pc /\ held' = held /\ log' = log
    BY <1>11 DEF WorkerCommits, LateCommit, WorkerEnds
  <2>2. QED
    BY <1>1, <1>2, <2>1, EnforcedGoesOn DEF GoesOn
<1>12. QED
  BY <1>3, <1>4, <1>5, <1>6, <1>7, <1>8, <1>9, <1>10, <1>11 DEF Next, PollStep, JudgeStep, Others

LEMMA JudgeInvNext == ASSUME JudgeInv, [Next]_vars PROVE JudgeInv'
<1>1. StartInv'
  BY StartInvNext DEF JudgeInv
<1>2. CASE Next
  BY <1>1, <1>2, ConcludedNext, EnforcedNext DEF JudgeInv, StartInv
<1>3. CASE UNCHANGED vars
  BY <1>1, <1>3 DEF vars, JudgeInv, Enforced, Concluded, Sound, Strays, OfTree
<1>4. QED
  BY <1>2, <1>3

-----------------------------------------------------------------------------
(* What a verdict is of: a commit whose artefact and whose anchor do not   *)
(* change when the worktree grows.                                         *)
LEMMA ContentKept ==
  ASSUME TypeOK, Past, NEW c \in Commits,
         c.tree \in Handles => c.at <= Len(tree[c.tree])
  PROVE  Content(c)' = Content(c)
<1>1. CASE c.tree \in Handles
  <2>1. tree[c.tree] \in Seq(Changes) /\ c.at \in Nat
    BY <1>1 DEF TypeOK, Commits
  <2>2. \A k \in 1..c.at : k \in 1..Len(tree[c.tree])
    BY <1>1, <2>1
  <2>3. \A k \in 1..c.at : tree'[c.tree][k] = tree[c.tree][k]
    BY <1>1, <2>2 DEF Past, Grown
  <2>4. Touching(c.tree, c.at)' = Touching(c.tree, c.at)
        /\ LastTouch(c.tree, c.at)' = LastTouch(c.tree, c.at)
    BY <1>1, <2>1, <2>3, PrefixKept
  <2>5. Touching(c.tree, c.at) # {} => LastTouch(c.tree, c.at) \in 1..c.at
    BY <1>1, <2>1, TouchAt
  <2>6. QED
    BY <1>1, <2>3, <2>4, <2>5 DEF Content, Past
<1>2. CASE c.tree \notin Handles
  BY <1>2 DEF Content, Past
<1>3. QED
  BY <1>1, <1>2

(* The anchor of a stage's work, as it is now.                             *)
Anchor(h) == AnchorAt(h, Len(tree[h]))

LEMMA AnchorKept ==
  ASSUME TypeOK, Past, NEW h \in Handles, worker[h] = "succeeded", h \notin hist'.moved
  PROVE  Anchor(h)' = Anchor(h)
<1>1. tree'[h] = tree[h] /\ tree[h] \in Seq(Changes)
  BY DEF Past, Settled, TypeOK
<1>2. PICK n \in Nat : n = Len(tree[h])
  BY <1>1
<1>a. CommitAt(h, n) \in Commits
  BY DEF CommitAt, Origin, Commits
<1>3. PICK c \in Commits : c = CommitAt(h, n)
  BY <1>a
<1>4. c.tree \in Handles => c.at <= Len(tree[c.tree])
  BY <1>2, <1>3, OrcaAssumption DEF CommitAt, Origin
<1>5. Content(c)' = Content(c)
  BY <1>4, ContentKept
<1>6. Touching(h, n)' = Touching(h, n) /\ LastTouch(h, n)' = LastTouch(h, n)
  BY <1>1, <1>2, PrefixKept
<1>7. AnchorAt(h, n)' = AnchorAt(h, n)
  BY <1>3, <1>5, <1>6 DEF AnchorAt
<1>8. Len(tree'[h]) = n
  BY <1>1, <1>2
<1>9. QED
  BY <1>2, <1>7, <1>8 DEF Anchor

LEMMA SameAnchor ==
  ASSUME tree' = tree, given' = given, NEW h
  PROVE  Anchor(h)' = Anchor(h)
<1>1. \A n : Touching(h, n)' = Touching(h, n) /\ LastTouch(h, n)' = LastTouch(h, n)
  BY DEF Touching, LastTouch
<1>2. \A c : Content(c)' = Content(c)
  BY DEF Content, Touching, LastTouch
<1>3. \A n : AnchorAt(h, n)' = AnchorAt(h, n)
  BY <1>1, <1>2 DEF AnchorAt
<1>4. QED
  BY <1>3 DEF Anchor

WellJudged ==
  log.judged # NoJudgement =>
    /\ log.judged.verdict \in Verdicts /\ Content(log.judged.commit) = log.judged.verdict
    /\ log.judged.commit.tree \in Handles =>
         log.judged.commit.at <= Len(tree[log.judged.commit.tree])

(* The verdict of the open stage is that of its anchor, and so is the      *)
(* anchor a step has in hand, until someone commits in the worktree.       *)
OfTheStage ==
  /\ log.judged # NoJudgement /\ log.open # NoHandle =>
       /\ worker[log.open] = "succeeded"
       /\ log.open \in hist.moved \/ log.judged.commit = Anchor(log.open)
  /\ pc \in {"verdict", "complete"} =>
       log.open \in hist.moved \/ held.anchor = Anchor(log.open)
  /\ log.done => hist.by \in hist.moved \/ log.anchor = Anchor(hist.by)

PassedAt(h, c) ==
  log.judged # NoJudgement /\ log.judged.verdict = "pass"
  /\ (h \in hist.moved \/ log.judged.commit = c)

Passed ==
  /\ pc = "complete" /\ given.audit => PassedAt(log.open, held.anchor)
  /\ log.done /\ given.audit => PassedAt(hist.by, log.anchor)

VerdictInv == JudgeInv /\ WellJudged /\ OfTheStage /\ Passed

LEMMA VerdictInvInit == Init => VerdictInv
<1> SUFFICES ASSUME Init PROVE VerdictInv
  OBVIOUS
<1>1. pc = "off" /\ ~log.done /\ log.judged = NoJudgement
  BY DEF Init
<1>2. QED
  BY <1>1, JudgeInvInit DEF VerdictInv, WellJudged, OfTheStage, Passed

(* The steps that write the verdict: it is forgotten by the next start and *)
(* written by the step that reads it.                                      *)
LEMMA JudgedBy ==
  ASSUME TypeOK, Next, ~VerdictRead
  PROVE  log'.judged \in {log.judged, NoJudgement}
<1>1. CASE StartStep
  <2>1. CASE BeginStart \/ StartRefused \/ StopResidual
    BY <2>1 DEF BeginStart, StartRefused, StopResidual, TypeOK
  <2>2. CASE RecordStarted \/ RecordFailedStart \/ RecordUnknownStart
    BY <2>2 DEF RecordStarted, RecordFailedStart, RecordUnknownStart, TypeOK
  <2>3. CASE \E h \in Handles : StartReady(h)
    BY <2>3 DEF StartReady
  <2>4. CASE \E h \in Unmade \cup {NoHandle} : StartFails(h)
    BY <2>4 DEF StartFails
  <2>5. QED
    BY <1>1, <2>1, <2>2, <2>3, <2>4 DEF StartStep
<1>2. CASE PollStep
  BY <1>2 DEF PollStep, StatusExited, StatusUnverifiable, Result, RecordFailure, TypeOK
<1>3. CASE JudgeStep
  <2>1. CASE EnforceNoWorkspace \/ EnforceRefuses
    BY <2>1 DEF EnforceNoWorkspace, EnforceRefuses, Refuse, TypeOK
  <2>2. CASE EnforcePasses \/ AnchorNoWorkspace \/ AnchorStage \/ VerdictRecorded \/ VerdictUnusable
    BY <2>2 DEF EnforcePasses, AnchorNoWorkspace, AnchorStage, VerdictRecorded, VerdictUnusable
  <2>3. CASE Complete
    BY <2>3 DEF Complete, TypeOK
  <2>4. QED
    BY <1>3, <2>1, <2>2, <2>3 DEF JudgeStep
<1>4. CASE Others
  BY <1>4 DEF Others, Approve, Die, WorkerCommits, LateCommit, WorkerEnds, TypeOK
<1>5. QED
  BY <1>1, <1>2, <1>3, <1>4 DEF Next

(* What the step that reads a verdict reads it of.                         *)
LEMMA VerdictReads ==
  ASSUME VerdictInv, VerdictRead
  PROVE  /\ log'.judged = [commit |-> held.anchor, verdict |-> Content(held.anchor)]
         /\ Content(held.anchor) \in Verdicts /\ log'.open = log.open
         /\ log.open \in Handles /\ worker[log.open] = "succeeded"
         /\ OfTree(log.open, held.anchor) /\ pc = "verdict"
         /\ log.open \in hist.moved \/ held.anchor = Anchor(log.open)
<1>1. TypeOK /\ Enforced /\ pc = "verdict"
  BY DEF VerdictInv, JudgeInv, StartInv, VerdictRead
<1>2. log.open \in Handles
  BY <1>1 DEF TypeOK, Judging
<1>3. log'.judged = [commit |-> held.anchor, verdict |-> Content(held.anchor)]
      /\ Content(held.anchor) \in Verdicts /\ log'.open = log.open
  BY <1>1 DEF VerdictRead, ReadVerdict, TypeOK
<1>4. QED
  BY <1>1, <1>2, <1>3 DEF Enforced, VerdictInv, OfTheStage, Judging

LEMMA WellJudgedNext == ASSUME VerdictInv, Next, TypeOK' PROVE WellJudged'
<1>1. TypeOK /\ Past
  BY PastKept DEF VerdictInv, JudgeInv, StartInv
<1>2. ASSUME NEW c \in Commits, NEW v \in Verdicts, Content(c) = v,
             c.tree \in Handles => c.at <= Len(tree[c.tree]),
             log'.judged.commit = c, log'.judged.verdict = v
      PROVE  WellJudged'
  <2>1. Content(c)' = v
    BY <1>1, <1>2, ContentKept
  <2>2. c.tree \in Handles => c.at <= Len(tree'[c.tree])
    <3>1. ASSUME c.tree \in Handles PROVE c.at <= Len(tree'[c.tree])
      <4>1. tree[c.tree] \in Seq(Changes) /\ tree'[c.tree] \in Seq(Changes) /\ c.at \in Nat
        BY <1>1, <3>1 DEF TypeOK, Commits
      <4>2. Len(tree[c.tree]) <= Len(tree'[c.tree])
        BY <1>1, <3>1 DEF Past, Grown
      <4>3. QED
        BY <1>2, <3>1, <4>1, <4>2
    <3>2. QED
      BY <3>1
  <2>3. QED
    BY <1>2, <2>1, <2>2 DEF WellJudged
<1>3. CASE VerdictRead
  <2>1. PICK c \in Commits : c = held.anchor
    BY <1>1 DEF TypeOK
  <2>2. PICK h \in Handles : h = log.open
    BY <1>3, VerdictReads
  <2>3. OfTree(h, c) /\ Content(c) \in Verdicts
        /\ log'.judged = [commit |-> c, verdict |-> Content(c)]
    BY <1>3, <2>1, <2>2, VerdictReads
  <2>4. c.tree \in Handles => c.at <= Len(tree[c.tree])
    <3>1. Len(tree[h]) \in Nat
      BY <1>1 DEF TypeOK
    <3>2. QED
      BY <2>3, <3>1, OrcaAssumption DEF OfTree, Origin
  <2>5. QED
    BY <1>2, <2>3, <2>4
<1>4. CASE ~VerdictRead
  <2>1. CASE log'.judged = NoJudgement
    BY <2>1 DEF WellJudged, NoJudgement, Origin
  <2>2. CASE log'.judged # NoJudgement
    <3>1. log'.judged = log.judged /\ log.judged # NoJudgement
      BY <1>1, <1>4, <2>2, JudgedBy
    <3>2. PICK c \in Commits, v \in Verdicts : c = log.judged.commit /\ v = log.judged.verdict
      BY <1>1, <3>1 DEF TypeOK, VerdictInv, WellJudged
    <3>3. Content(c) = v /\ (c.tree \in Handles => c.at <= Len(tree[c.tree]))
      BY <3>1, <3>2 DEF VerdictInv, WellJudged
    <3>4. QED
      BY <1>2, <3>1, <3>2, <3>3
  <2>3. QED
    BY <2>1, <2>2
<1>5. QED
  BY <1>3, <1>4

(* Only a start opens another stage, and with it goes the verdict.         *)
LEMMA OpenedBy ==
  ASSUME TypeOK, Next, log'.judged # NoJudgement, log'.open # NoHandle
  PROVE  log'.open = log.open
<1>1. CASE StartStep
  <2>1. CASE BeginStart \/ StartRefused \/ StopResidual
    BY <2>1 DEF BeginStart, StartRefused, StopResidual, TypeOK
  <2>2. CASE RecordStarted
    BY <2>2 DEF RecordStarted, TypeOK
  <2>3. CASE RecordFailedStart \/ RecordUnknownStart
    BY <2>3 DEF RecordFailedStart, RecordUnknownStart, TypeOK
  <2>4. CASE \E h \in Handles : StartReady(h)
    BY <2>4 DEF StartReady
  <2>5. CASE \E h \in Unmade \cup {NoHandle} : StartFails(h)
    BY <2>5 DEF StartFails
  <2>6. QED
    BY <1>1, <2>1, <2>2, <2>3, <2>4, <2>5 DEF StartStep
<1>2. CASE PollStep
  BY <1>2 DEF PollStep, StatusExited, StatusUnverifiable, Result, RecordFailure, TypeOK
<1>3. CASE JudgeStep
  <2>1. CASE EnforceNoWorkspace \/ EnforceRefuses
    BY <2>1 DEF EnforceNoWorkspace, EnforceRefuses, Refuse, TypeOK
  <2>2. CASE EnforcePasses \/ AnchorNoWorkspace \/ AnchorStage \/ VerdictRecorded \/ VerdictUnusable
    BY <2>2 DEF EnforcePasses, AnchorNoWorkspace, AnchorStage, VerdictRecorded, VerdictUnusable
  <2>3. CASE VerdictRead
    BY <2>3 DEF VerdictRead, TypeOK
  <2>4. CASE Complete
    BY <2>4 DEF Complete, TypeOK
  <2>5. QED
    BY <1>3, <2>1, <2>2, <2>3, <2>4 DEF JudgeStep
<1>4. CASE Others
  BY <1>4 DEF Others, Approve, Die, WorkerCommits, LateCommit, WorkerEnds, TypeOK
<1>5. QED
  BY <1>1, <1>2, <1>3, <1>4 DEF Next

(* How a step comes to have an anchor in hand.                             *)
LEMMA AnchorInHand ==
  ASSUME TypeOK, Next, pc' \in {"verdict", "complete"}
  PROVE  /\ pc \in Judging /\ log'.open = log.open
         /\ \/ AnchorStage
            \/ pc \in {"verdict", "complete"} /\ held' = held
         /\ pc' = "complete" =>
              AnchorStage \/ VerdictRecorded \/ VerdictRead \/ (pc = "complete" /\ log' = log)
<1> USE DEF Judging
<1>1. ~StartStep
  BY DEF StartStep, BeginStart, StartRefused, StopResidual, RecordStarted, RecordFailedStart,
         RecordUnknownStart, StartReady, StartFails, Leave
<1>2. ~PollStep
  BY DEF PollStep, StatusExited, StatusUnverifiable, Result, RecordFailure, Leave
<1>3. CASE JudgeStep
  <2>1. ~EnforceNoWorkspace /\ ~EnforceRefuses /\ ~EnforcePasses
        /\ ~AnchorNoWorkspace /\ ~VerdictUnusable /\ ~Complete
    BY DEF EnforceNoWorkspace, EnforceRefuses, Refuse, EnforcePasses, AnchorNoWorkspace,
           VerdictUnusable, Complete, Leave
  <2>2. CASE AnchorStage
    BY <2>2 DEF AnchorStage
  <2>3. CASE VerdictRecorded
    BY <2>3 DEF VerdictRecorded
  <2>4. CASE VerdictRead
    BY <2>4 DEF VerdictRead, TypeOK
  <2>5. QED
    BY <1>3, <2>1, <2>2, <2>3, <2>4 DEF JudgeStep
<1>4. CASE Others
  BY <1>4 DEF Others, Approve, Die, Leave, WorkerCommits, LateCommit, WorkerEnds
<1>5. QED
  BY <1>1, <1>2, <1>3, <1>4 DEF Next

LEMMA OfTheStageNext == ASSUME VerdictInv, Next, TypeOK' PROVE OfTheStage'
<1>1. TypeOK /\ Past /\ Enforced
  BY PastKept DEF VerdictInv, JudgeInv, StartInv
<1>2. ASSUME NEW h \in Handles, worker[h] = "succeeded", NEW c, h \in hist.moved \/ c = Anchor(h)
      PROVE  worker'[h] = "succeeded" /\ (h \in hist'.moved \/ c = Anchor(h)')
  BY <1>1, <1>2, AnchorKept DEF Past, Settled
<1>3. ASSUME log'.judged # NoJudgement, log'.open # NoHandle
      PROVE  /\ worker'[log'.open] = "succeeded"
             /\ log'.open \in hist'.moved \/ log'.judged.commit = Anchor(log.open)'
  <2>1. log'.open = log.open /\ log.open \in Handles
    BY <1>1, <1>3, OpenedBy DEF TypeOK
  <2>2. PICK h \in Handles : h = log.open
    BY <2>1
  <2>3. PICK c : c = log'.judged.commit
    OBVIOUS
  <2>4. worker[h] = "succeeded" /\ (h \in hist.moved \/ c = Anchor(h))
    <3>1. CASE VerdictRead
      BY <2>2, <2>3, <3>1, VerdictReads
    <3>2. CASE ~VerdictRead
      <4>1. log'.judged = log.judged
        BY <1>1, <1>3, <3>2, JudgedBy
      <4>2. QED
        BY <1>3, <2>1, <2>2, <2>3, <4>1 DEF VerdictInv, OfTheStage
    <3>3. QED
      BY <3>1, <3>2
  <2>5. worker'[h] = "succeeded" /\ (h \in hist'.moved \/ c = Anchor(h)')
    BY <1>2, <2>4
  <2>6. log'.open = h
    BY <2>1, <2>2
  <2>7. QED
    BY <2>3, <2>5, <2>6
<1>4. ASSUME pc' \in {"verdict", "complete"}
      PROVE  log'.open \in hist'.moved \/ held'.anchor = Anchor(log.open)'
  <2>1. pc \in Judging /\ log'.open = log.open
    BY <1>1, <1>4, AnchorInHand
  <2>2. PICK h \in Handles : h = log.open
    BY <1>1, <2>1 DEF TypeOK, Judging
  <2>3. PICK c : c = held'.anchor
    OBVIOUS
  <2>4. worker[h] = "succeeded"
    BY <1>1, <2>1, <2>2 DEF Enforced
  <2>5. h \in hist.moved \/ c = Anchor(h)
    <3>1. CASE AnchorStage
      BY <1>1, <2>1, <2>2, <2>3, <3>1, StageIsOpen DEF AnchorStage, Anchor, Tip, TypeOK
    <3>2. CASE pc \in {"verdict", "complete"} /\ held' = held
      BY <2>2, <2>3, <3>2 DEF VerdictInv, OfTheStage
    <3>3. QED
      BY <1>1, <1>4, <3>1, <3>2, AnchorInHand
  <2>6. h \in hist'.moved \/ c = Anchor(h)'
    BY <1>2, <2>4, <2>5
  <2>7. log'.open = h
    BY <2>1, <2>2
  <2>8. QED
    BY <2>3, <2>6, <2>7
<1>5. ASSUME log'.done
      PROVE  hist'.by \in hist'.moved \/ log'.anchor = Anchor(hist.by)'
  <2>1. CASE log.done
    <3>1. PICK h \in Handles : h = hist.by
      BY <2>1 DEF VerdictInv, JudgeInv, Concluded
    <3>2. PICK c : c = log.anchor
      OBVIOUS
    <3>3. worker[h] = "succeeded" /\ (h \in hist.moved \/ c = Anchor(h))
      BY <2>1, <3>1, <3>2 DEF VerdictInv, JudgeInv, Concluded, OfTheStage
    <3>4. h \in hist'.moved \/ c = Anchor(h)'
      BY <1>2, <3>3
    <3>5. hist'.by = h /\ log'.anchor = c
      BY <2>1, <3>1, <3>2, DoneIsLast DEF VerdictInv
    <3>6. QED
      BY <3>4, <3>5
  <2>2. CASE ~log.done
    <3>1. Complete
      BY <1>1, <1>5, <2>2, DoneByComplete
    <3>2. PICK h \in Handles : h = log.open
      BY <1>1, <3>1 DEF Complete, TypeOK, Judging
    <3>3. PICK c : c = held.anchor
      OBVIOUS
    <3>4. worker[h] = "succeeded" /\ (h \in hist.moved \/ c = Anchor(h))
      BY <1>1, <3>1, <3>2, <3>3 DEF Complete, Enforced, Judging, VerdictInv, OfTheStage
    <3>5. h \in hist'.moved \/ c = Anchor(h)'
      BY <1>2, <3>4
    <3>6. hist'.by = h /\ log'.anchor = c
      BY <1>1, <3>1, <3>2, <3>3 DEF Complete, TypeOK
    <3>7. QED
      BY <3>5, <3>6
  <2>3. QED
    BY <2>1, <2>2
<1>6. QED
  BY <1>3, <1>4, <1>5 DEF OfTheStage

LEMMA PassedNext == ASSUME VerdictInv, Next PROVE Passed'
<1>1. TypeOK /\ Past
  BY PastKept DEF VerdictInv, JudgeInv, StartInv
<1>2. given' = given /\ hist.moved \subseteq hist'.moved
  BY <1>1 DEF Past
<1>3. ASSUME pc' = "complete", given.audit
      PROVE  PassedAt(log.open, held.anchor)'
  <2>1. pc \in Judging /\ log'.open = log.open
    BY <1>1, <1>3, AnchorInHand
  <2>2. ~AnchorStage
    BY <1>3 DEF AnchorStage
  <2>3. held' = held /\ pc \in {"verdict", "complete"}
    BY <1>1, <1>3, <2>2, AnchorInHand
  <2>4. CASE VerdictRecorded
    <3>1. log' = log /\ log.judged # NoJudgement /\ log.judged.verdict = "pass"
      BY <1>3, <2>4 DEF VerdictRecorded
    <3>2. log.open # NoHandle
      BY <1>1, <2>1 DEF TypeOK
    <3>3. log.open \in hist.moved \/ log.judged.commit = held.anchor
      BY <2>3, <3>1, <3>2 DEF VerdictInv, OfTheStage
    <3>4. QED
      BY <1>2, <2>3, <3>1, <3>3 DEF PassedAt
  <2>5. CASE VerdictRead
    <3>1. log'.judged = [commit |-> held.anchor, verdict |-> "pass"]
      BY <1>3, <2>5, VerdictReads DEF VerdictRead, ReadVerdict
    <3>2. log'.judged.verdict = "pass" /\ log'.judged.commit = held.anchor
      BY <3>1
    <3>3. log'.judged # NoJudgement
      BY <3>2 DEF NoJudgement, Absent
    <3>4. QED
      BY <2>3, <3>2, <3>3 DEF PassedAt
  <2>6. CASE pc = "complete" /\ log' = log
    <3>1. PassedAt(log.open, held.anchor)
      BY <1>3, <2>6 DEF VerdictInv, Passed
    <3>2. QED
      BY <1>2, <2>3, <2>6, <3>1 DEF PassedAt
  <2>7. QED
    BY <1>1, <1>3, <2>2, <2>4, <2>5, <2>6, AnchorInHand
<1>4. ASSUME log'.done, given.audit
      PROVE  PassedAt(hist.by, log.anchor)'
  <2>1. CASE log.done
    <3>1. PassedAt(hist.by, log.anchor)
      BY <1>4, <2>1 DEF VerdictInv, Passed
    <3>2. log'.anchor = log.anchor /\ log'.judged = log.judged /\ hist'.by = hist.by
      BY <2>1, DoneIsLast DEF VerdictInv
    <3>3. QED
      BY <1>2, <3>1, <3>2 DEF PassedAt
  <2>2. CASE ~log.done
    <3>1. Complete
      BY <1>1, <1>4, <2>2, DoneByComplete
    <3>2. PassedAt(log.open, held.anchor)
      BY <1>4, <3>1 DEF Complete, VerdictInv, Passed
    <3>3. log'.anchor = held.anchor /\ log'.judged = log.judged /\ hist'.by = log.open
      BY <1>1, <3>1 DEF Complete, TypeOK
    <3>4. QED
      BY <1>2, <3>2, <3>3 DEF PassedAt
  <2>3. QED
    BY <2>1, <2>2
<1>5. QED
  BY <1>2, <1>3, <1>4 DEF Passed

LEMMA VerdictInvNext == ASSUME VerdictInv, [Next]_vars PROVE VerdictInv'
<1>1. JudgeInv'
  BY JudgeInvNext DEF VerdictInv
<1>2. CASE Next
  BY <1>1, <1>2, WellJudgedNext, OfTheStageNext, PassedNext DEF VerdictInv, JudgeInv, StartInv
<1>3. CASE UNCHANGED vars
  <2>1. WellJudged'
    BY <1>3 DEF vars, VerdictInv, WellJudged, Content, Touching, LastTouch
  <2>2. OfTheStage'
    <3>1. PICK h, g : h = log.open /\ g = hist.by
      OBVIOUS
    <3>2. Anchor(h)' = Anchor(h) /\ Anchor(g)' = Anchor(g)
      BY <1>3, SameAnchor DEF vars
    <3>3. log'.open = h /\ hist'.by = g
      BY <1>3, <3>1 DEF vars
    <3>4. QED
      BY <1>3, <3>1, <3>2, <3>3 DEF vars, VerdictInv, OfTheStage
  <2>3. Passed'
    BY <1>3 DEF vars, VerdictInv, Passed, PassedAt
  <2>4. QED
    BY <1>1, <2>1, <2>2, <2>3 DEF VerdictInv
<1>4. QED
  BY <1>2, <1>3

(* An audit advances on a verdict that passed at the commit it was read at *)
(* (run.js makeVerdicts, verdict.js readVerdictAt).                        *)
THEOREM VerdictOfItsCommit == Spec => []VerdictIsOfItsCommit
<1>1. VerdictInv => VerdictIsOfItsCommit
  BY DEF VerdictInv, WellJudged, Passed, PassedAt, VerdictIsOfItsCommit
<1>2. QED
  BY <1>1, VerdictInvInit, VerdictInvNext, PTL DEF Spec

(* A stage advances on the work of the worker that ran it, and nothing     *)
(* outside the intent is left there (run.js makeEnforce, makeAnchors,      *)
(* resolveStageWorkspace; orca.js status, result).                         *)
THEOREM AdvancesOnEnforced == Spec => []AdvancesOnWhatWasEnforced
<1>1. ASSUME VerdictInv PROVE AdvancesOnWhatWasEnforced
  <2> SUFFICES ASSUME log.done PROVE AdvancesOnWhatWasEnforced
    BY DEF AdvancesOnWhatWasEnforced
  <2>1. Concluded
    BY <1>1 DEF VerdictInv, JudgeInv
  <2>2. log.anchor.tree \in {NoHandle, hist.by} /\ worker[hist.by] = "succeeded"
    BY <2>1 DEF Concluded, OfTree, Origin
  <2>3. hist.by \in hist.moved \/ log.anchor = AnchorAt(hist.by, Len(tree[hist.by]))
    BY <1>1 DEF VerdictInv, OfTheStage, Anchor
  <2>4. hist.by \in hist.moved \/ (given.based => ~Strays(hist.by))
    BY <2>1 DEF Concluded, Sound
  <2>5. QED
    BY <2>2, <2>3, <2>4 DEF AdvancesOnWhatWasEnforced
<1>2. QED
  BY <1>1, VerdictInvInit, VerdictInvNext, PTL DEF Spec
=============================================================================
