--------------------------------- MODULE Orca ----------------------------------
(***************************************************************************)
(* The Orca runtime adapter (scripts/adapters/orca.js) and what yukl run   *)
(* judges of its workers (scripts/commands/run.js): one agent stage of one *)
(* task, started, polled, enforced, anchored and judged.  Every command is *)
(* a step of its own whose reply may be unreadable; runs die between them, *)
(* workers commit and exit, and others commit after them.                  *)
(***************************************************************************)
EXTENDS Naturals, SequencesExt

CONSTANTS
  Handles,   \* the dispatches Orca can make
  Leftover,  \* what else a failed start may name: a worktree, a terminal
  NoHandle,
  Settings,  \* whether the stage is the audit, which is judged by its verdict,
             \* whether the run was given a base, without which nothing is enforced,
             \* and the artefact on the commit the worktrees branch from, if any
  Changes,   \* what a commit may change
  MaxCommits,\* bound: commits in each worktree
  MaxLate    \* bound: those made after its worker is gone

(* A commit changes files of the intent or a file outside it, puts back    *)
(* what was changed outside it, or writes or deletes the stage's artefact: *)
(* its verdict, or its contract, of which the text is nothing.             *)
Verdicts == {"pass", "fail"}
Absent   == "absent"
Artefact == Verdicts \cup {"malformed", Absent}

ASSUME OrcaAssumption ==
  /\ NoHandle \notin Handles /\ Leftover \notin Handles /\ Leftover # NoHandle
  /\ Settings \subseteq [audit: BOOLEAN, based: BOOLEAN, before: Artefact]
  /\ Changes \subseteq Artefact \cup {"inside", "outside", "restored"}
  /\ MaxCommits \in Nat /\ MaxLate \in Nat

VARIABLES
  given,  \* the setting
  worker, \* what has become of each worker
  tree,   \* the commits made in the worktree of each
  log,    \* what the task's log says of the stage
  pc,     \* where the run is, "off" between steps
  held,   \* what the present step has in hand
  hist    \* kept for the properties

vars == <<given, worker, tree, log, pc, held, hist>>

-----------------------------------------------------------------------------
(* A commit is a place in a worktree; what all branch from is one commit.  *)
Origin          == [tree |-> NoHandle, at |-> 0]
CommitAt(h, n)  == IF n = 0 THEN Origin ELSE [tree |-> h, at |-> n]
Nothing         == [id |-> NoHandle, anchor |-> Origin]
NoJudgement     == [commit |-> Origin, verdict |-> Absent]

Ended   == {"succeeded", "failed", "unsettled", "stopped"}
Running == {h \in Handles : worker[h] = "running"}
Unmade  == {h \in Handles : worker[h] = "none"}

Places ==
  {"off", "start", "stop", "record", "throw", "doubt", "result", "fail", "enforce",
   "anchor", "verdict", "complete"}

Init ==
  /\ given \in Settings
  /\ worker = [h \in Handles |-> "none"]
  /\ tree = [h \in Handles |-> <<>>]
  /\ log = [starts |-> <<>>, open |-> NoHandle, starting |-> FALSE, enforced |-> FALSE,
            judged |-> NoJudgement, consumed |-> {}, done |-> FALSE, anchor |-> Origin]
  /\ pc = "off"
  /\ held = Nothing
  /\ hist = [excused |-> {}, late |-> 0, moved |-> {}, by |-> NoHandle]

(* A step ends, and with it what it had in hand.                           *)
Leave == pc' = "off" /\ held' = Nothing

-----------------------------------------------------------------------------
(* start                                                                   *)

(* The engine records the start before it calls the runtime.               *)
BeginStart ==
  /\ pc = "off" /\ ~log.done /\ log.open = NoHandle /\ ~log.starting
  /\ log' = [log EXCEPT !.starting = TRUE]
  /\ pc' = "start"
  /\ UNCHANGED <<given, worker, tree, held, hist>>

(* No brief, agent or name; a working copy that cannot be published; a     *)
(* command that cannot be launched.                                        *)
StartRefused ==
  /\ pc = "start"
  /\ pc' = "throw"
  /\ UNCHANGED <<given, worker, tree, log, held, hist>>

StartReady(h) ==
  /\ pc = "start" /\ h \in Unmade
  /\ worker' = [worker EXCEPT ![h] = "running"]
  /\ held' = [held EXCEPT !.id = h]
  /\ pc' = "record"
  /\ UNCHANGED <<given, tree, log, hist>>

(* What a failed start may answer once it has made a worker, or none: the  *)
(* worker by its id, among what it left behind, or not at all.             *)
Replies(h) ==
  IF h = NoHandle THEN {[id |-> NoHandle, residual |-> r] : r \in {<<>>, <<Leftover>>}}
  ELSE [id: {h, NoHandle}, residual: {<<>>, <<h>>, <<NoHandle, h>>, <<Leftover, h>>}]

(* The id, or the first entry that names anything.                         *)
ResidualDispatchId(reply) ==
  IF reply.id # NoHandle THEN reply.id
  ELSE LET named == {i \in DOMAIN reply.residual : reply.residual[i] # NoHandle}
       IN IF named = {} THEN NoHandle
          ELSE reply.residual[CHOOSE i \in named : \A j \in named : i <= j]

StartFails(h) ==
  /\ pc = "start"
  /\ worker' = [g \in Handles |-> IF g = h THEN "running" ELSE worker[g]]
  /\ \E reply \in Replies(h) :
       LET id == ResidualDispatchId(reply)
       IN /\ held' = [held EXCEPT !.id = id]
          /\ pc' = IF id = NoHandle THEN "throw" ELSE "stop"
          /\ hist' = IF id = NoHandle THEN [hist EXCEPT !.excused = @ \cup ({h} \cap Handles)]
                      ELSE hist
  /\ UNCHANGED <<given, tree, log>>

Stopped(h) == [worker EXCEPT ![h] = IF @ = "running" THEN "stopped" ELSE @]

StopResidualFault ==
  /\ pc = "stop"
  /\ \/ held.id \in Handles /\ worker' = Stopped(held.id)
     \/ UNCHANGED worker
  /\ pc' = "throw"
  /\ UNCHANGED <<given, tree, log, held, hist>>

(* Only a stop that Orca confirms is a stop; what it confirms is so.       *)
StopResidual ==
  /\ pc = "stop"
  /\ \/ held.id \in Handles /\ worker' = Stopped(held.id) /\ pc' \in {"throw", "doubt"}
     \/ pc' = "doubt" /\ UNCHANGED worker
  /\ UNCHANGED <<given, tree, log, held, hist>>

(* The engine records the handle, or the failure, which closes the start,  *)
(* or that the outcome is unknown, which leaves it open.                   *)
RecordStarted ==
  /\ pc = "record"
  /\ log' = [log EXCEPT !.starts = Append(@, held.id), !.open = held.id, !.starting = FALSE,
                        !.enforced = FALSE, !.judged = NoJudgement]
  /\ Leave
  /\ UNCHANGED <<given, worker, tree, hist>>

RecordFailedStart ==
  /\ pc = "throw"
  /\ log' = [log EXCEPT !.starting = FALSE]
  /\ Leave
  /\ UNCHANGED <<given, worker, tree, hist>>

RecordUnknownStart ==
  /\ pc = "doubt"
  /\ Leave
  /\ UNCHANGED <<given, worker, tree, log, hist>>

-----------------------------------------------------------------------------
(* status, then result: a second worker-show, which may not be answered as *)
(* the first.  A worker that is live is waited for, which changes nothing. *)
Polls == pc = "off" /\ ~log.done /\ log.open # NoHandle /\ ~log.enforced

StatusExited ==
  /\ Polls /\ worker[log.open] \in Ended
  /\ pc' = "result"
  /\ UNCHANGED <<given, worker, tree, log, held, hist>>

(* Whatever is not "live" or "exited" fails the stage, running or not.     *)
StatusUnverifiable ==
  /\ Polls
  /\ pc' = "fail"
  /\ hist' = [hist EXCEPT !.excused = @ \cup {log.open}]
  /\ UNCHANGED <<given, worker, tree, log, held>>

(* A worker whose outcome is not settled, or not read, did not succeed.    *)
Result ==
  /\ pc = "result"
  /\ pc' \in {"enforce", "fail"}
  /\ pc' = "enforce" => worker[log.open] = "succeeded"
  /\ UNCHANGED <<given, worker, tree, log, held, hist>>

RecordFailure ==
  /\ pc = "fail"
  /\ log' = [log EXCEPT !.open = NoHandle]
  /\ Leave
  /\ UNCHANGED <<given, worker, tree, hist>>

-----------------------------------------------------------------------------
(* The workspace is resolved anew for each of the three judgements, from   *)
(* the last start in the log; a reply that names none stops the step.      *)
StageHandleFault == Head(log.starts)

StageHandle == Last(log.starts)

Tip == Len(tree[StageHandle])

Refuse ==
  /\ log' = [log EXCEPT !.enforced = TRUE]
  /\ Leave
  /\ UNCHANGED <<given, worker, tree, hist>>

EnforceNoWorkspace == pc = "enforce" /\ Refuse

(* git diff --name-only base...tip, against the intent at the base: what a *)
(* later commit puts back is not in it.                                    *)
Strays(h) ==
  \E k \in 1..Len(tree[h]) :
     /\ tree[h][k] = "outside"
     /\ \A j \in k+1..Len(tree[h]) : tree[h][j] # "restored"

PathEnforcement == ~Strays(StageHandle)

EnforceRefuses == pc = "enforce" /\ given.based /\ ~PathEnforcement /\ Refuse

EnforcePasses ==
  /\ pc = "enforce"
  /\ given.based => PathEnforcement
  /\ pc' = "anchor"
  /\ UNCHANGED <<given, worker, tree, log, held, hist>>

(* The artefact's last commit up to the n-th, and its content there.       *)
Touching(h, n) == {k \in 1..n : tree[h][k] \in Artefact}

LastTouch(h, n) == CHOOSE k \in Touching(h, n) : \A j \in Touching(h, n) : j <= k

Content(c) ==
  IF c.tree \in Handles /\ Touching(c.tree, c.at) # {}
    THEN tree[c.tree][LastTouch(c.tree, c.at)] ELSE given.before

(* ... or the tip, when none touches it or the last one deletes it.        *)
AnchorAt(h, n) ==
  IF Content(CommitAt(h, n)) = Absent THEN CommitAt(h, n)
  ELSE IF Touching(h, n) # {} THEN CommitAt(h, LastTouch(h, n)) ELSE Origin

AnchorNoWorkspace ==
  /\ pc = "anchor"
  /\ Leave
  /\ UNCHANGED <<given, worker, tree, log, hist>>

AnchorStage ==
  /\ pc = "anchor"
  /\ held' = [held EXCEPT !.anchor = AnchorAt(StageHandle, Tip)]
  /\ pc' = IF given.audit THEN "verdict" ELSE "complete"
  /\ UNCHANGED <<given, worker, tree, log, hist>>

(* A verdict of this attempt that is in the log is not read again.         *)
VerdictRecorded ==
  /\ pc = "verdict" /\ log.judged # NoJudgement
  /\ pc' = IF log.judged.verdict = "pass" THEN "complete" ELSE "fail"
  /\ UNCHANGED <<given, worker, tree, log, held, hist>>

ReadVerdictFault(c) == Content(CommitAt(StageHandle, Tip))

ReadVerdict(c) == Content(c)

(* No workspace, no verdict there, or one judged before: the step stops.   *)
VerdictUnusable ==
  /\ pc = "verdict" /\ log.judged = NoJudgement
  /\ Leave
  /\ UNCHANGED <<given, worker, tree, log, hist>>

VerdictRead ==
  LET verdict == ReadVerdict(held.anchor)
  IN /\ pc = "verdict" /\ log.judged = NoJudgement
     /\ verdict \in Verdicts /\ held.anchor \notin log.consumed
     /\ log' = [log EXCEPT !.judged = [commit |-> held.anchor, verdict |-> verdict],
                           !.consumed = @ \cup {held.anchor}]
     /\ pc' = IF verdict = "pass" THEN "complete" ELSE "fail"
     /\ UNCHANGED <<given, worker, tree, held, hist>>

Complete ==
  /\ pc = "complete"
  /\ log' = [log EXCEPT !.done = TRUE, !.anchor = held.anchor]
  /\ hist' = [hist EXCEPT !.by = log.open]
  /\ Leave
  /\ UNCHANGED <<given, worker, tree>>

-----------------------------------------------------------------------------
(* Workers commit and end, with or without an outcome.                     *)
WorkerCommits(h, change) ==
  /\ h \in Running /\ Len(tree[h]) < MaxCommits
  /\ tree' = [tree EXCEPT ![h] = Append(@, change)]
  /\ UNCHANGED <<given, worker, log, pc, held, hist>>

WorkerEnds(h, outcome) ==
  /\ h \in Running
  /\ worker' = [worker EXCEPT ![h] = outcome]
  /\ UNCHANGED <<given, tree, log, pc, held, hist>>

(* Someone else commits in the worktree of a worker that is gone.          *)
LateCommit(h, change) ==
  /\ worker[h] \in Ended /\ Len(tree[h]) < MaxCommits /\ hist.late < MaxLate
  /\ tree' = [tree EXCEPT ![h] = Append(@, change)]
  /\ hist' = [hist EXCEPT !.late = @ + 1, !.moved = @ \cup {h}]
  /\ UNCHANGED <<given, worker, log, pc, held>>

(* A human approves a start of unknown outcome, having seen to what runs.  *)
Approve ==
  /\ pc = "off" /\ log.starting
  /\ log' = [log EXCEPT !.starting = FALSE]
  /\ hist' = [hist EXCEPT !.excused = @ \cup Running]
  /\ UNCHANGED <<given, worker, tree, pc, held>>

Die ==
  /\ pc # "off"
  /\ Leave
  /\ UNCHANGED <<given, worker, tree, log, hist>>

StartStep ==
  \/ BeginStart \/ StartRefused \/ StopResidual
  \/ RecordStarted \/ RecordFailedStart \/ RecordUnknownStart
  \/ (\E h \in Handles : StartReady(h)) \/ (\E h \in Unmade \cup {NoHandle} : StartFails(h))

PollStep == StatusExited \/ StatusUnverifiable \/ Result \/ RecordFailure

JudgeStep ==
  \/ EnforceNoWorkspace \/ EnforceRefuses \/ EnforcePasses
  \/ AnchorNoWorkspace \/ AnchorStage
  \/ VerdictRecorded \/ VerdictUnusable \/ VerdictRead \/ Complete

Others ==
  \/ Approve \/ Die
  \/ \E h \in Handles, change \in Changes : WorkerCommits(h, change) \/ LateCommit(h, change)
  \/ \E h \in Handles, outcome \in Ended \ {"stopped"} : WorkerEnds(h, outcome)

Next == StartStep \/ PollStep \/ JudgeStep \/ Others

Spec == Init /\ [][Next]_vars

-----------------------------------------------------------------------------
(* What the adapter and the judging of its workers promise.                *)

(* No worker is forgotten (orca.js start and stopResidual): whichever      *)
(* reply is unreadable and wherever a run dies, a worker that runs is the  *)
(* one the log has open, or its start is open in the log and blocks the    *)
(* next, or the present step still has it in hand.  Left out are workers   *)
(* that Orca did not name when their start failed, that it could not show  *)
(* when polled, and that a human saw to.                                   *)
NoWorkerForgotten ==
  Running \subseteq
    {log.open} \cup hist.excused \cup (IF log.starting THEN Handles ELSE {})

(* A stage advances on the work of the worker that ran it (run.js          *)
(* resolveStageWorkspace, makeEnforce and makeAnchors; orca.js status and  *)
(* result): one that exited and succeeded.  Unless someone committed in    *)
(* its worktree after it was gone, the anchor is the newest commit of its  *)
(* artefact and, with a base, nothing outside the intent is left there.    *)
AdvancesOnWhatWasEnforced ==
  log.done =>
    /\ worker[hist.by] = "succeeded"
    /\ log.anchor.tree \in {NoHandle, hist.by}
    /\ hist.by \in hist.moved \/
         /\ log.anchor = AnchorAt(hist.by, Len(tree[hist.by]))
         /\ given.based => ~Strays(hist.by)

(* An audit advances on a verdict that passed at the commit it was read at *)
(* (run.js makeVerdicts, verdict.js readVerdictAt), whatever is committed  *)
(* later; and that commit is the anchor, unless someone committed in the   *)
(* worktree between the verdict and a resumed step.                        *)
VerdictIsOfItsCommit ==
  log.done /\ given.audit =>
    /\ log.judged.verdict = "pass" /\ Content(log.judged.commit) = "pass"
    /\ hist.by \in hist.moved \/ log.anchor = log.judged.commit
=============================================================================
