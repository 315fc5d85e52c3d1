# Formal models of yukl-os

TLA+ modules, TLC configurations and TLAPS proofs about the program in `src/`:
a command line that drives one software task at a time through a fixed
lifecycle (intent, scope, plan, implement, prove, audit, review, integrate),
dispatching agents, judging what they did and merging the result.

Everything a task has been through is in one append-only log per task. Every
command reads the log from the start, folds it, does one thing and appends what
happened. What can go wrong therefore sits between the folds, the awaits and the
appends: a process that dies after an agent was started and before it was
recorded, a human decision appended while a step is in flight, a refusal
recorded by one run and met by the next.

## 1. Inventory

Paths are under `src/scripts/`. "Model" names the modules; `-` means not yet.

| Component | State | Operations | Model |
| --- | --- | --- | --- |
| Stage machine, `lifecycle/stages.js` | none: pure | `transition` for agents and humans | Stages |
| Log folds, `lifecycle/engine.js`, `foldState` of `lifecycle/events.js` | none: folds of the log | `replay`, `openStage`, `verdictThisAttempt`, `verdictConsumed`, `runAgentStarts`, `foldState` | TaskLog, TaskLogFold |
| Engine, `lifecycle/engine.js` | the place in a step, the log as read, what the step has in hand | `step`, `runUntilBlocked` | Engine |
| `yukl decide`, `commands/decide.js` | a decision built and not yet appended | read, judge, append | Engine |
| `yukl run`, `commands/run.js` | the dependencies of the engine | launch in three modes; anchors, verdicts, enforcement, dispatch | Engine, Orca, partly |
| Event log, `lifecycle/events.js` | a JSONL file with a hash chain | append, read, verify the chain and a recorded head | EventLog, DurableLog |
| Diagnosis, `lifecycle/diagnose.js` | none: pure over the recorded decisions | classify, choose an intervention | Diagnosis, Attempts |
| Orca runtime, `adapters/orca.js` | none; the workers are outside | start, status, result, workspace | Orca, Engine |
| Runtime contract and fake, `lifecycle/runtime.js`, `adapters/fake.js` | the fake's script | the adapter interface | Engine, partly |
| Version control, `adapters/vcs-git-local.js`, `adapters/vcs-github.js` | branches and a temporary worktree | checks, merge | Landing, Engine |
| Locks, `lifecycle/locks.js`, `commands/lock.js` | lock and guard files | acquire, reclaim, release | Locks |
| Schedule, `commands/schedule.js` | waves of tasks | plan waves, lock, worktree, run, release | Scopes, Schedule |
| Track record and policy, `lifecycle/track.js`, `lifecycle/policy.js` | none: folds of the log | autonomy level, edges kept for a human | Autonomy, Attempts |
| Reopen, `lifecycle/reopen.js` | none: pure | which stage a finding reopens | - |
| Anchors, verdict, enforcement, `lifecycle/{anchors,verdict,enforce}.js` | none | git and file parsing | Orca |
| Status and sync, `commands/{status,vcs-sync}.js` | none | reports | EventLog, Landing, partly |
| Verification gate, `yukl.js` | none; the base is read as it goes | scope, globs, contracts, intents, proofs | Scopes, Gate, partly |
| Validators, `validators/`, `repo-checks.js`, `validate-config.js`, `count-instructions.js` | none | documents and configuration | - |
| Test tooling, `run-tests.js`, `lib/harness.js` | none | | - |

How they interact. `yukl run` reads the log, hands the engine a runtime, a
version control adapter, an anchor resolver, a verdict reader, an enforcement
and a diagnosis, and loops. The engine awaits each of them, and only the log
survives the process. `yukl decide` is another process that reads and appends
the same log, with no lock between the two. Agents run outside and settle when
they like. `yukl schedule` starts one `yukl run` per task under an advisory
lock. `yukl status` re-verifies the log against the head recorded at the merge.
`yukl verify` is the gate of a pull request: it reads what governs the change
from the base, runs the proofs and says pass or fail; people merge.

What makes each component correct, and hard:

* stage machine: an agent moves a task only by finishing its stage with an
  anchor, never crosses an edge kept for a human, never audits its own work;
* folds: one pass computes what the history means - the unclosed start, the
  verdict of this attempt, the starts of this run;
* engine: no second worker beside one whose outcome is unknown, no verdict
  counted twice, no branch merged twice, no more starts than the limit, every
  run ends - under crashes, throws, limits, human decisions in between;
* event log: with one writer, a crash costs at most the line being written;
* locks: one holder of a lock, a dead holder's lock is taken over once;
* schedule: overlapping tasks are never driven together, locks always released;
* diagnosis: a failure is not answered twice the same way, and runs out of answers;
* track record and policy: a stop costs the autonomy it must;
* Orca and what is judged of its workers: none is forgotten whichever reply is lost,
  and what is anchored is the work that was enforced and judged;
* version control: what was checked is what is merged, on a base that only grows;
* gate: a change was allowed before it was made, once, and proved by commands the
  base already trusted.

The hazards, each at its line with the property that covers it or the reason
none does yet, are in `PROJECT.json`.

## 2. Plan

What exists, in the order it was built, most important first:

1. `Stages`, `TaskLog` and `TaskLogFold`: the pure core, checked against its
   meaning over whole logs.
2. `Engine` and `EngineProperties`: one task under crashes, limits, failures,
   throws and human decisions. Composes 1. `EngineProofs`, about the folds too.
3. `Locks`: acquire, reclaim and release, file operation by file operation, with
   processes that die anywhere. `LocksProofs`.
4. `EventLog`, and `DurableLog`, the promise it implements: the append, with
   torn lines, kills and losses of power; the checks made of the file.
   `EventLogProofs`.
5. `Scopes` and `Schedule`: path patterns, the waves made from them, and
   schedulers that drive tasks under locks. `ScheduleProofs`.
6. `Landing`: the merge, one command at a time, in both adapters; the lookup of
   the run head. `LandingProofs`.
7. `Diagnosis`, `Autonomy` and `Attempts`: what the decisions, verdicts and stops
   of a log add up to. `AttemptsProofs`.
8. `Gate`: pull requests verified against a base that moves. Uses 5's patterns.
   `GateProofs`.
9. `Orca`: one stage driven through the Orca adapter and judged in the worker's
   worktree. `OrcaProofs`.

Left, in this order: an abstract lock that `Locks` implements and `Schedule` uses;
the Jujutsu synchronisation.

Runs: one per question. Engine runs stay at one to two launches, one or two
crashes and decisions, three workers: the smallest numbers at which a resumed
run, an earlier run's leftovers and a second worker all exist.

## 3. Modules

### Stages
`transition` of `stages.js` with `byAgent` and `byHuman`, refusals in the order
the code tries them. A result is `[ok, next, rule]`. `needsHuman` is the set of
edges the policy keeps for a human; the code asks a function of the edge's name.

### TaskLog
The log as the engine sees it. The code folds the whole file each time it reads
it. A *view* is the record of all its folds, and `Apply(v, e)` is the view after
`e` was appended, so a log need not be kept. `view.state` is `replay`,
`view.open` is `openStage` for every stage, `view.starts` counts what
`runAgentStarts` counts, `view.verdict` and `view.consumed` are
`verdictThisAttempt` and `verdictConsumed`, `view.fold` is `foldState`, which
`yukl decide` reads, and `view.diagnosed` counts the recorded decisions the
diagnosis counts attempts by.

### TaskLogFold
A log kept as a sequence beside its view, in `folded`: any event may be appended
at any time (`FoldSpec`). Its invariants say over the positions of the log what
each fold should mean. Run `log_folds`; proved in `EngineProofs`.

### Engine
Variables and the code they stand for:

| Variable | Stands for |
| --- | --- |
| `view` | the committed log |
| `pc`, `snap`, `work` | where the run's process is; the log as its step read it; the handle, commit, anchor or failure it has in hand. A crash erases them. |
| `mode`, `base`, `late` | `--once`, attended or unattended; the starts in the log at launch (`startSeq`); the wall clock is past its limit |
| `workers`, `merges` | the world: the worker each handle names; how often the branch was merged |
| `human` | the decision a `yukl decide` process has judged and not appended |
| `spent` | the bounds used up |
| `hist` | history for the properties only: the workers started for a stage since a human last named it (`unsettled`), the stages a human named since they were last started (`named`), the run's starts, the verdicts counted per commit, the stages whose last diagnosis escalated |

One action per stretch of code between two awaits, so every await is a place
where a human, a worker, the clock or a crash can come in. `BeginStart`,
`CallStarts`/`CallThrows`/`CallLosesWorker`/`CallUnknown`, `RecordStarted` are
`startStage`; `RecordFailure` and `RecordDecision` are `failStage`, the
diagnosis awaited in between; `MarkMerge`, `ReadHead`, `MergeSucceeds`, `MergeFails` and
`CompleteAccepted` are `integrateStage`, `mergeIntegrate` and `completeStage`;
`DecideRead` and `DecideAppend` are `yukl decide`.

What is abstracted, and why it may be:

* the step cap of an attended run (`maxSteps`, 64 by default): `StepCap` may stop it at any turn of the
  loop, which contains every cap;
* the choice among interventions: any failure that need not escalate may or may
  not; `MustEscalate` is the part of `chooseIntervention` that leaves no choice;
* enforcement refuses by one rule, `R-PATH-SCOPE`; the engine treats them alike;
* a runtime that returns no usable handle id throws after the worker exists and
  before a record: the same log and world as a crash at that point;
* both run limits are set, as in the shipped policy; a `--once` run gets none;
* one run per task at a time (the scheduler's lock, see Schedule). Humans are not locked out:
  `Concurrent` lets their two steps fall anywhere;
* a `reopen` is in the folds and not in `Engine`: nothing under `src/` appends it.

`StartProof` and `StatusProof` say what a runtime may be relied on for: that a
start that throws an ordinary error left nothing running, and that a status that
is neither live nor exited is not a live worker's. With the Orca adapter neither
always holds (`Orca` shows what does): a `worker-start` whose failing reply names no worker or does not
parse stops nothing (`orca.js` `residualDispatchId`), and an unreadable
`worker-show` answers `unverifiable`. Setting either to FALSE in `engine_quiet`
gives a run with two live workers of one stage, which is why the properties that
need them are checked and proved with them.

`MergeProof` says the same of the version control: that a merge reported failed was
never made. It holds of local Git, whose last step is one `update-ref`. It does not
hold of GitHub: `gh pr merge` exits non-zero when its reply is lost after the merge
too (`vcs-github.js` 153-157, and `Landing`). The engine then records a failure, which
closes the merge marker, and the next round asks for the merge again: with FALSE in
`engine_quiet`, `MergedOnce` is violated. `engine_ends` runs with all three FALSE.

### EngineProperties, MCEngine, EngineProofs
The properties; values for TLC; the proofs (section 6). Operators named
`...Fault` are mistakes the code could plausibly have, unused by the
specification: `PROJECT.json` pairs each with the property that catches it.

### Locks, MCLocks, LocksProofs
One lock name and the processes that want it. `lock` and `guard` are the two
files, `pc[p]` is where process `p` is between two file operations, `seen`,
`met`, `tries` and `guardTries` are its local variables. Each read, exclusive create,
write and removal of `acquireLock`, `takeReclaimGuard`, `releaseReclaimGuard` and
`releaseLock` is an action, and so is asking whether the owner that was read is alive
(`Inspect` then `Judge`, `InspectGuard` then `JudgeGuard`), because other processes
run, end (`Exit`) and are killed (`Die`) between any two. The one question that is not
a step of its own is the second about a lock's owner, under the guard: that owner was
found gone already, and stays so. A create and the write after it are two steps
(`writeFileSync` opens, then writes): in between the file is there and names
nobody, and a process that dies there (`Die`) or whose write fails (`WriteFails`)
leaves it so. `ForceRelease` is `yukl lock release --force`; without `--force`
the verb acts as its own process, which owns nothing, and changes nothing.

`orphaned`, `outdated`, `cutShort` and `forced` are history: a reclaimer died between
taking its guard and removing it; a process ended after another had read its guard and
before that one asked whether it is alive; who left a file unwritten; a human used
force. In the first two a guard can be removed that is a live reclaimer's, and two
processes can hold the lock; `GuardHeld` is that none of that and no force has
happened, and the properties that fail otherwise say so. The header of `locks.js`
admits the first only (section 7). A process is one identity: that a process id may be used again, and that
the liveness check ignores the host, is not modelled. A process acquires once;
`schedule` acquires different names, `lock hold` one.

### EventLog, DurableLog, EventLogProperties, EventLogProofs
`lines`, `tail` and `durable` are the file: its complete lines, whether bytes
follow the last newline, and how many lines a loss of power leaves. `writer[w]`
is an `appendEvent` between two file operations: `ReadLog` (with `splitLines`),
`TruncateTail`, `BeginWrite` and `EndWrite`, `Fsync`, `Return`. `Kill` and
`LosePower` strike between any two. A line keeps its event, `seq` and `prev`; a
hash is injective. `RecordHead` is the merge taking the head hash; `Status`,
`VerifyChain` and `VerifyAgainstHead` are the readers. `told` is history: what
callers were told is stored.

`DurableLog` is what callers rely on: a log that only grows at its end, and
nobody is told of an event before it is stored. `KeepsItsPromise` is the
refinement: `stored` is the durable prefix. It holds when appends are made one
at a time (`Serial`), which a run alone with its log does; `yukl decide` beside a
run does not (section 7).

### Scopes, Schedule, ScheduleProperties, ScheduleProofs
A path is a sequence of names and a pattern a sequence of segments; `MatchesGlob`
is `globToRegExp`, segment by segment from the pattern's end, `ScopePrefix`, `ScopesOverlap` and
`PlanWaves` are the scheduler's. `Schedule` has several schedulers. `drive[s][t]`
is where scheduler `s` has got with task `t` of its wave: `Acquire`, `Prepare` and
`Settle` are `driveTask` between its awaits, in the order JavaScript runs them
(`Turn`). The default runner is `spawnSync`, which blocks the whole scheduler: those
are `Blocking`; one handed in from outside may be concurrent. `NextWave`, `Finish`
and `Reject` are the loop over waves and `Promise.all`. `Kill` kills a scheduler,
with the runs it spawned or without. A lock is acquired in one step, which is what
`Locks` shows.

### Landing, LandingProperties, LandingProofs
`merger[m]` is a process in an adapter's `merge` with what it has read: the old
base, what it saw when the checks passed, the merge commit it made. One action per
command spawned: `ReadBase`, `LookForCheckouts`, `Check`, `MergeInWorktree`,
`UpdateRef` for local Git, `Check`, `ReadTarget`, `MergeOnForge` for GitHub.
A merge ends `ok`, `refused` - by a check, or by git before the base is touched - or
`failed`: `gh pr merge` exited non-zero, and the merge may be on the base all the same.
A list of worktrees that git cannot give counts as empty (`LookForCheckouts`).
`Push`, `Retarget`, `CommitToBase` and `CheckOut` are people and agents in
between. A commit is the changes it adds and its `Yukl-Run-Head` trailer.
`FindRunHeadTrailer` is the lookup of `yukl status`. `late` and `landed` are
history.

### Diagnosis, Autonomy, Attempts, AttemptsProperties, AttemptsProofs
`Diagnosis` is pure: `Classify`, the table, `BuildInputs`, `TriedPairs` and
`ChooseIntervention`, over an observation (the signals it carries and the value
its inputs hash to) and the decisions so far. `Autonomy` is pure too: the policy
schema, the record of a runtime event by event, `AutonomyLevel`, `RequiresHuman`
and the id under which the policy knows an edge. `Attempts` is a log growing by
one event at a time: starts, verdicts, stops, failures with their diagnosis or
with a crash before it.

### Gate, GateProperties, GateProofs
`line` is the sequence of trees the base has been; a tree is a function from paths
to contents. A pull request is one commit on the tree it forked from, offered in
`MCGate`. `Discover`, `Judge`, `Prove`, `Exit`, `TimeOut` and `Conclude` are
`runVerify` and `runCommand`; `Judge` reads intent and replay from the base as it
is then. `Open`, `Rerun` and `Merge` are people. Left out: a pull request pushed
to again (its checks start over on the forge); renames, of which `git diff
--name-only` lists the new name only; the reads of one contract are one step, as
no command runs between them.

### Orca, OrcaProofs
One agent stage of one task. `worker[h]` is what has become of dispatch `h`, `tree[h]`
the commits in its worktree, `log` what the task's log says of the stage, `pc` and
`held` where the step is and what it has in hand, lost when it dies. One action
per Orca or git command: `StartReady` and `StartFails` (with `Replies`, what a failed
start may still name, and `ResidualDispatchId`), `StopResidual`, `StatusExited`,
`StatusUnverifiable`, `Result`; then `EnforcePasses`, `AnchorStage` and
`VerdictRead`, each of which looks for the workspace anew. Workers commit and end by
themselves; `LateCommit` is anyone who commits in a worktree whose worker is gone.

A commit does one thing: a change inside the intent or outside, the restoration of
what was changed outside, or the artefact (the verdict, or the contract) written or
deleted. `AnchorAt` is `git log -1` for the artefact, else the tip; `Strays` is
`git diff base...tip`; `Content` is `git show`. Assumed of Orca: it confirms the stop
of a worker only when it has stopped it, and says "exited" and "succeeded" of
workers that are. The limits, the diagnosis and what humans decide are in `Engine`.

## 4. Runs

| Run | Question | Bounds |
| --- | --- | --- |
| `log_folds` | does every fold mean what the comments say, on every log | logs of up to 4 of 23 events over two agent stages and the merge |
| `engine_quiet` | merge, move and review safety when humans decide between runs, an edge kept for one, with a version control that reports no merge failed once made | 2 runs, 1 crash, 2 decisions, 3 workers, 2 verdict commits, limit 2, from implement to done |
| `engine_race` | start, verdict and limit safety when humans append while a step is in flight | 2 runs, 1 crash, 2 decisions, 3 workers |
| `engine_ends` | does every run end, with a runtime that loses sight of workers and a version control that loses replies | 2 runs, 1 crash, 1 decision, limit 1, no fairness for workers |
| `live_beside` | a sentence of the documentation, refuted (section 7) | as `engine_quiet` |
| `locks` | until the guard is undone: one holder, nobody robbed; always: somebody served, nothing left in the way | 3 processes, a dead owner or none, a dead reclaimer's guard or none, 1 death, 3 attempts, 1 forced release; any write may fail |
| `event_log` | is the file the durable log its callers rely on, and does it show tampering | 2 writers one at a time, 4 lines, 2 events, 3 kills or losses of power |
| `schedule` | no shared file, one driver, locks given back, everyone ends | 2 schedulers, one blocking, 2 tasks in both orders, scopes `a/**`, `ab/*` or unknown, 1 killed; patterns of 3 segments |
| `landing` | does the base hold what passed, all of it, and only that, when replies of GitHub fail too | 3 processes, 2 of them on one task, 2 changes, one broken, 2 moves by others |
| `attempts` | does diagnosis end and autonomy answer to the record | 6 events, 4 valid policies of 6, 2 stages, 8 observations |
| `gate` | was what reached the base allowed, once, and proved | 3 pull requests of 3 offers or more, one verified twice, 4 bases |
| `orca` | is a worker ever forgotten, and is what is anchored what was enforced and judged | 2 workers, 2 commits each of 4 kinds, 1 late commit, 3 settings; any reply unreadable, any step dies |

Why these bounds. A worker lost to a crash needs one crash and a second run to be
met again. A verdict read twice needs two audit attempts, and two starts. A
leftover enforcement needs two runs. A second worker of a stage needs a handle
beyond the first two starts, hence three. Two processes collide over a reclaim
while a third creates the lock by the fast path, hence three; three attempts are
the code's. A torn tail needs a kill, its glueing a second append, a durable
prefix that falls behind a loss of power after a kill: three faults, four lines. A
scheduler meets another's lock with two of them and two tasks in opposite orders.
A base that moved under a merge needs a second merge or one commit by a person; a
stale trailer needs a second merge of the same task. A stage walks its longest
table in three tries, so a fourth failure shows the end. A handle of another
attempt needs a second worker; a verdict that is not at the tip, two commits. A pull request that is
verified, overtaken by another with the same contract, and verified again needs
three and two runs of the gate. More of each repeats the same situations, and the
safety properties that matter most are proved for every value. The workers and
writers are interchangeable, so the safety runs use symmetry on them; no liveness
run does. Deadlock is not checked: a task that is done, a bound that is used up
and a pull request nobody merges are states where nothing more happens.

Every property has an operator named `...Fault` (or `...Mixup`) beside the
definition it would replace: a mistake the code could plausibly have, with which
the run must fail.

## 5. Fairness

`FairSpec` of Engine gives weak fairness to `RunStep`, the process is scheduled
and what it awaits returns, and to `ClockRunsOut`, time passes. Workers and humans
get none: `RunsEnd` holds for a worker that never exits, because only the wall
clock is relied on (`runUntilBlocked` refuses to run unattended without one).

`Schedule` gives it to every scheduler that lives and to the end of every
`yukl run`, which `RunsEnd` justifies: the scheduler itself has no timeout
(`spawnSync` is given none). Kills get none. `Gate` gives it to the gate's own
steps, `TimeOut` among them, which is a timer `runCommand` sets; a command that
exits gets none, so `EveryGateEnds` holds for commands that never do.

## 6. Proofs

TLAPS checks, for every value of the constants allowed by `EngineAssumption` and
`DistinctIds` - any stages with runtimes, agents, edges, limits, commits and
bounds - and with humans deciding at any point:

| Theorem | Says |
| --- | --- |
| `TypesHold` | every variable keeps its type |
| `VerdictIsJudgedOnce` | no verdict commit is counted twice |
| `RunKeepsToStartLimit` | a run starts at most `MaxStarts` agents, those it lost included |
| `NoSecondWorker` | given `StartProof` and `StatusProof`, no stage has two live workers that no human has ruled on |

None of the properties is inductive alone. `IType` adds to `TypeOK` what a place
implies (`Placed`: a step at `call` is at a stage with a runtime, at `verdict` it
has a commit in hand). `VerdictJudgedOnce` needs that a counted commit is in the
log's `consumed` and that the view a verdict is judged by is not older than the
log. `RunWithinStartLimit` needs the starts the log does not show: a spawned
worker is counted in the log, or is the one at hand, or the run cannot start
another. `NoSecondWorker` rests on `StartInv`: every unsettled live worker is the
open handle of its stage, or its stage has a start of unknown outcome
(`Accounted`); the two exclude each other (`NotBoth`); the view a step dispatches
on differs from the log only by what humans cleared since (`FreshRead`); where a
step has a start to make or a worker to judge, its stage has no unsettled worker
but the one it just made (`ClearStage`, `StartUnderWay`). Most steps change none
of this: `QuietStep` says so once, and each invariant is then proved against the
few that are not quiet. TLC checked these invariants on the instances above
before they were proved.

The same module proves what holds when humans decide between runs (`~Concurrent`, as in
`engine_quiet`), still for every value of the other constants:

| Theorem | Says |
| --- | --- |
| `MovesByFinishing` | `MovesByFinishingCurrentStage` |
| `ReviewEarned` | `ReviewIsEarned`, given that an agent does the audit |
| `BranchMergedOnce` | `MergedOnce`, given `MergeProof` |
| `HumanEdgesWait` | `HumanEdgesWaitForHumans` |

Every step of a run rests, reads the log, or goes on with the state it read
(`RunShapes`), all but the step that appends the stage_done, whose effect on the
replayed state is a lemma of its own (`DoneMoves`, `Advances`). `SoloInv` follows:
the state a step judges by is the state of the log. `EarnedInv` adds that a run
about to complete the audit has a recorded verdict that passed. `MergeInv` ties
the merge to the log: a run about to merge has its mark in the log and no merge
behind it, and once there is a merge the mark or the closed state keeps every
later run away; a merge that fails after it was made would close the mark, hence
`MergeProof`. `HumanEdgesWait` needs none of this, only that a run asks the policy
before it merges (`MergeAllowed`). With decisions beside a run the state moves between the read and
the append, and the first of them fails: section 7.

Last, `EngineProofs` proves the folds themselves, over `TaskLogFold`, for logs of any
length and any events: `OpenStartIsTold` (`OpenStageIsUnclosedStart`),
`VerdictIsTold` (`VerdictOfThisAttempt`) and `ReplayIsAuthorised`
(`MovesAreAuthorised`). The first two are inductive together with the type of the
fold (`FoldInv`): what the log says changes, event by event, as `Apply` changes the
view. The engine's proofs use only the view, so these are what ties the view to the
log it stands for. The attempt to prove `VerdictOfThisAttempt` showed that it read a
verdict of another stage as one of the audit, which `verdictThisAttempt` and
`verdictConsumed` do not (`engine.js` 330-337); `Apply` and the property now ask for
the stage, and `MCTaskLogFold` has such an event.

For `Locks`, under `LockAssumption`, with any set of processes, number of
attempts and deaths: `TypesHold`, `HoldersAreAlone` (`MutualExclusion`) and
`OnlyStaleTaken` (`OnlyStaleLocksAreTaken`). `LockInv` is the inductive
invariant. A guard belongs to a process that is alive and reclaiming, or is not
written, which no reader can tell dead (`GuardIsLive`), and who was read in one and
is still to be judged is alive (`MetIsLive`); so nobody
removes it as stale (`GuardIsNeverStale`) and two processes are never between
taking and dropping it (`GuardIsMine`). Only there is a stale lock removed, so the
one found stale again stays until then (`StaleStaysStale`), and what a live
process created (`CreatedIsMine`) or was told it has (`OwnedIsMine`) stays its
own. It holds until a reclaimer dies with its guard, somebody goes between the
reading and the judging of its guard, or a human uses force (`GuardHeld`); the code's
own header claims it past the second of these, where it fails.

`NothingLeftInTheWay` (`NextAcquirerIsNotBlocked`) and `NotEveryoneIsRefused`
(`SomeoneAcquires`) have an invariant of their own, `QuietInv`, for they hold after
force, orphaned guards and guards judged late too. A file that was created is with someone who will
write it, or who will remove it, or who is dead (`Tended`). And while nobody has
won, died or failed to write, somebody is about to write the lock, or nobody has
created it and somebody will still try it (`Fair`): an attempt fails at most once for
the dead owner's lock, which is gone then, and who is turned away by a guard is
turned away by one who will try the lock. That takes a process and two attempts each,
which the theorem assumes (`Procs # {}`, `MaxTries > 1`; `MAX_ATTEMPTS` is 3): with
one attempt each, everyone can be refused.

`ScheduleProofs`, under `ScheduleAssumption`, for any schedulers, task lists and
kills: `DrivenByOne` (`OneLivingDriver`) and `DoneHoldsNone` (`LocksReleased`).
The lock is not mentioned by the first property and the runs are not by the
second; `ScheduleInv` ties them: for a scheduler that lives, a task is in hand
exactly while its lock is its own (`Held`), its runs are the ones it waits for
(`Awaited`), and outside its present wave nothing is under way (`Elsewhere`,
without which the next wave could begin a task twice).

`OverlapIsConservative` (`OverlapIsSound`) and `NoFileIsShared` (`NoSharedFile`) add
`ScopesAssumption`: names, wildcards and the marks are different things. What is
proved of a pattern is `UnderItsPrefix`: every path it matches begins with the
names of `ScopePrefix`, for up to a wildcard a match takes the pattern's segments one
by one (`MatchWalk`). Two prefixes of one path are one within the other, so patterns
with a path in common are taken to overlap (`CommonFileOverlaps`), whatever their
length. `Underway` says that a scheduler that has begun is in a wave of a plan that
keeps apart what overlaps (`PlanWavesKeepsApart`), and with `Elsewhere` its runs are
of that wave.

`LandingProofs`, under `LandingAssumption`, for any tasks, changes, processes and
moves of others: `TypesHold` (with at most one merge of a process on the base),
`BaseGrows` (`BaseOnlyGrows`), `RefusalLeavesNothing` (`RefusedLeavesNothing`),
`OnlyPassedLands` (`LandsWhatPassed`) and `HeadIsFound` (`StatusFindsHead`).
What `RefusalLeavesNothing` says ends where GitHub is asked: local Git may refuse at
any step, GitHub's adapter before that one, and a failed reply of `gh` is no refusal.
`LandingInv` says what a process that has checked its branch still knows of it
(`Fresh`) and what a local merge has in hand: nothing, or one merge of its own on
the base it read (`Prepared`). `StepKinds` shows that every step leaves the base,
adds a commit of a person, or adds the merge of one process that is then answered, ok
or failed (`Answered`); the
facts about the base (`BaseInv`) are then proved against those three kinds rather
than against thirteen actions.

`EventLogProofs`, under `EventLogAssumption` and `OneAtATime` (`Serial`, no short
write: a run alone with its log, which is what `event_log` instantiates), for any
length of log and number of kills and power cuts:
`FileIsDurableLog` (the refinement `KeepsItsPromise` of `DurableLog`),
`ChainAlwaysVerifies` (`ChainVerifies`), `StatusFindsItsHead` (`StatusAfterMerge`)
and `LogTyped`. `LogInv` says what a process knows at each place of `appendEvent`:
the lines it read are the file's until it has written, the tail is gone once it
has truncated, and what it is about to return is the last line and durable
(`Knows`). Every step leaves the lines, adds one chained record, or cuts what is
not durable (`Stays`, `Grows`, `IsCut`). A line holds the hash of another, so no
set contains all lines; the types say that some set contains those there are.
Without `OneAtATime` the refinement fails, as section 7 shows.

`TamperingIsSeen` (`TamperingShows`) adds that the recorded head is the hash of the
last line there was (`Recorded`) and that the lines it vouches for were a log
(`HeadLog`). Two logs that hold together and agree on one line agree on every line
before it (`ChainsMeet`); a log that status accepts has a line with the head's hash,
so it begins with what the head vouches for (`Vouched`), whichever edit, removal,
insertion or rewrite it came from. A hash is injective, which is all that is assumed
of SHA-256.

`OrcaProofs`, under `OrcaAssumption`, for any dispatches, settings, kinds of commit and
bounds: `NoneForgotten` (`NoWorkerForgotten`), `AdvancesOnEnforced`
(`AdvancesOnWhatWasEnforced`) and `VerdictOfItsCommit` (`VerdictIsOfItsCommit`).
`StartInv` says which worker may run at each place of a start: none that is not
excused before the call and after a proven stop, only the one in hand in between.
`JudgeInv` adds that whoever is judged has succeeded, so its worktree changes only by
late commits, and `VerdictInv` that a verdict stays that of its commit as the worktree
grows (`ContentKept`) and its commit the anchor (`AnchorKept`). The newest commit that
touches the artefact exists because the natural numbers are well founded
(`HasLargest`).

`AttemptsProofs`, under `AutonomyAssumption`, `DiagnosisAssumption` and
`AttemptsAssumption`, for any runtimes, stages, policies that validate, observations
and length of log: `LevelsAreEarned` (`LevelMovesForAReason`), `NothingIsGiven`
(`NothingGivenUnearned`), `NoTryIsRepeated` (`NoTryRepeated`), `ViolationsAreStopped`
(`ViolationsStop`) and `SameFailureIsStopped` (`SameFailureStops`). The first two need
of a policy only that it passed its schema, and what `Max` is of a finite set of
thresholds (`Reached`, `Capped`). The others rest on `HistoryInv`: each decision
recorded is what `Diagnose` makes of its failure and of the decisions before it, and
stays so. A try is then the first entry of its category's table that was not tried on
the inputs it would get (`DecidedAs`); the same failure again gets the same inputs for
every entry but apprising, whose inputs are the failure before, so a table of three is
used up by the fourth. The attempt to prove `NothingGivenUnearned` failed where a
stage has no runtime: the policy is asked with an empty record there, which the
property now says.

`GateProofs`, under `ScopesAssumption` and `GateAssumption`, for any pull requests,
trees, contracts and number of verifications: `AuthorisedByTheBase`
(`AuthorisedBeforehand`), `OnePullPerIntent` (`OneIntentOnePull`) and `ProvedByTheBase`
(`ProofsRan`). `GateInv` says of a verification under way what it has established so
far (`Verified`): its settings are those of the tree it began with, each contract it
accepted was within an intent and not merged yet on trees the base has been since
(`Allowed`), and the claims it has been through ran (`Proved`); and that what is
merged passed and is not verified again (`MergedPassed`). What a pull request brings
is settled when it is opened, because trees are only added to the base (`PullKept`),
so another's merge takes none of it back (`CheckedKept`).

How recursion is reasoned about. The folds over a list (`PlanWaves`, `Rewritten`) and
the match of a pattern are recursive functions; that there is one is proved by the
smallest number for which there were none (`WFMin` of the library on the natural
numbers), and what it computes by the smallest position at which it did not
(`Smallest`, `Largest`), for the library's induction rules take an operator as a
parameter and cannot be used here.

Out of the prover's reach and left to TLC: `RunsEnd`, `EverySchedulerEnds` and
`EveryGateEnds`, which are liveness. Every other property of a passing run is stated by
a theorem; where the theorem names what it assumes (`StartProof`, `StatusProof`,
`MergeProof`, `~Concurrent`, `OneAtATime`), the run that checks the property instantiates it so.
`NoStartBesideALiveHandle` is refuted, not proved.

## 7. Disagreements with the documentation

`docs/YUKL_ARCHITECTURE.md` and comments, against the code. The first is a run of
`PROJECT.json`; the others are shown by the configuration named, which TLC refutes
when run by hand (section 9).

* 4.8, lines 552-554, an open handle stays polled so no decision makes the engine
  start a worker beside a live one. The engine polls only the stage it is at:
  after an override to another stage it starts one (`live_beside`).
* 4.7, lines 480-487, a later run starts with the limit unspent and a run at its
  limit waits for its agent. A wall breach is recorded against the open handle
  and returned by every later step (`EngineLimitSticks.cfg`, `LaterRunUnspent`).
* 4.8, lines 519-520, a failed stage is started again if and only if its
  diagnosis chose retry. No step reads the decisions; the next run starts it
  (`EngineEscalated.cfg`, `RestartsOnlyOnRetry`).
* 4.4, line 426, a decision on a terminal task exits 1. The fold `decide` judges
  ends at `integrate` for a task that is done (`EngineClosedDecision.cfg`,
  `NoDecisionOnTerminalTask`).
* `stages.js` 8-9, an agent moves a task only by finishing its current stage. A
  stage_done judged before an override is replayed after it
  (`EngineLateMove.cfg`, `MovesByFinishingCurrentStage`).
* `locks.js` 24-26, a reclaimer that crashed leaves a stale guard that the next
  acquirer reclaims. Killed between creating and writing it, it leaves an empty
  guard, which is refused as unreadable for good (`LocksHeader.cfg`,
  `DeadReclaimersBlockNobody`).
* `locks.js` 28-31, one window is known to remain open, on the guard of a reclaimer
  that crashed mid-reclaim. There is another: an acquirer reads a guard (186), its
  owner finishes the reclaim, takes the lock and dies or ends before the acquirer asks
  whether it is alive (195), and the guard that the acquirer then removes (196) is one
  that a third has created since. Two hold the lock though no reclaimer died with its
  guard (`LocksHeader.cfg`, `OneWindowIsOpen`).
* `events.js` 12-15 and 90-91, a torn final line was never a committed event. With
  a second writer, `yukl decide` beside a run, the truncation can cut a line whose
  append has returned, and a short write is reported as stored
  (`EventLogTwoWriters.cfg`, `ToldIsKept`).
* `schedule.js` 25-28, a second scheduler cannot drive the same task twice. It can
  beside the run a killed scheduler left (`ScheduleTwice.cfg`, `OneRunPerTask`).
* `vcs-git-local.js` 25-31, a merge is refused when the checks are not ok. The
  branch is resolved again after them, so a push in between is merged unchecked
  (`LandingUnchecked.cfg`, `MergedWasChecked`).
* `vcs-github.js` 122-124, a rejected merge never touches the remote. True of what the
  adapter refuses; of the failures it returns in the same form when `gh pr merge` exits
  non-zero (153-157), not when GitHub had merged (`LandingUnchecked.cfg`,
  `FailureLeavesNothing`).
* `engine.js` 598-599, on resume a merge is only made again when it did not happen. A
  merge reported failed is not asked about: the failure closes the marker, and the next
  round merges anew (`EngineQuiet.cfg` with `MergeProof = FALSE`, `MergedOnce`).

Also met, not shown: `approve` clears the unknown start of the folded stage, which
may not be the engine's (4.8, lines 547-549); a failed start whose worker is
unnamed is retried (4.17, lines 836-839); a branch the base already holds merges
"ok" without a commit, so without a trailer; the tree a merge makes is never
itself checked; the third path violation in a row is an ordinary one again, for
`makeDecide` records the repetition as the category it compares with
(`diagnose.js` 183-187); a rename is covered by its new name alone (`yukl.js` 847);
a contract deleted from the base frees its intent for a second pull request;
enforcement judges the tip and the anchor is an earlier commit, which may hold a
change outside the intent that a later commit puts back; an audit resumed after its
verdict was recorded keeps the verdict and resolves the anchor anew, so a commit in
between makes them two commits (`engine.js` 385 and 430; `VerdictIsOfItsCommit` leaves
it out).

## 8. Not modelled

The components of section 1 marked `-`, and of the partly modelled ones:

* Orca: more than one stage of a task through one adapter; `stop`, which no code
  under `src/` calls; renames and the text of replies;
* `run.js`: stages whose runtime has no `workspace`, judged in the orchestrator's
  checkout (the fake runtime's case);
* `yukl.js`: the preview without `--base`, `init`, `render`; the Jujutsu
  synchronisation;
* `reopen.js`: nothing under `src/` appends the event; `TaskLog` replays it;
* temporary worktrees left behind by a merge that dies; a half-made worktree that
  a scheduler reuses; a process id that is used again;
* the text of specs, prompts and reports; argument parsing; the validators of
  documents and configuration, which are stateless and well covered by tests.

## 9. Running

    tlc -workers 2 -config EngineQuiet.cfg MCEngine
    tlc -workers 2 -config Locks.cfg MCLocks
    tlc -workers 2 -config EventLog.cfg MCEventLog
    tlc -workers 2 -config Orca.cfg MCOrca
    tlc -workers 2 -config ScheduleTwice.cfg MCSchedule      (refuted: section 7)
    tlapm EngineProofs.tla
    tlapm LocksProofs.tla
    tlapm EventLogProofs.tla
    tlapm ScheduleProofs.tla
    tlapm LandingProofs.tla
    tlapm AttemptsProofs.tla
    tlapm GateProofs.tla
    tlapm OrcaProofs.tla
