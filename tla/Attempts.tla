------------------------------ MODULE Attempts ------------------------------
(***************************************************************************)
(* What the log of a task accumulates over its attempts: the decisions     *)
(* each stage's failures were given (scripts/lifecycle/diagnose.js) and    *)
(* the record its runtimes earned (track.js), under a policy of the base.  *)
(***************************************************************************)
EXTENDS Diagnosis, Autonomy, FiniteSets

CONSTANTS
  Docs,        \* the policies a project may have committed, valid or not
  Observed,    \* the observations each stage may fail with
  MaxEvents    \* bound: events of one log

(* What the schema of a policy says of its types; a list has an end.       *)
ASSUME AttemptsAssumption ==
  /\ Observed \in [Stages -> SUBSET Observations] /\ MaxEvents \in Nat
  /\ \A doc \in Docs :
       /\ doc.ceiling \in Int /\ doc.maxAttempts \in Int
       /\ \A id \in DOMAIN doc.autonomy : /\ doc.autonomy[id].form \in {"human", "auto", "at"}
                                         /\ doc.autonomy[id].level \in Int
       /\ \A t \in doc.levels : t.level \in Int /\ t.minCleanRuns \in Int
       /\ IsFiniteSet(doc.levels)

VARIABLES
  policy,   \* the policy at the base, read once and valid
  history,  \* the decisions recorded for each stage, oldest first
  seen,     \* what each of them was made from
  ranBy,    \* the runtime of the last stage_started of each stage
  records,  \* the track record of each runtime
  events    \* how many events the log holds

vars == <<policy, history, seen, ranBy, records, events>>

Init ==
  /\ policy \in {doc \in Docs : PolicyViolations(doc) = {}}
  /\ history = [s \in Stages |-> <<>>]
  /\ seen = [s \in Stages |-> <<>>]
  /\ ranBy = [s \in Stages |-> NoRuntime]
  /\ records = [r \in Runtimes |-> NoRecord]
  /\ events = 0

-----------------------------------------------------------------------------
Logged == events < MaxEvents /\ events' = events + 1 /\ UNCHANGED policy

Start(s, r) ==
  /\ Logged
  /\ ranBy' = [ranBy EXCEPT ![s] = r]
  /\ UNCHANGED <<history, seen, records>>

Audit(r, verdict) ==
  /\ Logged
  /\ records' = AfterVerdict(records, r, verdict)
  /\ UNCHANGED <<history, seen, ranBy>>

Stop(s) ==
  /\ Logged
  /\ records' = AfterEnforcement(records, ranBy, s)
  /\ UNCHANGED <<history, seen, ranBy>>

(* A failure and its diagnosis, or a failure and a crash before it.        *)
Fail(s, obs) ==
  /\ Logged
  /\ history' = [history EXCEPT ![s] = Append(@, Diagnose(obs, @, policy.maxAttempts))]
  /\ seen' = [seen EXCEPT ![s] = Append(@, obs)]
  /\ UNCHANGED <<ranBy, records>>

FailUndiagnosed(s) ==
  /\ Logged
  /\ UNCHANGED <<history, seen, ranBy, records>>

Next ==
  \/ \E s \in Stages : Stop(s) \/ FailUndiagnosed(s)
  \/ \E s \in Stages, r \in Runtimes : Start(s, r)
  \/ \E r \in Runtimes, verdict \in {"pass", "fail"} : Audit(r, verdict)
  \/ \E s \in Stages : \E obs \in Observed[s] : Fail(s, obs)

Spec == Init /\ [][Next]_vars
=============================================================================
