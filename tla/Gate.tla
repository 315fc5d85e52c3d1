--------------------------------- MODULE Gate ----------------------------------
(***************************************************************************)
(* yukl verify --base (runVerify of scripts/yukl.js): the gate that a pull *)
(* request passes before people merge it.  What governs a pull request is  *)
(* read from the base, by name and at several moments, while proof         *)
(* commands run and other pull requests are merged.  A tree is a function  *)
(* from paths, as in Scopes, to contents.                                  *)
(***************************************************************************)
EXTENDS Scopes

CONSTANTS
  Pulls,     \* pull requests, each of one commit and never pushed to again
  Tasks,
  Offers,    \* the changes each may bring: functions from paths to contents
  Bases,     \* the trees the base may start from
  Markdown,  \* the names that end in .md
  Absent,    \* the content of a path that names no file
  Nothing,   \* no task, no configuration
  MaxRuns    \* bound: the verifications of each pull request

Contracts == <<".orchestration", "contracts">>
Intents   == <<".orchestration", "intents">>

ContractFile(t) == Append(Contracts, t)
IntentFile(t)   == Append(Intents, t)
YuklConfig      == <<"yukl.config.json">>
LegacyIntent    == <<".yukl-intent.yml">>

ASSUME GateAssumption ==
  /\ Nothing \notin Tasks /\ MaxRuns \in [Pulls -> Nat]
  /\ \A tree \in Bases : {YuklConfig, LegacyIntent} \subseteq DOMAIN tree
  /\ \A p \in Pulls, tree \in Bases : \A c \in Offers[p] : DOMAIN c \subseteq DOMAIN tree
  /\ \A p \in Pulls : \A c \in Offers[p] : \A t \in Tasks :
       ContractFile(t) \in DOMAIN c /\ c[ContractFile(t)] # Absent
         => LET proofs == c[ContractFile(t)].proofs IN proofs \in Seq(ToSet(proofs))

VARIABLES
  line,   \* the trees the base has been, the newest last
  merged, \* the pull request that made each but the first
  fork,   \* which of them each pull request branched from
  change, \* what each brings
  gate    \* the verification of each

vars == <<line, merged, fork, change, gate>>

Base    == Last(line)
Fork(p) == line[fork[p]]
Tip(p)  == [f \in DOMAIN change[p] \cup DOMAIN Fork(p) |->
              IF f \in DOMAIN change[p] THEN change[p][f] ELSE Fork(p)[f]]

(* git diff --name-only base...HEAD; renames, of which it lists only the   *)
(* new name, are left out.                                                 *)
Diff(p) == {f \in DOMAIN change[p] : change[p][f] # Fork(p)[f]}

IsContractFile(f) == Len(f) = 3 /\ IsPrefix(Contracts, f)

IsAllowedDocPath(f) ==
  \/ Len(f) > 1 /\ f[1] = "docs"
  \/ Len(f) > 2 /\ (IsPrefix(Intents, f) \/ IsPrefix(Contracts, f))
  \/ Len(f) = 1 /\ f[1] \in Markdown

(* The tasks of the contracts a pull request adds or changes.              *)
Carried(p) == {t \in Tasks : ContractFile(t) \in Diff(p) /\ Tip(p)[ContractFile(t)] # Absent}

Blank == [at |-> "none", began |-> 0, runs |-> 0, ok |-> TRUE, mode |-> Nothing,
          allowlist |-> {}, left |-> {}, verified |-> {}, task |-> Nothing, claim |-> 0,
          exited |-> {}]

Init ==
  /\ line \in {<<tree>> : tree \in Bases}
  /\ merged = <<>>
  /\ fork = [p \in Pulls |-> 1]
  /\ change = [p \in Pulls |-> <<>>]
  /\ gate = [p \in Pulls |-> Blank]

-----------------------------------------------------------------------------
(* Settings: a set of commands, which must not be empty.                   *)
ParseYuklConfig(commands) ==
  [ok |-> commands # {}, mode |-> "config", allowlist |-> commands]

IntentAllowlist(commands) ==
  [ok |-> commands # {}, mode |-> "legacy", allowlist |-> commands]

ResolveGateConfig(tree) ==
  IF tree[YuklConfig] # Absent THEN ParseYuklConfig(tree[YuklConfig])
  ELSE IF tree[LegacyIntent] # Absent THEN IntentAllowlist(tree[LegacyIntent])
  ELSE [ok |-> FALSE, mode |-> Nothing, allowlist |-> {}]

(* A claim is a command and the exit code it is to have.                   *)
ContractViolations(t, contract) ==
  (IF contract.task_id # t THEN {"task_id"} ELSE {})
    \cup (IF contract.proofs = <<>> \/ \E claim \in ToSet(contract.proofs) : claim.code # 0
            THEN {"empirical_proof"} ELSE {})
    \cup (IF contract.touched = {} THEN {"files_touched"} ELSE {})

TaskIntentViolations(intent) == IF intent.allowed = {} THEN {"allowed_paths"} ELSE {}

IntentFor(t, tree) ==
  LET intent == tree[IntentFile(t)]
  IN IF intent = Absent THEN Nothing
     ELSE IF TaskIntentViolations(intent) # {} THEN Nothing ELSE intent

CheckIntentPaths(files, intent) ==
  {f \in files : /\ ~IsContractFile(f)
                 /\ \/ \E p \in intent.forbidden : MatchesGlob(f, p)
                    \/ ~\E p \in intent.allowed : MatchesGlob(f, p)}

TouchedBy(p, ts) == UNION {Tip(p)[ContractFile(t)].touched : t \in ts}

(* Every file but contracts is covered, and only what changed is listed;   *)
(* there is a contract, or the gate would not come here.                   *)
CheckScope(p, verified) ==
  LET files == Diff(p)
  IN /\ {f \in files : ~IsContractFile(f)} \subseteq TouchedBy(p, verified)
     /\ TouchedBy(p, verified) \subseteq files

-----------------------------------------------------------------------------
Becomes(p, state) == gate' = [gate EXCEPT ![p] = state] /\ UNCHANGED <<line, merged, fork, change>>

Ended == {"passed", "failed"}
Verdict(ok) == IF ok THEN "passed" ELSE "failed"

(* The changed files, and unless they are documentation the settings of    *)
(* the base.                                                               *)
DiscoverFault(p) ==
  /\ gate[p].at = "queued"
  /\ LET config == ResolveGateConfig(Tip(p))
     IN Becomes(p,
          IF Carried(p) = {}
            THEN [gate[p] EXCEPT !.began = Len(line),
                                 !.at = Verdict(\A f \in Diff(p) : IsAllowedDocPath(f))]
          ELSE IF config.ok
            THEN [gate[p] EXCEPT !.began = Len(line), !.left = Carried(p), !.at = "contracts",
                                 !.mode = config.mode, !.allowlist = config.allowlist]
            ELSE [gate[p] EXCEPT !.began = Len(line), !.at = "failed"])

Discover(p) ==
  /\ gate[p].at = "queued"
  /\ LET config == ResolveGateConfig(Base)
     IN Becomes(p,
          IF Carried(p) = {}
            THEN [gate[p] EXCEPT !.began = Len(line),
                                 !.at = Verdict(\A f \in Diff(p) : IsAllowedDocPath(f))]
          ELSE IF config.ok
            THEN [gate[p] EXCEPT !.began = Len(line), !.left = Carried(p), !.at = "contracts",
                                 !.mode = config.mode, !.allowlist = config.allowlist]
            ELSE [gate[p] EXCEPT !.began = Len(line), !.at = "failed"])

AlreadyMergedFault(p, t) == Fork(p)[ContractFile(t)] # Absent

AlreadyMerged(p, t) == Base[ContractFile(t)] # Absent

WithinIntentFault(p, t, contract) ==
  LET intent == IntentFor(t, Tip(p))
  IN intent # Nothing /\ CheckIntentPaths(contract.touched, intent) = {}

WithinIntent(p, t, contract) ==
  LET intent == IntentFor(t, Base)
  IN intent # Nothing /\ CheckIntentPaths(contract.touched, intent) = {}

(* A contract that is refused is neither proved nor counted as covering.   *)
Judge(p) ==
  /\ gate[p].at = "contracts"
  /\ \E t \in gate[p].left :
       LET contract == Tip(p)[ContractFile(t)]  config == gate[p].mode = "config"
           without  == [gate[p] EXCEPT !.left = @ \ {t}]
       IN Becomes(p,
            IF (config /\ AlreadyMerged(p, t)) \/ ContractViolations(t, contract) # {}
              THEN [without EXCEPT !.ok = FALSE]
              ELSE [without EXCEPT
                     !.verified = @ \cup {t}, !.task = t, !.claim = 1, !.at = "proofs",
                     !.ok = @ /\ (config => WithinIntent(p, t, contract))])

Proofs(p) == Tip(p)[ContractFile(gate[p].task)].proofs
Claim(p)  == Proofs(p)[gate[p].claim]

(* On to the next claim of the contract, or to the next contract.          *)
Onward(p, ok) ==
  IF gate[p].claim < Len(Proofs(p))
    THEN [gate[p] EXCEPT !.at = "proofs", !.claim = @ + 1, !.ok = @ /\ ok]
    ELSE [gate[p] EXCEPT !.at = "contracts", !.task = Nothing, !.ok = @ /\ ok]

(* A command that is not on the allowlist is not executed.                 *)
Prove(p) ==
  /\ gate[p].at = "proofs"
  /\ Becomes(p, IF Claim(p).command \in gate[p].allowlist
                  THEN [gate[p] EXCEPT !.at = "running"] ELSE Onward(p, FALSE))

(* The command exits, which it may never do, or its time is up.            *)
Exit(p) ==
  /\ gate[p].at = "running"
  /\ \E code \in {0, 1} : Becomes(p,
       [Onward(p, code = Claim(p).code) EXCEPT
          !.exited = IF code = 0 THEN @ \cup {Claim(p).command} ELSE @])

TimeOutFault(p) ==
  /\ gate[p].at = "running"
  /\ Becomes(p, [gate[p] EXCEPT !.at = "closing"])

TimeOut(p) ==
  /\ gate[p].at = "running"
  /\ Becomes(p, Onward(p, FALSE))

Conclude(p) ==
  /\ gate[p].at = "contracts" /\ gate[p].left = {}
  /\ Becomes(p, [gate[p] EXCEPT !.at = Verdict(gate[p].ok /\ CheckScope(p, gate[p].verified))])

-----------------------------------------------------------------------------
(* People: a pull request is opened from the base of the moment.           *)
Open(p) ==
  /\ gate[p].at = "none"
  /\ fork' = [fork EXCEPT ![p] = Len(line)]
  /\ \E c \in Offers[p] : change' = [change EXCEPT ![p] = c]
  /\ gate' = [gate EXCEPT ![p].at = "queued", ![p].runs = 1]
  /\ UNCHANGED <<line, merged>>

Unmerged(p) == p \notin ToSet(merged)

Rerun(p) ==
  /\ gate[p].at \in Ended /\ Unmerged(p) /\ gate[p].runs < MaxRuns[p]
  /\ Becomes(p, [Blank EXCEPT !.at = "queued", !.runs = gate[p].runs + 1])

(* No conflict: each file is on the base as it was, or as it is to be.     *)
Merge(p) ==
  /\ gate[p].at = "passed" /\ Unmerged(p)
  /\ \A f \in Diff(p) : Base[f] \in {Fork(p)[f], Tip(p)[f]}
  /\ line' = Append(line, [f \in DOMAIN Base |-> IF f \in Diff(p) THEN Tip(p)[f] ELSE Base[f]])
  /\ merged' = Append(merged, p)
  /\ UNCHANGED <<fork, change, gate>>

Step(p) == Discover(p) \/ Judge(p) \/ Prove(p) \/ TimeOut(p) \/ Conclude(p)

Next == \E p \in Pulls : Step(p) \/ Exit(p) \/ Open(p) \/ Rerun(p) \/ Merge(p)

(* The gate goes on; its timer fires when a command does not exit.         *)
Fairness == \A p \in Pulls : WF_vars(Step(p))

Spec == Init /\ [][Next]_vars /\ Fairness
=============================================================================
