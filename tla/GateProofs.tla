----------------------------- MODULE GateProofs ------------------------------
(***************************************************************************)
(* Proofs about Gate, for any pull requests, trees, contracts and number   *)
(* of verifications: what reaches the base was allowed by an intent of the *)
(* base, once, and proved by commands the base already trusted.            *)
(***************************************************************************)
EXTENDS GateProperties, TLAPS

Underway == {"contracts", "proofs", "running"}
Places   == {"none", "queued"} \cup Underway \cup Ended

Offered(p, t) == Tip(p)[ContractFile(t)]

(* A merge makes one tree, and the fields of a verification are Blank's.   *)
Shape ==
  /\ merged \in Seq(Pulls)
  /\ line \in Seq({line[i] : i \in DOMAIN line}) /\ Len(line) = Len(merged) + 1
  /\ fork = [p \in Pulls |-> fork[p]] /\ change = [p \in Pulls |-> change[p]]
  /\ gate = [p \in Pulls |-> gate[p]]
  /\ \A p \in Pulls :
       /\ DOMAIN gate[p] = DOMAIN Blank
       /\ gate[p].at \in Places /\ gate[p].ok \in BOOLEAN /\ gate[p].claim \in Nat

(* A pull request that was opened branched from a tree of the base.        *)
Opened ==
  \A p \in Pulls : gate[p].at # "none" =>
    fork[p] \in 1..Len(line) /\ change[p] \in Offers[p]

(* What is merged passed, and is not verified again.                       *)
MergedPassed == \A i \in DOMAIN merged : gate[merged[i]].at = "passed"

-----------------------------------------------------------------------------
(* What a verification has established of pull request p so far.           *)

(* The settings are those of the tree it began with.                       *)
Configured(p) ==
  LET config == ResolveGateConfig(line[gate[p].began])
  IN config.ok /\ gate[p].mode = config.mode /\ gate[p].allowlist = config.allowlist

(* A contract it accepted was within an intent, and not yet merged, on     *)
(* trees the base has been since it began.                                 *)
Allowed(p, t) ==
  gate[p].mode = "config" =>
    /\ \E j \in gate[p].began .. Len(line) :
         /\ IntentFor(t, line[j]) # Nothing
         /\ CheckIntentPaths(Offered(p, t).touched, IntentFor(t, line[j])) = {}
    /\ \E j \in gate[p].began .. Len(line) : line[j][ContractFile(t)] = Absent

(* The claims of a contract it has been through ran and exited with zero:  *)
(* all of them, or those before the one it is at.                          *)
At(p, t) == gate[p].at \in {"proofs", "running"} /\ gate[p].task = t

Proved(p, t) ==
  \A n \in DOMAIN Offered(p, t).proofs :
    (At(p, t) => n < gate[p].claim) =>
      Offered(p, t).proofs[n].command \in gate[p].exited \cap gate[p].allowlist

Verified(p) ==
  /\ Configured(p)
  /\ gate[p].left \subseteq Carried(p) /\ gate[p].verified \subseteq Carried(p)
  /\ \A t \in gate[p].verified : ContractViolations(t, Offered(p, t)) = {}
  /\ gate[p].at \in {"proofs", "running"} =>
       gate[p].task \in gate[p].verified /\ gate[p].claim \in 1..Len(Proofs(p))
  /\ gate[p].at = "running" => Claim(p).command \in gate[p].allowlist
  /\ gate[p].ok =>
       /\ Carried(p) \subseteq gate[p].left \cup gate[p].verified
       /\ \A t \in gate[p].verified : Allowed(p, t) /\ Proved(p, t)

Checked(p) ==
  /\ gate[p].at \in {"none", "queued"} => gate[p].verified = {}
  /\ gate[p].at \in Underway \cup Ended => gate[p].began \in 1..Len(line)
  /\ gate[p].at \in Underway => Verified(p)
  /\ gate[p].at = "passed" =>
       IF Carried(p) = {} THEN \A f \in Diff(p) : IsAllowedDocPath(f)
       ELSE /\ Verified(p) /\ gate[p].ok /\ gate[p].left = {}
            /\ CheckScope(p, gate[p].verified)

GateInv == Shape /\ Opened /\ MergedPassed /\ \A p \in Pulls : Checked(p)

-----------------------------------------------------------------------------
(* What a pull request brings is settled when it is opened: trees are only *)
(* added to the base.                                                      *)
LEMMA PullKept ==
  ASSUME Shape, Opened, NEW p \in Pulls, gate[p].at # "none",
         \A j \in 1..Len(line) : line'[j] = line[j],
         fork'[p] = fork[p], change'[p] = change[p]
  PROVE  /\ Fork(p)' = Fork(p) /\ Tip(p)' = Tip(p) /\ Diff(p)' = Diff(p)
         /\ Carried(p)' = Carried(p)
         /\ \A ts : TouchedBy(p, ts)' = TouchedBy(p, ts)
         /\ \A t : Offered(p, t)' = Offered(p, t)
<1>1. Fork(p)' = Fork(p)
  BY DEF Opened, Fork
<1>2. Tip(p)' = Tip(p) /\ Diff(p)' = Diff(p)
  BY <1>1 DEF Tip, Diff
<1>3. Carried(p)' = Carried(p)
  BY <1>2 DEF Carried
<1>4. \A ts : TouchedBy(p, ts)' = TouchedBy(p, ts)
  BY <1>2 DEF TouchedBy
<1>5. \A t : Offered(p, t)' = Offered(p, t)
  BY <1>2 DEF Offered
<1>6. QED
  BY <1>1, <1>2, <1>3, <1>4, <1>5

(* What a contract claims is a list.                                       *)
LEMMA ClaimsListed ==
  ASSUME Shape, Opened, NEW p \in Pulls, gate[p].at # "none", NEW t \in Carried(p)
  PROVE  /\ t \in Tasks
         /\ Offered(p, t).proofs \in Seq(ToSet(Offered(p, t).proofs))
         /\ DOMAIN Offered(p, t).proofs = 1..Len(Offered(p, t).proofs)
<1>1. /\ t \in Tasks /\ ContractFile(t) \in DOMAIN change[p]
      /\ Tip(p)[ContractFile(t)] = change[p][ContractFile(t)]
      /\ change[p][ContractFile(t)] # Absent
  BY DEF Carried, Diff, Tip
<1>2. Offered(p, t) = change[p][ContractFile(t)]
  BY <1>1 DEF Offered
<1>3. change[p] \in Offers[p]
  BY DEF Opened
<1>4. Offered(p, t).proofs \in Seq(ToSet(Offered(p, t).proofs))
  BY <1>1, <1>2, <1>3, GateAssumption
<1>5. QED
  BY <1>1, <1>4

(* The verification of another pull request is none of a step's business,  *)
(* whatever it adds to the base.                                           *)
LEMMA CheckedKept ==
  ASSUME Shape, Opened, NEW p \in Pulls, Checked(p), gate'[p] = gate[p],
         Len(line) \in Nat, Len(line') \in Nat, Len(line) <= Len(line'),
         \A j \in 1..Len(line) : line'[j] = line[j],
         gate[p].at # "none" => fork'[p] = fork[p] /\ change'[p] = change[p]
  PROVE  Checked(p)'
<1>1. CASE gate[p].at \in {"none", "queued"}
  BY <1>1 DEF Checked, Underway, Ended
<1>2. CASE gate[p].at = "failed"
  BY <1>2 DEF Checked, Underway, Ended
<1>3. CASE gate[p].at \in Underway \cup {"passed"}
  <2>1. /\ Diff(p)' = Diff(p) /\ Carried(p)' = Carried(p) /\ Tip(p)' = Tip(p)
        /\ \A ts : TouchedBy(p, ts)' = TouchedBy(p, ts)
        /\ \A t : Offered(p, t)' = Offered(p, t)
    BY <1>3, PullKept DEF Underway
  <2>2. gate[p].began \in 1..Len(line) /\ gate'[p].began \in 1..Len(line')
    BY <1>3 DEF Checked, Ended
  <2>3. Configured(p) => Configured(p)'
    BY <2>2 DEF Configured
  <2>4. \A t : Allowed(p, t) => Allowed(p, t)'
    <3> SUFFICES ASSUME NEW t, Allowed(p, t), gate[p].mode = "config" PROVE Allowed(p, t)'
      BY DEF Allowed
    <3>1. PICK j \in gate[p].began .. Len(line) :
            /\ IntentFor(t, line[j]) # Nothing
            /\ CheckIntentPaths(Offered(p, t).touched, IntentFor(t, line[j])) = {}
      BY DEF Allowed
    <3>2. PICK k \in gate[p].began .. Len(line) : line[k][ContractFile(t)] = Absent
      BY DEF Allowed
    <3>3. /\ j \in gate'[p].began .. Len(line') /\ line'[j] = line[j]
          /\ k \in gate'[p].began .. Len(line') /\ line'[k] = line[k]
      BY <2>2
    <3>4. Offered(p, t)' = Offered(p, t)
      BY <2>1
    <3>5. /\ IntentFor(t, line'[j]) # Nothing
          /\ CheckIntentPaths(Offered(p, t)'.touched, IntentFor(t, line'[j])) = {}
          /\ line'[k][ContractFile(t)] = Absent
      BY <3>1, <3>2, <3>3, <3>4
    <3>6. QED
      BY <3>3, <3>5 DEF Allowed
  <2>5. \A t : Proved(p, t) => Proved(p, t)'
    BY <2>1 DEF Proved, At
  <2>6. Proofs(p)' = Proofs(p) /\ Claim(p)' = Claim(p)
    BY <2>1 DEF Proofs, Claim
  <2>7. Verified(p) => Verified(p)'
    BY <2>1, <2>3, <2>4, <2>5, <2>6 DEF Verified
  <2>8. CheckScope(p, gate[p].verified) => CheckScope(p, gate[p].verified)'
    BY <2>1 DEF CheckScope
  <2>9. QED
    BY <1>3, <2>1, <2>2, <2>7, <2>8 DEF Checked
<1>4. QED
  BY <1>1, <1>2, <1>3 DEF Shape, Places, Ended

(* A step of one verification keeps the invariant when it keeps what that  *)
(* verification has established.                                           *)
LEMMA BecomesKeeps ==
  ASSUME GateInv, NEW p \in Pulls, NEW state, Becomes(p, state),
         gate[p].at # "none", p \notin ToSet(merged),
         DOMAIN state = DOMAIN Blank, state.at \in Places, state.ok \in BOOLEAN,
         state.claim \in Nat, gate'[p] = state => Checked(p)'
  PROVE  GateInv'
<1>1. /\ gate'[p] = state /\ \A q \in Pulls \ {p} : gate'[q] = gate[q]
      /\ gate' = [q \in Pulls |-> gate'[q]]
      /\ line' = line /\ merged' = merged /\ fork' = fork /\ change' = change
  BY DEF GateInv, Shape, Becomes
<1>2. Shape'
  BY <1>1 DEF GateInv, Shape
<1>3. Opened'
  BY <1>1 DEF GateInv, Opened
<1>4. MergedPassed'
  <2>1. \A i \in DOMAIN merged : merged[i] \in Pulls \ {p}
    BY DEF GateInv, Shape, ToSet
  <2>2. QED
    BY <1>1, <2>1 DEF GateInv, MergedPassed
<1>5. \A q \in Pulls \ {p} : Checked(q)'
  <2> TAKE q \in Pulls \ {p}
  <2>1. Len(line) \in Nat
    BY DEF GateInv, Shape
  <2>2. QED
    BY <1>1, <2>1, CheckedKept DEF GateInv
<1>6. QED
  BY <1>1, <1>2, <1>3, <1>4, <1>5 DEF GateInv

LEMMA BecomesIs ==
  ASSUME Shape, NEW p \in Pulls, NEW state, Becomes(p, state)
  PROVE  gate'[p] = state /\ line' = line /\ fork' = fork /\ change' = change
BY DEF Shape, Becomes

(* Only a verification that passed is of a pull request that was merged.   *)
LEMMA NotYetMerged ==
  ASSUME GateInv, NEW p \in Pulls, gate[p].at # "passed"
  PROVE  p \notin ToSet(merged)
BY DEF GateInv, MergedPassed, ToSet

(* No step of a verification changes what the pull request brings.         *)
LEMMA PullStays ==
  ASSUME GateInv, NEW p \in Pulls, gate[p].at # "none",
         line' = line, fork' = fork, change' = change
  PROVE  /\ Fork(p)' = Fork(p) /\ Tip(p)' = Tip(p) /\ Diff(p)' = Diff(p)
         /\ Carried(p)' = Carried(p)
         /\ \A ts : TouchedBy(p, ts)' = TouchedBy(p, ts)
         /\ \A t : Offered(p, t)' = Offered(p, t)
BY PullKept DEF GateInv

-----------------------------------------------------------------------------
(* The steps of a verification (yukl.js runVerify), one by one.            *)

LEMMA DiscoverKeeps ==
  ASSUME GateInv, NEW p \in Pulls, Discover(p)
  PROVE  GateInv'
<1> DEFINE config == ResolveGateConfig(Base)
           state  == IF Carried(p) = {}
                       THEN [gate[p] EXCEPT !.began = Len(line),
                                            !.at = Verdict(\A f \in Diff(p) : IsAllowedDocPath(f))]
                     ELSE IF config.ok
                       THEN [gate[p] EXCEPT !.began = Len(line), !.left = Carried(p),
                                            !.at = "contracts", !.mode = config.mode,
                                            !.allowlist = config.allowlist]
                       ELSE [gate[p] EXCEPT !.began = Len(line), !.at = "failed"]
<1>1. gate[p].at = "queued" /\ Becomes(p, state)
  BY DEF Discover
<1>2. /\ DOMAIN gate[p] = DOMAIN Blank /\ gate[p].ok \in BOOLEAN /\ gate[p].claim \in Nat
      /\ gate[p].verified = {} /\ Len(line) \in Nat /\ Len(line) >= 1
  BY <1>1 DEF GateInv, Shape, Checked
<1>3. gate'[p] = state /\ line' = line /\ fork' = fork /\ change' = change
  BY <1>1, BecomesIs DEF GateInv
<1>4. Carried(p)' = Carried(p) /\ Diff(p)' = Diff(p)
  BY <1>1, <1>3, PullStays
<1>5. CASE Carried(p) = {}
  <2>1. /\ state.at = Verdict(\A f \in Diff(p) : IsAllowedDocPath(f))
        /\ state.began = Len(line) /\ state.ok = gate[p].ok /\ state.claim = gate[p].claim
        /\ DOMAIN state = DOMAIN Blank
    BY <1>2, <1>5 DEF Blank
  <2>2. state.at \in Ended
    BY <2>1 DEF Verdict, Ended
  <2>3. Checked(p)'
    BY <1>2, <1>3, <1>4, <1>5, <2>1, <2>2 DEF Checked, Ended, Underway, Verdict
  <2> HIDE DEF state
  <2>4. QED
    BY <1>1, <1>2, <2>1, <2>2, <2>3, NotYetMerged, BecomesKeeps DEF Places
<1>6. CASE Carried(p) # {} /\ config.ok
  <2>1. /\ state.at = "contracts" /\ state.began = Len(line) /\ state.left = Carried(p)
        /\ state.verified = {} /\ state.mode = config.mode /\ state.allowlist = config.allowlist
        /\ state.ok = gate[p].ok /\ state.claim = gate[p].claim
        /\ DOMAIN state = DOMAIN Blank
    BY <1>2, <1>6 DEF Blank
  <2>2. Base = line[Len(line)]
    BY DEF Base, Last
  <2> HIDE DEF state
  <2>3. Verified(p)'
    BY <1>3, <1>4, <1>6, <2>1, <2>2 DEF Verified, Configured
  <2>4. Checked(p)'
    BY <1>2, <1>3, <2>1, <2>3 DEF Checked, Ended, Underway
  <2>5. QED
    BY <1>1, <1>2, <2>1, <2>4, NotYetMerged, BecomesKeeps DEF Places, Underway
<1>7. CASE Carried(p) # {} /\ ~config.ok
  <2>1. /\ state.at = "failed" /\ state.began = Len(line)
        /\ state.ok = gate[p].ok /\ state.claim = gate[p].claim /\ DOMAIN state = DOMAIN Blank
    BY <1>2, <1>7 DEF Blank
  <2> HIDE DEF state
  <2>2. Checked(p)'
    BY <1>2, <1>3, <2>1 DEF Checked, Ended, Underway
  <2>3. QED
    BY <1>1, <1>2, <2>1, <2>2, NotYetMerged, BecomesKeeps DEF Places, Ended
<1>8. QED
  BY <1>5, <1>6, <1>7

(* A contract is judged once: what was accepted before it stays accepted.  *)
LEMMA JudgeKeeps ==
  ASSUME GateInv, NEW p \in Pulls, Judge(p)
  PROVE  GateInv'
<1>1. gate[p].at = "contracts"
  BY DEF Judge
<1> DEFINE contract(t) == Tip(p)[ContractFile(t)]
           config      == gate[p].mode = "config"
           without(t)  == [gate[p] EXCEPT !.left = @ \ {t}]
           refused(t)  == (config /\ AlreadyMerged(p, t)) \/ ContractViolations(t, contract(t)) # {}
           within(t)   == config => WithinIntent(p, t, contract(t))
           state(t)    == IF refused(t) THEN [without(t) EXCEPT !.ok = FALSE]
                          ELSE [without(t) EXCEPT
                                 !.verified = @ \cup {t}, !.task = t, !.claim = 1,
                                 !.at = "proofs", !.ok = @ /\ within(t)]
<1>2. PICK t \in gate[p].left : Becomes(p, state(t))
  BY DEF Judge
<1>3. /\ DOMAIN gate[p] = DOMAIN Blank /\ gate[p].ok \in BOOLEAN /\ gate[p].claim \in Nat
      /\ Len(line) \in Nat /\ gate[p].began \in 1..Len(line) /\ Verified(p)
  BY <1>1 DEF GateInv, Shape, Checked, Underway
<1>4. gate'[p] = state(t) /\ line' = line /\ fork' = fork /\ change' = change
  BY <1>2, BecomesIs DEF GateInv
<1>5. /\ Carried(p)' = Carried(p) /\ Tip(p)' = Tip(p)
      /\ \A u : Offered(p, u)' = Offered(p, u)
  BY <1>1, <1>4, PullStays
<1>6. t \in Carried(p) /\ contract(t) = Offered(p, t)
  BY <1>3 DEF Verified, Offered
<1>7. \A u : (gate'[p].mode = gate[p].mode /\ gate'[p].began = gate[p].began /\ Allowed(p, u))
               => Allowed(p, u)'
  BY <1>4, <1>5 DEF Allowed
<1>8. CASE refused(t)
  <2>1. /\ state(t).at = "contracts" /\ state(t).ok = FALSE /\ state(t).left = gate[p].left \ {t}
        /\ state(t).began = gate[p].began /\ state(t).mode = gate[p].mode
        /\ state(t).allowlist = gate[p].allowlist /\ state(t).verified = gate[p].verified
        /\ state(t).claim = gate[p].claim /\ DOMAIN state(t) = DOMAIN Blank
    BY <1>1, <1>3, <1>8 DEF Blank
  <2> HIDE DEF state
  <2>2. Verified(p)'
    BY <1>3, <1>4, <1>5, <2>1 DEF Verified, Configured
  <2>3. Checked(p)'
    BY <1>3, <1>4, <2>1, <2>2 DEF Checked, Ended, Underway
  <2>4. QED
    BY <1>1, <1>2, <1>3, <2>1, <2>3, NotYetMerged, BecomesKeeps DEF Places, Underway
<1>9. CASE ~refused(t)
  <2>1. /\ state(t).at = "proofs" /\ state(t).ok = (gate[p].ok /\ within(t))
        /\ state(t).left = gate[p].left \ {t} /\ state(t).verified = gate[p].verified \cup {t}
        /\ state(t).began = gate[p].began /\ state(t).mode = gate[p].mode
        /\ state(t).allowlist = gate[p].allowlist /\ state(t).exited = gate[p].exited
        /\ state(t).task = t /\ state(t).claim = 1 /\ DOMAIN state(t) = DOMAIN Blank
    BY <1>1, <1>3, <1>9 DEF Blank
  <2>2. ContractViolations(t, Offered(p, t)) = {} /\ ~(config /\ AlreadyMerged(p, t))
    BY <1>6, <1>9
  <2>3. 1 \in 1..Len(Offered(p, t).proofs)
    <3>1. Offered(p, t).proofs # <<>>
      BY <2>2 DEF ContractViolations
    <3>2. Offered(p, t).proofs \in Seq(ToSet(Offered(p, t).proofs))
      BY <1>1, <1>6, ClaimsListed DEF GateInv
    <3>3. QED
      BY <3>1, <3>2
  <2>4. state(t).ok => Allowed(p, t)'
    <3> SUFFICES ASSUME state(t).ok, config PROVE Allowed(p, t)'
      BY <1>4, <2>1 DEF Allowed
    <3>1. WithinIntent(p, t, Offered(p, t)) /\ ~AlreadyMerged(p, t)
      BY <1>3, <1>6, <2>1, <2>2
    <3>2. Base = line[Len(line)] /\ Len(line) \in gate[p].began .. Len(line)
      BY <1>3 DEF Base, Last
    <3>3. /\ IntentFor(t, line[Len(line)]) # Nothing
          /\ CheckIntentPaths(Offered(p, t).touched, IntentFor(t, line[Len(line)])) = {}
          /\ line[Len(line)][ContractFile(t)] = Absent
      BY <3>1, <3>2 DEF WithinIntent, AlreadyMerged
    <3>4. QED
      BY <1>4, <1>5, <2>1, <3>2, <3>3 DEF Allowed
  <2> HIDE DEF state, within, refused, contract, config
  <2>5. Proved(p, t)'
    BY <1>1, <1>4, <1>5, <1>6, <2>1, ClaimsListed DEF GateInv, Proved, At
  <2>6. \A u \in gate[p].verified \ {t} : Proved(p, u) => Proved(p, u)'
    BY <1>1, <1>4, <1>5, <2>1 DEF Proved, At
  <2>7. state(t).ok =>
          /\ Carried(p) \subseteq (gate[p].left \ {t}) \cup (gate[p].verified \cup {t})
          /\ \A u \in gate[p].verified \cup {t} : Allowed(p, u)' /\ Proved(p, u)'
    BY <1>3, <1>4, <1>7, <2>1, <2>4, <2>5, <2>6 DEF Verified
  <2>8. Proofs(p)' = Offered(p, t).proofs
    BY <1>4, <1>5, <2>1 DEF Proofs, Offered
  <2>9. \A u \in gate[p].verified \cup {t} : ContractViolations(u, Offered(p, u)) = {}
    BY <1>3, <2>2 DEF Verified
  <2>10. Verified(p)'
    BY <1>3, <1>4, <1>5, <1>6, <2>1, <2>3, <2>7, <2>8, <2>9 DEF Verified, Configured
  <2>11. Checked(p)'
    BY <1>3, <1>4, <2>1, <2>10 DEF Checked, Ended, Underway
  <2>12. state(t).ok \in BOOLEAN
    BY <1>3, <2>1
  <2>13. state(t).at \in Places /\ state(t).claim \in Nat /\ DOMAIN state(t) = DOMAIN Blank
    BY <2>1 DEF Places, Underway
  <2>14. p \notin ToSet(merged)
    BY <1>1, NotYetMerged
  <2>15. QED
    BY <1>1, <1>2, <2>11, <2>12, <2>13, <2>14, BecomesKeeps
<1>10. QED
  BY <1>8, <1>9

(* The next claim, or the next contract: whatever was proved stays so, and *)
(* the claim that is left behind was, if the verification is still good.   *)
LEMMA OnwardKeeps ==
  ASSUME GateInv, NEW p \in Pulls, gate[p].at \in {"proofs", "running"},
         NEW b \in BOOLEAN, NEW state, Becomes(p, state),
         DOMAIN state = DOMAIN Blank,
         IF gate[p].claim < Len(Proofs(p))
           THEN state.at = "proofs" /\ state.claim = gate[p].claim + 1 /\ state.task = gate[p].task
           ELSE state.at = "contracts" /\ state.claim = gate[p].claim,
         state.ok \in BOOLEAN, state.ok => gate[p].ok /\ b,
         state.began = gate[p].began, state.mode = gate[p].mode,
         state.allowlist = gate[p].allowlist, state.left = gate[p].left,
         state.verified = gate[p].verified, gate[p].exited \subseteq state.exited,
         b => Claim(p).command \in state.exited \cap gate[p].allowlist
  PROVE  GateInv'
<1>0. PICK task : task = gate[p].task
  OBVIOUS
<1>1. /\ gate[p].claim \in Nat /\ Len(line) \in Nat /\ gate[p].began \in 1..Len(line)
      /\ Verified(p) /\ task \in gate[p].verified /\ task \in Carried(p)
      /\ gate[p].claim \in 1..Len(Proofs(p))
  BY <1>0 DEF GateInv, Shape, Checked, Verified, Underway
<1>2. gate'[p] = state /\ line' = line /\ fork' = fork /\ change' = change
  BY BecomesIs DEF GateInv
<1>3. /\ Carried(p)' = Carried(p) /\ Tip(p)' = Tip(p)
      /\ \A u : Offered(p, u)' = Offered(p, u)
  BY <1>2, PullStays
<1>4. /\ DOMAIN Offered(p, task).proofs = 1..Len(Offered(p, task).proofs)
      /\ Len(Offered(p, task).proofs) \in Nat
  BY <1>1, ClaimsListed DEF GateInv
<1>5. Proofs(p) = Offered(p, task).proofs /\ Claim(p) = Offered(p, task).proofs[gate[p].claim]
  BY <1>0 DEF Proofs, Claim, Offered
<1>6. \A u : Allowed(p, u) => Allowed(p, u)'
  BY <1>2, <1>3 DEF Allowed
<1>7. ASSUME NEW u \in gate[p].verified \ {task}, Proved(p, u) PROVE Proved(p, u)'
  BY <1>0, <1>2, <1>3, <1>7 DEF Proved, At
<1>8. ASSUME Proved(p, task), b PROVE Proved(p, task)'
  <2> SUFFICES ASSUME NEW n \in DOMAIN Offered(p, task).proofs, At(p, task)' => n < state.claim
               PROVE  Offered(p, task).proofs[n].command \in state.exited \cap state.allowlist
    BY <1>2, <1>3 DEF Proved
  <2>1. n \in Nat /\ n <= Len(Proofs(p))
    BY <1>4, <1>5
  <2>2. n <= gate[p].claim
    <3>1. CASE gate[p].claim < Len(Proofs(p))
      BY <1>0, <1>1, <1>2, <2>1, <3>1 DEF At
    <3>2. CASE ~(gate[p].claim < Len(Proofs(p)))
      BY <1>1, <1>4, <1>5, <2>1, <3>2
    <3>3. QED
      BY <3>1, <3>2
  <2>3. CASE n = gate[p].claim
    BY <1>5, <1>8, <2>3
  <2>4. CASE n < gate[p].claim
    BY <1>8, <2>4 DEF Proved
  <2>5. QED
    BY <1>1, <2>1, <2>2, <2>3, <2>4
<1>9. state.ok =>
        /\ Carried(p) \subseteq gate[p].left \cup gate[p].verified
        /\ \A u \in gate[p].verified : Allowed(p, u)' /\ Proved(p, u)'
  BY <1>1, <1>6, <1>7, <1>8 DEF Verified
<1>10. state.at \in {"proofs", "contracts"} /\ state.claim \in Nat
  BY <1>1
<1>11. state.at = "proofs" =>
         state.task = task /\ state.claim \in 1..Len(Offered(p, task).proofs)
  BY <1>0, <1>1, <1>4, <1>5
<1>12. state.at = "proofs" => Proofs(p)' = Offered(p, task).proofs
  BY <1>2, <1>3, <1>11 DEF Proofs, Offered
<1>13. Verified(p)'
  BY <1>1, <1>2, <1>3, <1>9, <1>10, <1>11, <1>12 DEF Verified, Configured
<1>14. Checked(p)'
  BY <1>1, <1>2, <1>10, <1>13 DEF Checked, Ended, Underway
<1>15. p \notin ToSet(merged)
  BY NotYetMerged
<1>16. QED
  BY <1>10, <1>14, <1>15, BecomesKeeps DEF Places, Underway

LEMMA ProveKeeps ==
  ASSUME GateInv, NEW p \in Pulls, Prove(p)
  PROVE  GateInv'
<1>1. gate[p].at = "proofs"
  BY DEF Prove
<1>2. /\ DOMAIN gate[p] = DOMAIN Blank /\ gate[p].ok \in BOOLEAN /\ gate[p].claim \in Nat
      /\ Len(line) \in Nat /\ gate[p].began \in 1..Len(line) /\ Verified(p)
  BY <1>1 DEF GateInv, Shape, Checked, Underway
<1>3. CASE Claim(p).command \in gate[p].allowlist
  <2> DEFINE state == [gate[p] EXCEPT !.at = "running"]
  <2>1. Becomes(p, state)
    BY <1>3 DEF Prove
  <2>2. gate'[p] = state /\ line' = line /\ fork' = fork /\ change' = change
    BY <2>1, BecomesIs DEF GateInv
  <2>3. /\ state.at = "running" /\ state.ok = gate[p].ok /\ state.claim = gate[p].claim
        /\ state.left = gate[p].left /\ state.verified = gate[p].verified
        /\ state.began = gate[p].began /\ state.mode = gate[p].mode
        /\ state.allowlist = gate[p].allowlist /\ state.exited = gate[p].exited
        /\ state.task = gate[p].task /\ DOMAIN state = DOMAIN Blank
    BY <1>2 DEF Blank
  <2> HIDE DEF state
  <2>4. /\ Carried(p)' = Carried(p) /\ Tip(p)' = Tip(p)
        /\ \A u : Offered(p, u)' = Offered(p, u)
    BY <1>1, <2>2, PullStays
  <2>5. Proofs(p)' = Proofs(p) /\ Claim(p)' = Claim(p)
    BY <2>2, <2>3, <2>4 DEF Proofs, Claim
  <2>6. \A u : (Allowed(p, u) => Allowed(p, u)') /\ (Proved(p, u) => Proved(p, u)')
    BY <1>1, <2>2, <2>3, <2>4 DEF Allowed, Proved, At
  <2>7. Verified(p)'
    BY <1>1, <1>2, <1>3, <2>2, <2>3, <2>4, <2>5, <2>6 DEF Verified, Configured
  <2>8. Checked(p)'
    BY <1>2, <2>2, <2>3, <2>7 DEF Checked, Ended, Underway
  <2>9. p \notin ToSet(merged)
    BY <1>1, NotYetMerged
  <2>10. QED
    BY <1>1, <1>2, <2>1, <2>3, <2>8, <2>9, BecomesKeeps DEF Places, Underway
<1>4. CASE Claim(p).command \notin gate[p].allowlist
  <2> DEFINE state == Onward(p, FALSE)
  <2>1. Becomes(p, state)
    BY <1>4 DEF Prove
  <2>2. /\ DOMAIN state = DOMAIN Blank /\ state.ok = FALSE
        /\ IF gate[p].claim < Len(Proofs(p))
             THEN state.at = "proofs" /\ state.claim = gate[p].claim + 1
                  /\ state.task = gate[p].task
             ELSE state.at = "contracts" /\ state.claim = gate[p].claim
        /\ state.left = gate[p].left /\ state.verified = gate[p].verified
        /\ state.began = gate[p].began /\ state.mode = gate[p].mode
        /\ state.allowlist = gate[p].allowlist /\ state.exited = gate[p].exited
    BY <1>2 DEF Onward, Blank
  <2> HIDE DEF state
  <2>3. QED
    BY <1>1, <2>1, <2>2, OnwardKeeps
<1>5. QED
  BY <1>3, <1>4

LEMMA TimeOutKeeps ==
  ASSUME GateInv, NEW p \in Pulls, TimeOut(p)
  PROVE  GateInv'
<1> DEFINE state == Onward(p, FALSE)
<1>1. gate[p].at = "running" /\ Becomes(p, state)
  BY DEF TimeOut
<1>2. DOMAIN gate[p] = DOMAIN Blank /\ gate[p].ok \in BOOLEAN
  BY DEF GateInv, Shape
<1>3. /\ DOMAIN state = DOMAIN Blank /\ state.ok = FALSE
      /\ IF gate[p].claim < Len(Proofs(p))
           THEN state.at = "proofs" /\ state.claim = gate[p].claim + 1
                /\ state.task = gate[p].task
           ELSE state.at = "contracts" /\ state.claim = gate[p].claim
      /\ state.left = gate[p].left /\ state.verified = gate[p].verified
      /\ state.began = gate[p].began /\ state.mode = gate[p].mode
      /\ state.allowlist = gate[p].allowlist /\ state.exited = gate[p].exited
  BY <1>1, <1>2 DEF Onward, Blank
<1> HIDE DEF state
<1>4. QED
  BY <1>1, <1>3, OnwardKeeps

(* A claim whose command exits as claimed exits with zero, for contracts   *)
(* that claim anything else were refused.                                  *)
LEMMA ExitKeeps ==
  ASSUME GateInv, NEW p \in Pulls, Exit(p)
  PROVE  GateInv'
<1>1. gate[p].at = "running"
  BY DEF Exit
<1> DEFINE state(code) ==
      [Onward(p, code = Claim(p).code) EXCEPT
         !.exited = IF code = 0 THEN @ \cup {Claim(p).command} ELSE @]
<1>2. PICK code \in {0, 1} : Becomes(p, state(code))
  BY DEF Exit
<1> DEFINE b == code = Claim(p).code
<1>3. DOMAIN gate[p] = DOMAIN Blank /\ gate[p].ok \in BOOLEAN /\ Verified(p)
  BY <1>1 DEF GateInv, Shape, Checked, Underway
<1>4. /\ DOMAIN Onward(p, b) = DOMAIN Blank /\ Onward(p, b).ok = (gate[p].ok /\ b)
      /\ IF gate[p].claim < Len(Proofs(p))
           THEN Onward(p, b).at = "proofs" /\ Onward(p, b).claim = gate[p].claim + 1
                /\ Onward(p, b).task = gate[p].task
           ELSE Onward(p, b).at = "contracts" /\ Onward(p, b).claim = gate[p].claim
      /\ Onward(p, b).left = gate[p].left /\ Onward(p, b).verified = gate[p].verified
      /\ Onward(p, b).began = gate[p].began /\ Onward(p, b).mode = gate[p].mode
      /\ Onward(p, b).allowlist = gate[p].allowlist /\ Onward(p, b).exited = gate[p].exited
  BY <1>1, <1>3 DEF Onward, Blank
<1>5. /\ DOMAIN state(code) = DOMAIN Blank /\ state(code).ok = (gate[p].ok /\ b)
      /\ IF gate[p].claim < Len(Proofs(p))
           THEN state(code).at = "proofs" /\ state(code).claim = gate[p].claim + 1
                /\ state(code).task = gate[p].task
           ELSE state(code).at = "contracts" /\ state(code).claim = gate[p].claim
      /\ state(code).left = gate[p].left /\ state(code).verified = gate[p].verified
      /\ state(code).began = gate[p].began /\ state(code).mode = gate[p].mode
      /\ state(code).allowlist = gate[p].allowlist
      /\ gate[p].exited \subseteq state(code).exited
      /\ code = 0 => Claim(p).command \in state(code).exited
  BY <1>4 DEF Blank
<1>6. Claim(p).code = 0
  <2>1. /\ gate[p].task \in gate[p].verified /\ gate[p].claim \in 1..Len(Proofs(p))
        /\ gate[p].task \in Carried(p)
        /\ ContractViolations(gate[p].task, Offered(p, gate[p].task)) = {}
    BY <1>1, <1>3 DEF Verified
  <2>2. \A claim \in ToSet(Offered(p, gate[p].task).proofs) : claim.code = 0
    BY <2>1 DEF ContractViolations
  <2>3. gate[p].claim \in DOMAIN Offered(p, gate[p].task).proofs
    BY <1>1, <2>1, ClaimsListed DEF GateInv, Proofs, Offered
  <2>4. QED
    BY <2>2, <2>3 DEF Claim, Proofs, Offered, ToSet
<1>7. b => Claim(p).command \in state(code).exited \cap gate[p].allowlist
  BY <1>1, <1>3, <1>5, <1>6 DEF Verified
<1>8. state(code).ok \in BOOLEAN /\ (state(code).ok => gate[p].ok /\ b) /\ b \in BOOLEAN
  BY <1>3, <1>5
<1> HIDE DEF state, b
<1>9. QED
  BY <1>1, <1>2, <1>5, <1>7, <1>8, OnwardKeeps

LEMMA ConcludeKeeps ==
  ASSUME GateInv, NEW p \in Pulls, Conclude(p)
  PROVE  GateInv'
<1> DEFINE state == [gate[p] EXCEPT !.at = Verdict(gate[p].ok /\ CheckScope(p, gate[p].verified))]
<1>1. gate[p].at = "contracts" /\ gate[p].left = {} /\ Becomes(p, state)
  BY DEF Conclude
<1>2. /\ DOMAIN gate[p] = DOMAIN Blank /\ gate[p].ok \in BOOLEAN /\ gate[p].claim \in Nat
      /\ Len(line) \in Nat /\ gate[p].began \in 1..Len(line) /\ Verified(p)
  BY <1>1 DEF GateInv, Shape, Checked, Underway
<1>3. gate'[p] = state /\ line' = line /\ fork' = fork /\ change' = change
  BY <1>1, BecomesIs DEF GateInv
<1>4. /\ state.at = Verdict(gate[p].ok /\ CheckScope(p, gate[p].verified))
      /\ state.ok = gate[p].ok /\ state.claim = gate[p].claim
      /\ state.left = {} /\ state.verified = gate[p].verified
      /\ state.began = gate[p].began /\ state.mode = gate[p].mode
      /\ state.allowlist = gate[p].allowlist /\ state.exited = gate[p].exited
      /\ state.task = gate[p].task /\ DOMAIN state = DOMAIN Blank
  BY <1>1, <1>2 DEF Blank
<1>5. /\ state.at \in Ended
      /\ state.at = "passed" => gate[p].ok /\ CheckScope(p, gate[p].verified)
  BY <1>4 DEF Verdict, Ended
<1> HIDE DEF state
<1>6. /\ Carried(p)' = Carried(p) /\ Tip(p)' = Tip(p) /\ Diff(p)' = Diff(p)
      /\ \A u : Offered(p, u)' = Offered(p, u)
      /\ \A ts : TouchedBy(p, ts)' = TouchedBy(p, ts)
  BY <1>1, <1>3, PullStays
<1>7. \A u : (Allowed(p, u) => Allowed(p, u)') /\ (Proved(p, u) => Proved(p, u)')
  BY <1>1, <1>3, <1>4, <1>5, <1>6 DEF Allowed, Proved, At, Ended
<1>8. Verified(p)'
  BY <1>1, <1>2, <1>3, <1>4, <1>5, <1>6, <1>7 DEF Verified, Configured, Ended
<1>9. CheckScope(p, gate[p].verified) => CheckScope(p, gate[p].verified)'
  BY <1>3, <1>4, <1>6 DEF CheckScope
<1>10. Carried(p) # {} \/ state.at # "passed" \/ \A f \in Diff(p) : IsAllowedDocPath(f)
  <2> SUFFICES ASSUME Carried(p) = {}, state.at = "passed", NEW f \in Diff(p)
               PROVE  IsAllowedDocPath(f)
    OBVIOUS
  <2>1. gate[p].verified = {}
    BY <1>2 DEF Verified
  <2>2. TouchedBy(p, {}) = {}
    BY DEF TouchedBy
  <2>3. IsContractFile(f)
    BY <1>5, <2>1, <2>2 DEF CheckScope
  <2>4. QED
    BY <2>3 DEF IsContractFile, IsAllowedDocPath
<1>11. Checked(p)'
  BY <1>2, <1>3, <1>4, <1>5, <1>6, <1>8, <1>9, <1>10 DEF Checked, Ended, Underway
<1>12. p \notin ToSet(merged)
  BY <1>1, NotYetMerged
<1>13. QED
  BY <1>1, <1>2, <1>4, <1>5, <1>11, <1>12, BecomesKeeps DEF Places

-----------------------------------------------------------------------------
(* What people do.                                                         *)

LEMMA OpenKeeps ==
  ASSUME GateInv, NEW p \in Pulls, Open(p)
  PROVE  GateInv'
<1>1. /\ gate[p].at = "none" /\ fork' = [fork EXCEPT ![p] = Len(line)]
      /\ line' = line /\ merged' = merged
      /\ gate' = [gate EXCEPT ![p].at = "queued", ![p].runs = 1]
  BY DEF Open
<1>2. PICK c \in Offers[p] : change' = [change EXCEPT ![p] = c]
  BY DEF Open
<1>3. /\ DOMAIN gate[p] = DOMAIN Blank /\ gate[p].ok \in BOOLEAN /\ gate[p].claim \in Nat
      /\ gate[p].verified = {} /\ Len(line) \in Nat /\ Len(line) >= 1
  BY <1>1 DEF GateInv, Shape, Checked
<1>4. /\ DOMAIN gate'[p] = DOMAIN Blank /\ gate'[p].at = "queued" /\ gate'[p].ok = gate[p].ok
      /\ gate'[p].claim = gate[p].claim /\ gate'[p].verified = {}
      /\ gate' = [q \in Pulls |-> gate'[q]]
      /\ \A q \in Pulls \ {p} : gate'[q] = gate[q]
  BY <1>1, <1>3 DEF GateInv, Shape, Blank
<1>5. /\ fork'[p] = Len(line) /\ change'[p] = c
      /\ fork' = [q \in Pulls |-> fork'[q]] /\ change' = [q \in Pulls |-> change'[q]]
      /\ \A q \in Pulls \ {p} : fork'[q] = fork[q] /\ change'[q] = change[q]
  BY <1>1, <1>2 DEF GateInv, Shape
<1>6. Shape'
  <2>1. \A q \in Pulls : /\ DOMAIN gate'[q] = DOMAIN Blank /\ gate'[q].at \in Places
                         /\ gate'[q].ok \in BOOLEAN /\ gate'[q].claim \in Nat
    BY <1>3, <1>4 DEF GateInv, Shape, Places
  <2>2. QED
    BY <1>1, <1>4, <1>5, <2>1 DEF GateInv, Shape
<1>7. Opened'
  BY <1>1, <1>3, <1>4, <1>5 DEF GateInv, Opened
<1>8. p \notin ToSet(merged)
  BY <1>1, NotYetMerged
<1>9. MergedPassed'
  <2>1. \A i \in DOMAIN merged : merged[i] \in Pulls \ {p}
    BY <1>8 DEF GateInv, Shape, ToSet
  <2>2. QED
    BY <1>1, <1>4, <2>1 DEF GateInv, MergedPassed
<1>10. Checked(p)'
  BY <1>4 DEF Checked, Underway, Ended
<1>11. \A q \in Pulls \ {p} : Checked(q)'
  <2> TAKE q \in Pulls \ {p}
  <2>1. /\ gate'[q] = gate[q] /\ fork'[q] = fork[q] /\ change'[q] = change[q]
        /\ Len(line') = Len(line) /\ \A j \in 1..Len(line) : line'[j] = line[j]
    BY <1>1, <1>4, <1>5
  <2>2. QED
    BY <1>3, <2>1, CheckedKept DEF GateInv
<1>12. QED
  BY <1>6, <1>7, <1>9, <1>10, <1>11 DEF GateInv

LEMMA RerunKeeps ==
  ASSUME GateInv, NEW p \in Pulls, Rerun(p)
  PROVE  GateInv'
<1> DEFINE state == [Blank EXCEPT !.at = "queued", !.runs = gate[p].runs + 1]
<1>1. gate[p].at \in Ended /\ p \notin ToSet(merged) /\ Becomes(p, state)
  BY DEF Rerun, Unmerged
<1>2. /\ DOMAIN state = DOMAIN Blank /\ state.at = "queued" /\ state.ok \in BOOLEAN
      /\ state.claim = 0 /\ state.verified = {}
  BY DEF Blank
<1> HIDE DEF state
<1>3. gate'[p] = state => Checked(p)'
  BY <1>2 DEF Checked, Underway, Ended
<1>4. gate[p].at # "none" /\ state.at \in Places /\ state.ok \in BOOLEAN /\ state.claim \in Nat
  <2>1. gate[p].at # "none" /\ state.at \in Places /\ state.claim \in Nat
    BY <1>1, <1>2 DEF Places, Ended
  <2>2. QED
    BY <1>2, <2>1
<1>5. QED
  BY <1>1, <1>2, <1>3, <1>4, BecomesKeeps

(* A merge adds a tree to the base, and disturbs no verification.          *)
LEMMA MergeIs ==
  ASSUME GateInv, NEW p \in Pulls, Merge(p)
  PROVE  /\ gate[p].at = "passed" /\ p \notin ToSet(merged)
         /\ fork' = fork /\ change' = change /\ gate' = gate
         /\ Len(line) \in Nat /\ Len(line) = Len(merged) + 1
         /\ Len(line') = Len(line) + 1 /\ \A j \in 1..Len(line) : line'[j] = line[j]
         /\ DOMAIN merged = 1..Len(merged) /\ DOMAIN merged' = 1..Len(merged')
         /\ Len(merged') = Len(merged) + 1 /\ \A i \in DOMAIN merged : merged'[i] = merged[i]
         /\ merged'[Len(merged')] = p /\ merged' \in Seq(Pulls)
         /\ line' \in Seq({line'[i] : i \in DOMAIN line'})
<1> DEFINE tree == [f \in DOMAIN Base |-> IF f \in Diff(p) THEN Tip(p)[f] ELSE Base[f]]
<1>1. /\ gate[p].at = "passed" /\ p \notin ToSet(merged) /\ line' = Append(line, tree)
      /\ merged' = Append(merged, p) /\ fork' = fork /\ change' = change /\ gate' = gate
  BY DEF Merge, Unmerged
<1>2. /\ merged \in Seq(Pulls) /\ line \in Seq({line[i] : i \in DOMAIN line})
      /\ Len(line) = Len(merged) + 1
  BY DEF GateInv, Shape
<1> HIDE DEF tree
<1>3. /\ Len(line) \in Nat /\ Len(line') = Len(line) + 1
      /\ \A j \in 1..Len(line) : line'[j] = line[j]
      /\ line' = [j \in 1..Len(line') |-> line'[j]]
  <2> DEFINE S == {line[i] : i \in DOMAIN line} \cup {tree}
  <2>1. line \in Seq(S) /\ tree \in S
    BY <1>2
  <2> HIDE DEF S
  <2>2. line' \in Seq(S) /\ Len(line') = Len(line) + 1
    BY <1>1, <2>1
  <2>3. line' = [j \in 1..Len(line') |-> line'[j]]
    BY <2>2
  <2>4. QED
    BY <1>1, <2>1, <2>2, <2>3
<1>4. line' \in Seq({line'[i] : i \in DOMAIN line'})
  BY <1>3
<1>5. QED
  BY <1>1, <1>2, <1>3, <1>4

LEMMA MergeKeeps ==
  ASSUME GateInv, NEW p \in Pulls, Merge(p)
  PROVE  GateInv'
<1>1. /\ gate[p].at = "passed" /\ p \notin ToSet(merged)
      /\ fork' = fork /\ change' = change /\ gate' = gate
      /\ Len(line) \in Nat /\ Len(line) = Len(merged) + 1
      /\ Len(line') = Len(line) + 1 /\ \A j \in 1..Len(line) : line'[j] = line[j]
      /\ DOMAIN merged = 1..Len(merged) /\ DOMAIN merged' = 1..Len(merged')
      /\ Len(merged') = Len(merged) + 1 /\ \A i \in DOMAIN merged : merged'[i] = merged[i]
      /\ merged'[Len(merged')] = p /\ merged' \in Seq(Pulls)
      /\ line' \in Seq({line'[i] : i \in DOMAIN line'})
  BY MergeIs
<1>2. Shape'
  BY <1>1 DEF GateInv, Shape
<1>3. Opened'
  BY <1>1 DEF GateInv, Opened
<1>4. MergedPassed'
  <2> SUFFICES ASSUME NEW i \in DOMAIN merged' PROVE gate[merged'[i]].at = "passed"
    BY <1>1 DEF MergedPassed
  <2>1. i \in DOMAIN merged \/ i = Len(merged')
    BY <1>1
  <2>2. QED
    BY <1>1, <2>1 DEF GateInv, MergedPassed
<1>5. \A q \in Pulls : Checked(q)'
  BY <1>1, CheckedKept DEF GateInv
<1>6. QED
  BY <1>2, <1>3, <1>4, <1>5 DEF GateInv

-----------------------------------------------------------------------------
LEMMA GateInit ==
  ASSUME Init
  PROVE  GateInv
<1>1. PICK tree \in Bases : line = <<tree>>
  BY DEF Init
<1>2. /\ merged = <<>> /\ fork = [p \in Pulls |-> 1] /\ change = [p \in Pulls |-> <<>>]
      /\ gate = [p \in Pulls |-> Blank]
  BY DEF Init
<1>3. /\ Len(line) = 1 /\ line \in Seq({line[i] : i \in DOMAIN line})
      /\ merged \in Seq(Pulls) /\ Len(merged) = 0 /\ DOMAIN merged = {}
  BY <1>1, <1>2
<1>4. \A p \in Pulls : /\ gate[p] = Blank /\ Blank.at = "none"
                       /\ Blank.ok \in BOOLEAN /\ Blank.claim = 0 /\ Blank.verified = {}
  BY <1>2 DEF Blank
<1>5. Shape
  <2>1. /\ fork = [p \in Pulls |-> fork[p]] /\ change = [p \in Pulls |-> change[p]]
        /\ gate = [p \in Pulls |-> gate[p]]
    BY <1>2
  <2>2. ASSUME NEW p \in Pulls
        PROVE  /\ DOMAIN gate[p] = DOMAIN Blank
               /\ gate[p].at \in Places /\ gate[p].ok \in BOOLEAN /\ gate[p].claim \in Nat
    <3>1. gate[p].at \in Places /\ gate[p].claim \in Nat
      BY <1>4 DEF Places
    <3>2. gate[p].ok \in BOOLEAN
      BY <1>4
    <3>3. QED
      BY <1>4, <3>1, <3>2
  <2>3. QED
    BY <1>3, <2>1, <2>2 DEF Shape
<1>6. Opened /\ MergedPassed
  BY <1>3, <1>4 DEF Opened, MergedPassed
<1>7. \A p \in Pulls : Checked(p)
  BY <1>4 DEF Checked, Underway, Ended
<1>8. QED
  BY <1>5, <1>6, <1>7 DEF GateInv

LEMMA GateStep ==
  ASSUME GateInv, [Next]_vars
  PROVE  GateInv'
<1>1. CASE UNCHANGED vars
  <2>1. /\ line' = line /\ merged' = merged /\ fork' = fork /\ change' = change
        /\ gate' = gate
    BY <1>1 DEF vars
  <2>2. Shape' /\ Opened' /\ MergedPassed'
    BY <2>1 DEF GateInv, Shape, Opened, MergedPassed
  <2>3. Len(line) \in Nat
    BY DEF GateInv, Shape
  <2>4. \A p \in Pulls : Checked(p)'
    BY <2>1, <2>3, CheckedKept DEF GateInv
  <2>5. QED
    BY <2>2, <2>4 DEF GateInv
<1>2. CASE Next
  <2>1. PICK p \in Pulls : Step(p) \/ Exit(p) \/ Open(p) \/ Rerun(p) \/ Merge(p)
    BY <1>2 DEF Next
  <2>2. QED
    BY <2>1, DiscoverKeeps, JudgeKeeps, ProveKeeps, TimeOutKeeps, ConcludeKeeps, ExitKeeps,
       OpenKeeps, RerunKeeps, MergeKeeps DEF Step
<1>3. QED
  BY <1>1, <1>2

(* What a verification has established stays true until it is run again,   *)
(* and what was merged had passed one.                                     *)
THEOREM GateInvariant == Spec => []GateInv
<1>1. Init => GateInv
  BY GateInit
<1>2. GateInv /\ [Next]_vars => GateInv'
  BY GateStep
<1>3. QED
  BY <1>1, <1>2, PTL DEF Spec

-----------------------------------------------------------------------------
(* What is merged stays as it was verified, and so do the trees that       *)
(* governed it.                                                            *)
LEMMA MergedKept ==
  ASSUME GateInv, [Next]_vars, NEW i \in DOMAIN merged, NEW p, p = merged[i]
  PROVE  /\ i \in DOMAIN merged' /\ merged'[i] = p /\ gate'[p] = gate[p]
         /\ Diff(p)' = Diff(p) /\ Carried(p)' = Carried(p) /\ Tip(p)' = Tip(p)
         /\ \A ts : TouchedBy(p, ts)' = TouchedBy(p, ts)
         /\ Governing(i)' = Governing(i) /\ \A j \in 1..i : line'[j] = line[j]
<1>1. /\ p \in Pulls /\ gate[p].at = "passed" /\ p \in ToSet(merged) /\ i \in Nat
      /\ Len(line) \in Nat /\ i < Len(line) /\ gate[p].began \in 1..Len(line)
  <2>1. p \in Pulls /\ p \in ToSet(merged) /\ i \in Nat /\ Len(line) \in Nat /\ i < Len(line)
    BY DEF GateInv, Shape, ToSet
  <2>2. gate[p].at = "passed"
    BY DEF GateInv, MergedPassed
  <2>3. QED
    BY <2>1, <2>2 DEF GateInv, Checked, Ended
<1> DEFINE Kept == /\ i \in DOMAIN merged' /\ merged'[i] = p /\ gate'[p] = gate[p]
                   /\ fork'[p] = fork[p] /\ change'[p] = change[p]
                   /\ \A j \in 1..Len(line) : line'[j] = line[j]
<1>2. Kept
  <2>1. CASE UNCHANGED vars
    BY <2>1 DEF vars
  <2>2. ASSUME NEW q \in Pulls, Merge(q) PROVE Kept
    <3>1. /\ fork' = fork /\ change' = change /\ gate' = gate
          /\ \A j \in 1..Len(line) : line'[j] = line[j]
          /\ DOMAIN merged = 1..Len(merged) /\ DOMAIN merged' = 1..Len(merged')
          /\ Len(merged') = Len(merged) + 1 /\ \A j \in DOMAIN merged : merged'[j] = merged[j]
          /\ Len(line) = Len(merged) + 1 /\ Len(line) \in Nat
      BY <2>2, MergeIs
    <3>2. QED
      BY <3>1
  <2>3. ASSUME NEW q \in Pulls, Step(q) \/ Exit(q) \/ Rerun(q) PROVE Kept
    <3>1. q # p
      BY <1>1, <2>3
         DEF Step, Discover, Judge, Prove, TimeOut, Conclude, Exit, Rerun, Unmerged
    <3>2. \E state : Becomes(q, state)
      BY <2>3 DEF Step, Discover, Judge, Prove, TimeOut, Conclude, Exit, Rerun
    <3>3. line' = line /\ fork' = fork /\ change' = change /\ gate'[p] = gate[p]
      BY <1>1, <3>1, <3>2 DEF Becomes, GateInv, Shape
    <3>4. merged' = merged
      BY <3>2 DEF Becomes
    <3>5. QED
      BY <3>3, <3>4
  <2>4. ASSUME NEW q \in Pulls, Open(q) PROVE Kept
    <3>1. q # p
      BY <1>1, <2>4 DEF Open
    <3>2. /\ line' = line /\ merged' = merged /\ gate'[p] = gate[p]
          /\ fork'[p] = fork[p] /\ change'[p] = change[p]
      BY <1>1, <2>4, <3>1 DEF Open, GateInv, Shape
    <3>3. QED
      BY <3>2
  <2>5. QED
    BY <2>1, <2>2, <2>3, <2>4 DEF Next
<1>3. /\ Diff(p)' = Diff(p) /\ Carried(p)' = Carried(p) /\ Tip(p)' = Tip(p)
      /\ \A ts : TouchedBy(p, ts)' = TouchedBy(p, ts)
  BY <1>1, <1>2, PullKept DEF GateInv
<1>4. Governing(i)' = Governing(i)
  BY <1>1, <1>2 DEF Governing
<1>5. QED
  BY <1>1, <1>2, <1>3, <1>4

(* What a merge adds was verified, by the trees from the one it began with *)
(* to the last before it.                                                  *)
LEMMA MergedNow ==
  ASSUME GateInv, [Next]_vars, NEW k \in DOMAIN merged', k \notin DOMAIN merged,
         NEW p, p = merged'[k]
  PROVE  /\ k = Len(line) /\ k \in Nat /\ p \in Pulls
         /\ \A i \in DOMAIN merged' : i \in Nat
         /\ gate' = gate /\ \A j \in 1..k : line'[j] = line[j]
         /\ gate[p].at = "passed" /\ gate[p].began \in 1..k /\ Checked(p)
         /\ Diff(p)' = Diff(p) /\ Carried(p)' = Carried(p) /\ Tip(p)' = Tip(p)
         /\ \A ts : TouchedBy(p, ts)' = TouchedBy(p, ts)
         /\ Governing(k)' = {line[j] : j \in gate[p].began .. k}
<1>1. PICK q \in Pulls : Merge(q)
  BY DEF Next, Step, Discover, Judge, Prove, TimeOut, Conclude, Exit, Open, Rerun, Becomes, vars
<1>2. /\ gate[q].at = "passed" /\ fork' = fork /\ change' = change /\ gate' = gate
      /\ Len(line) \in Nat /\ Len(line) = Len(merged) + 1
      /\ \A j \in 1..Len(line) : line'[j] = line[j]
      /\ DOMAIN merged = 1..Len(merged) /\ DOMAIN merged' = 1..Len(merged')
      /\ Len(merged') = Len(merged) + 1 /\ merged'[Len(merged')] = q
  BY <1>1, MergeIs
<1>3. k = Len(line) /\ p = q /\ k \in Nat
  BY <1>2
<1>4. Checked(p) /\ gate[p].began \in 1..k
  BY <1>2, <1>3 DEF GateInv, Checked, Ended
<1>5. /\ Diff(p)' = Diff(p) /\ Carried(p)' = Carried(p) /\ Tip(p)' = Tip(p)
      /\ \A ts : TouchedBy(p, ts)' = TouchedBy(p, ts)
  BY <1>2, <1>3, PullKept DEF GateInv
<1>6. Governing(k)' = {line[j] : j \in gate[p].began .. k}
  BY <1>2, <1>3, <1>4 DEF Governing
<1>7. QED
  BY <1>2, <1>3, <1>4, <1>5, <1>6

Authorised(p, i, f) ==
  \/ IsContractFile(f)
  \/ Carried(p) = {} /\ IsAllowedDocPath(f)
  \/ \E t \in Carried(p) :
       /\ f \in TouchedBy(p, {t})
       /\ \E tree \in Governing(i) :
            \/ tree[YuklConfig] = Absent
            \/ /\ IntentFor(t, tree) # Nothing
               /\ CheckIntentPaths({f}, IntentFor(t, tree)) = {}

LEMMA AuthorisedOneByOne ==
  AuthorisedBeforehand <=>
    \A i \in DOMAIN merged : \A p : p = merged[i] => \A f \in Diff(p) : Authorised(p, i, f)
BY DEF AuthorisedBeforehand, Authorised

(* The base decides what a pull request may change, before it is merged.   *)
THEOREM AuthorisedByTheBase == Spec => []AuthorisedBeforehand
<1>1. Init => AuthorisedBeforehand
  BY DEF Init, AuthorisedBeforehand
<1>2. ASSUME GateInv, AuthorisedBeforehand, [Next]_vars
      PROVE  AuthorisedBeforehand'
  <2>0. AuthorisedBeforehand' <=>
          (\A i \in DOMAIN merged : \A p : p = merged[i] =>
             \A f \in Diff(p) : Authorised(p, i, f))'
    BY AuthorisedOneByOne, PTL
  <2> SUFFICES ASSUME NEW k \in DOMAIN merged', NEW p, p = merged'[k], NEW f \in Diff(p)'
               PROVE  Authorised(p, k, f)'
    BY <2>0
  <2>1. CASE k \in DOMAIN merged
    <3>1. /\ merged[k] = p /\ Diff(p)' = Diff(p) /\ Carried(p)' = Carried(p)
          /\ \A ts : TouchedBy(p, ts)' = TouchedBy(p, ts)
          /\ Governing(k)' = Governing(k)
      <4>1. PICK q : q = merged[k]
        OBVIOUS
      <4>2. QED
        BY <1>2, <2>1, <4>1, MergedKept
    <3>2. Authorised(p, k, f)
      BY <1>2, <2>1, <3>1, AuthorisedOneByOne
    <3>3. QED
      BY <3>1, <3>2 DEF Authorised
  <2>2. CASE k \notin DOMAIN merged
    <3>1. /\ gate[p].at = "passed" /\ gate[p].began \in 1..k /\ k = Len(line) /\ k \in Nat
          /\ Checked(p) /\ Diff(p)' = Diff(p) /\ Carried(p)' = Carried(p)
          /\ \A ts : TouchedBy(p, ts)' = TouchedBy(p, ts)
          /\ Governing(k)' = {line[j] : j \in gate[p].began .. k}
      BY <1>2, <2>2, MergedNow
    <3>2. f \in Diff(p)
      BY <3>1
    <3>3. CASE Carried(p) = {}
      BY <3>1, <3>2, <3>3 DEF Checked, Authorised
    <3>4. CASE Carried(p) # {} /\ ~IsContractFile(f)
      <4>1. Verified(p) /\ gate[p].ok /\ CheckScope(p, gate[p].verified)
        BY <3>1, <3>4 DEF Checked
      <4>2. f \in TouchedBy(p, gate[p].verified)
        BY <3>2, <3>4, <4>1 DEF CheckScope
      <4>3. PICK t \in gate[p].verified : f \in Offered(p, t).touched
        BY <4>2 DEF TouchedBy, Offered
      <4>4. t \in Carried(p) /\ Allowed(p, t) /\ f \in TouchedBy(p, {t})
        BY <4>1, <4>3 DEF Verified, TouchedBy, Offered
      <4>5. CASE gate[p].mode = "config"
        <5>1. PICK j \in gate[p].began .. k :
                /\ IntentFor(t, line[j]) # Nothing
                /\ CheckIntentPaths(Offered(p, t).touched, IntentFor(t, line[j])) = {}
          BY <3>1, <4>4, <4>5 DEF Allowed
        <5>2. CheckIntentPaths({f}, IntentFor(t, line[j])) = {}
          BY <4>3, <5>1 DEF CheckIntentPaths
        <5>3. QED
          BY <3>1, <4>4, <5>1, <5>2 DEF Authorised
      <4>6. CASE gate[p].mode # "config"
        <5>1. line[gate[p].began][YuklConfig] = Absent
          BY <4>1, <4>6 DEF Verified, Configured, ResolveGateConfig, ParseYuklConfig
        <5>2. line[gate[p].began] \in Governing(k)'
          BY <3>1
        <5>3. QED
          BY <3>1, <4>4, <5>1, <5>2 DEF Authorised
      <4>7. QED
        BY <4>5, <4>6
    <3>5. QED
      BY <3>3, <3>4 DEF Authorised
  <2>3. QED
    BY <2>1, <2>2
<1>3. QED
  BY <1>1, <1>2, GateInvariant, PTL DEF Spec

(* No contract reaches the base a second time by a verification that began *)
(* after the first was merged, unless it was deleted in between.           *)
THEOREM OnePullPerIntent == Spec => []OneIntentOnePull
<1>1. Init => OneIntentOnePull
  BY DEF Init, OneIntentOnePull
<1>2. ASSUME GateInv, OneIntentOnePull, [Next]_vars
      PROVE  OneIntentOnePull'
  <2> SUFFICES ASSUME NEW i \in DOMAIN merged', NEW k \in DOMAIN merged',
                      NEW p, p = merged'[k], NEW q, q = merged'[i],
                      NEW t \in Carried(q)' \cap Carried(p)',
                      i < k, gate'[p].mode = "config"
               PROVE  \/ gate'[p].began <= i
                      \/ \E j \in (i + 1)..k : line'[j][ContractFile(t)] = Absent
    BY DEF OneIntentOnePull, Carried, Diff, Tip, Fork
  <2>1. CASE k \in DOMAIN merged
    <3>1. i \in DOMAIN merged /\ i \in Nat /\ k \in Nat
      <4>1. merged' \in Seq(Pulls) /\ merged \in Seq(Pulls)
        BY <1>2, GateStep DEF GateInv, Shape
      <4>2. QED
        BY <2>1, <4>1
    <3>2. /\ merged[k] = p /\ gate'[p] = gate[p] /\ Carried(p)' = Carried(p)
          /\ \A j \in 1..k : line'[j] = line[j]
      <4>1. PICK r : r = merged[k]
        OBVIOUS
      <4>2. QED
        BY <1>2, <2>1, <4>1, MergedKept
    <3>3. merged[i] = q /\ Carried(q)' = Carried(q)
      <4>1. PICK r : r = merged[i]
        OBVIOUS
      <4>2. QED
        BY <1>2, <3>1, <4>1, MergedKept
    <3>4. \/ gate[p].began <= i
          \/ \E j \in (i + 1)..k : line[j][ContractFile(t)] = Absent
      BY <1>2, <2>1, <3>1, <3>2, <3>3 DEF OneIntentOnePull
    <3>5. QED
      BY <3>1, <3>2, <3>4
  <2>2. CASE k \notin DOMAIN merged
    <3>1. /\ gate' = gate /\ gate[p].at = "passed" /\ gate[p].began \in 1..k
          /\ k = Len(line) /\ k \in Nat /\ Checked(p) /\ Carried(p)' = Carried(p)
          /\ i \in Nat /\ \A j \in 1..k : line'[j] = line[j]
      BY <1>2, <2>2, MergedNow
    <3>2. t \in Carried(p)
      BY <3>1
    <3>3. Verified(p) /\ gate[p].ok /\ gate[p].left = {}
      BY <3>1, <3>2 DEF Checked
    <3>4. Allowed(p, t)
      BY <3>2, <3>3 DEF Verified
    <3>5. PICK j \in gate[p].began .. k : line[j][ContractFile(t)] = Absent
      BY <3>1, <3>4 DEF Allowed
    <3>6. QED
      BY <3>1, <3>5
  <2>3. QED
    BY <2>1, <2>2
<1>3. QED
  BY <1>1, <1>2, GateInvariant, PTL DEF Spec

(* Only commands that the base trusted prove a contract, and they did.     *)
THEOREM ProvedByTheBase == Spec => []ProofsRan
<1>1. Init => ProofsRan
  BY DEF Init, ProofsRan
<1>2. ASSUME GateInv, ProofsRan, [Next]_vars
      PROVE  ProofsRan'
  <2> SUFFICES ASSUME NEW k \in DOMAIN merged', NEW p, p = merged'[k],
                      NEW t \in Carried(p)',
                      NEW claim \in ToSet(Tip(p)'[ContractFile(t)].proofs)
               PROVE  /\ claim.command \in gate'[p].exited
                      /\ \E tree \in Governing(k)' :
                           claim.command \in ResolveGateConfig(tree).allowlist
    BY DEF ProofsRan, Carried, Diff, Tip, Fork
  <2>1. CASE k \in DOMAIN merged
    <3>1. /\ merged[k] = p /\ gate'[p] = gate[p] /\ Carried(p)' = Carried(p)
          /\ Tip(p)' = Tip(p) /\ Governing(k)' = Governing(k)
      <4>1. PICK q : q = merged[k]
        OBVIOUS
      <4>2. QED
        BY <1>2, <2>1, <4>1, MergedKept
    <3>2. QED
      BY <1>2, <2>1, <3>1 DEF ProofsRan
  <2>2. CASE k \notin DOMAIN merged
    <3>1. /\ gate' = gate /\ gate[p].at = "passed" /\ gate[p].began \in 1..k
          /\ k \in Nat /\ Checked(p) /\ Carried(p)' = Carried(p) /\ Tip(p)' = Tip(p)
          /\ Governing(k)' = {line[j] : j \in gate[p].began .. k}
      BY <1>2, <2>2, MergedNow
    <3>2. t \in Carried(p) /\ claim \in ToSet(Offered(p, t).proofs)
      BY <3>1 DEF Offered
    <3>3. Verified(p) /\ gate[p].ok /\ gate[p].left = {}
      BY <3>1, <3>2 DEF Checked
    <3>4. Proved(p, t) /\ ~At(p, t)
      BY <3>1, <3>2, <3>3 DEF Verified, At
    <3>5. claim.command \in gate[p].exited \cap gate[p].allowlist
      BY <3>2, <3>4 DEF Proved, ToSet
    <3>6. /\ gate[p].allowlist = ResolveGateConfig(line[gate[p].began]).allowlist
          /\ line[gate[p].began] \in Governing(k)'
      BY <3>1, <3>3 DEF Verified, Configured
    <3>7. QED
      BY <3>1, <3>5, <3>6
  <2>3. QED
    BY <2>1, <2>2
<1>3. QED
  BY <1>1, <1>2, GateInvariant, PTL DEF Spec
=============================================================================
