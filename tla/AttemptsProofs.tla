---------------------------- MODULE AttemptsProofs ----------------------------
(***************************************************************************)
(* Proofs about Attempts, for any policies, stages, runtimes, observations *)
(* and length of the log: what diagnosis never does twice, and what a      *)
(* runtime is given.                                                       *)
(***************************************************************************)
EXTENDS AttemptsProperties, FiniteSetTheorems, WellFoundedInduction, TLAPS

(* A finite, non-empty set of integers has a largest element: of the first *)
(* so many of a list of them, one is the largest.                          *)
LEMMA ListHasLargest ==
  ASSUME NEW n \in Nat, n >= 1, NEW g, \A k \in 1..n : g[k] \in Int
  PROVE  \E k \in 1..n : \A j \in 1..n : g[j] <= g[k]
<1> DEFINE Largest(m) == \E k \in 1..m : \A j \in 1..m : g[j] <= g[k]
           T == {m \in 1..n : ~Largest(m)}
           R == OpToRel(<, Nat)
<1> SUFFICES ASSUME T # {} PROVE FALSE
  <2>1. n \in 1..n
    OBVIOUS
  <2>2. QED
    BY <2>1
<1>1. T \subseteq Nat
  OBVIOUS
<1>2. \A x, y \in Nat : <<y, x>> \in R <=> y < x
  BY DEF OpToRel
<1>3. IsWellFoundedOn(R, Nat)
  BY NatLessThanWellFounded
<1> HIDE DEF R
<1>4. PICK x \in T : \A y \in T : ~(<<y, x>> \in R)
  <2> HIDE DEF T
  <2>1. QED
    BY <1>1, <1>3, WFMin, Zenon
<1>5. x \in 1..n /\ ~Largest(x)
  OBVIOUS
<1>6. CASE x = 1
  BY <1>5, <1>6
<1>7. CASE x # 1
  <2>1. x - 1 \in 1..n /\ x - 1 < x /\ x \in Nat /\ x - 1 \in Nat
    BY <1>5, <1>7
  <2>2. Largest(x - 1)
    BY <1>2, <1>4, <2>1
  <2>3. PICK k \in 1..(x - 1) : \A j \in 1..(x - 1) : g[j] <= g[k]
    BY <2>2
  <2>4. g[k] \in Int /\ g[x] \in Int
    BY <1>5, <2>1
  <2>5. CASE g[x] <= g[k]
    BY <1>5, <2>1, <2>3, <2>4, <2>5
  <2>6. CASE g[k] < g[x]
    <3>1. \A j \in 1..x : g[j] <= g[x]
      BY <1>5, <2>1, <2>3, <2>4, <2>6
    <3>2. QED
      BY <1>5, <3>1
  <2>7. QED
    BY <2>4, <2>5, <2>6
<1>8. QED
  BY <1>6, <1>7

LEMMA MaxIs ==
  ASSUME NEW S \in SUBSET Int, IsFiniteSet(S), S # {}
  PROVE  Max(S) \in S /\ \A x \in S : x <= Max(S)
<1>1. PICK n \in Nat : ExistsSurjection(1..n, S)
  BY FS_NatSurjection
<1>0. PICK g : g \in Surjection(1..n, S)
  BY <1>1 DEF ExistsSurjection
<1>2. g \in [1..n -> S] /\ \A x \in S : \E k \in 1..n : g[k] = x
  BY <1>0 DEF Surjection
<1>3. n >= 1
  <2>1. PICK x \in S : TRUE
    OBVIOUS
  <2>2. PICK k \in 1..n : g[k] = x
    BY <1>2, <2>1
  <2>3. QED
    BY <2>2
<1>4. \A k \in 1..n : g[k] \in Int
  BY <1>2
<1>5. PICK k \in 1..n : \A j \in 1..n : g[j] <= g[k]
  BY <1>3, <1>4, ListHasLargest
<1>6. g[k] \in S /\ \A x \in S : x <= g[k]
  BY <1>2, <1>5
<1>7. \E x \in S : \A y \in S : x >= y
  BY <1>6
<1>8. Max(S) \in S /\ \A y \in S : Max(S) >= y
  BY <1>7 DEF Max
<1>9. QED
  BY <1>8

LEMMA MinIs ==
  ASSUME NEW S \in SUBSET (1..3), S # {}
  PROVE  Min(S) \in S /\ \A x \in S : Min(S) <= x
<1>1. \E x \in S : \A y \in S : x <= y
  <2>1. CASE 1 \in S
    <3>1. \A y \in S : 1 <= y
      OBVIOUS
    <3>2. QED
      BY <2>1, <3>1
  <2>2. CASE 1 \notin S /\ 2 \in S
    <3>1. \A y \in S : y # 1 /\ y \in 1..3
      BY <2>2
    <3>2. QED
      BY <2>2, <3>1
  <2>3. CASE 1 \notin S /\ 2 \notin S
    <3>1. \A y \in S : y = 3
      BY <2>3
    <3>2. PICK x \in S : x = 3
      BY <3>1
    <3>3. QED
      BY <3>1, <3>2
  <2>4. QED
    BY <2>1, <2>2, <2>3
<1>2. QED
  BY <1>1 DEF Min

-----------------------------------------------------------------------------
(* The policy is valid and the records count what the log holds.           *)
TypeOK ==
  /\ policy \in {doc \in Docs : PolicyViolations(doc) = {}}
  /\ ranBy \in [Stages -> Runtimes \cup {NoRuntime}]
  /\ records \in [Runtimes -> [clean : Nat, stops : Nat]]

LEMMA TypesInit == Init => TypeOK
BY DEF Init, TypeOK, NoRecord

LEMMA TypesStep == TypeOK /\ [Next]_vars => TypeOK'
<1> SUFFICES ASSUME TypeOK, [Next]_vars PROVE TypeOK'
  OBVIOUS
<1> USE DEF TypeOK
<1>1. ASSUME NEW s \in Stages, Stop(s) PROVE TypeOK'
  BY <1>1 DEF Stop, Logged, AfterEnforcement
<1>2. ASSUME NEW s \in Stages, NEW r \in Runtimes, Start(s, r) PROVE TypeOK'
  BY <1>2 DEF Start, Logged
<1>3. ASSUME NEW r \in Runtimes, NEW verdict \in {"pass", "fail"}, Audit(r, verdict)
      PROVE  TypeOK'
  BY <1>3 DEF Audit, Logged, AfterVerdict
<1>4. ASSUME NEW s \in Stages, FailUndiagnosed(s) PROVE TypeOK'
  BY <1>4 DEF FailUndiagnosed, Logged
<1>5. ASSUME NEW s \in Stages, NEW obs \in Observed[s], Fail(s, obs) PROVE TypeOK'
  BY <1>5 DEF Fail, Logged
<1>6. CASE UNCHANGED vars
  BY <1>6 DEF vars
<1>7. QED
  BY <1>1, <1>2, <1>3, <1>4, <1>5, <1>6 DEF Next

THEOREM TypesHold == Spec => []TypeOK
BY TypesInit, TypesStep, PTL DEF Spec

-----------------------------------------------------------------------------
(* The level of a record: the thresholds it reaches, capped, less one when *)
(* it was ever stopped.                                                    *)
Reached(clean) == {t.level : t \in {l \in policy.levels : clean >= l.minCleanRuns}}
Top(clean)     == Max({0} \cup Reached(clean))
Capped(clean)  == IF Top(clean) <= policy.ceiling THEN Top(clean) ELSE policy.ceiling

LEMMA PolicyTyped ==
  ASSUME TypeOK
  PROVE  /\ policy.ceiling \in Nat /\ IsFiniteSet(policy.levels)
         /\ \A t \in policy.levels : t.level \in Nat /\ t.minCleanRuns \in Nat
         /\ \A id \in DOMAIN policy.autonomy :
              /\ policy.autonomy[id].form \in {"human", "auto", "at"}
              /\ policy.autonomy[id].level \in Int
              /\ policy.autonomy[id].form = "at" => policy.autonomy[id].level >= 1
<1>1. policy \in Docs /\ PolicyViolations(policy) = {}
  BY DEF TypeOK
<1>2. /\ ~(policy.ceiling < 0) /\ ~\E t \in policy.levels : t.level < 0 \/ t.minCleanRuns < 0
      /\ \A id \in DOMAIN policy.autonomy :
           ~(policy.autonomy[id].form = "at" /\ policy.autonomy[id].level < 1)
  BY <1>1 DEF PolicyViolations
<1>3. QED
  BY <1>1, <1>2, AttemptsAssumption

LEMMA TopIs ==
  ASSUME TypeOK, NEW clean \in Nat
  PROVE  /\ Top(clean) \in Nat /\ Top(clean) \in {0} \cup Reached(clean)
         /\ \A x \in Reached(clean) : x <= Top(clean)
<1>1. IsFiniteSet({t.level : t \in policy.levels})
  <2> DEFINE image == {t.level : t \in policy.levels}
             f == [t \in policy.levels |-> t.level]
  <2>1. f \in Surjection(policy.levels, image)
    BY DEF Surjection
  <2>2. IsFiniteSet(policy.levels)
    BY PolicyTyped
  <2> HIDE DEF f, image
  <2>3. QED
    <3>1. IsFiniteSet(image)
      BY <2>1, <2>2, FS_Surjection
    <3>2. QED
      BY <3>1 DEF image
<1>2. Reached(clean) \subseteq {t.level : t \in policy.levels} /\ Reached(clean) \subseteq Nat
  BY PolicyTyped DEF Reached
<1>3. IsFiniteSet(Reached(clean) \cup {0})
  BY <1>1, <1>2, FS_Subset, FS_AddElement
<1>4. {0} \cup Reached(clean) = Reached(clean) \cup {0}
  OBVIOUS
<1>5. Reached(clean) \cup {0} \in SUBSET Int /\ Reached(clean) \cup {0} # {}
  BY <1>2
<1>6. QED
  BY <1>2, <1>3, <1>4, <1>5, MaxIs DEF Top

LEMMA PairIs ==
  ASSUME NEW a \in Int, NEW b \in Int
  PROVE  /\ Min({a, b}) = (IF b <= a THEN b ELSE a)
         /\ Max({a, b}) = (IF b <= a THEN a ELSE b)
<1>1. \E x \in {a, b} : \A y \in {a, b} : x <= y
  OBVIOUS
<1>2. \E x \in {a, b} : \A y \in {a, b} : x >= y
  OBVIOUS
<1>3. Min({a, b}) \in {a, b} /\ \A y \in {a, b} : Min({a, b}) <= y
  BY <1>1 DEF Min
<1>4. Max({a, b}) \in {a, b} /\ \A y \in {a, b} : Max({a, b}) >= y
  BY <1>2 DEF Max
<1>5. QED
  BY <1>3, <1>4

LEMMA LevelIs ==
  ASSUME TypeOK, NEW record \in [clean : Nat, stops : Nat]
  PROVE  /\ Capped(record.clean) \in Nat
         /\ AutonomyLevel(record, policy) =
              IF record.stops > 0 /\ Capped(record.clean) > 0
                THEN Capped(record.clean) - 1 ELSE Capped(record.clean)
<1>1. Top(record.clean) \in Nat /\ policy.ceiling \in Nat
  BY TopIs, PolicyTyped
<1>2. Min({policy.ceiling, Top(record.clean)}) = Capped(record.clean)
  BY <1>1, PairIs DEF Capped
<1>3. Capped(record.clean) \in Nat
  BY <1>1 DEF Capped
<1>4. /\ Max({0, Capped(record.clean)}) = Capped(record.clean)
      /\ Max({0, Capped(record.clean) - 1}) =
           IF Capped(record.clean) > 0 THEN Capped(record.clean) - 1 ELSE Capped(record.clean)
  <2>1. \A b \in Int : Max({0, b}) = IF b <= 0 THEN 0 ELSE b
    BY PairIs
  <2>2. Capped(record.clean) \in Int /\ Capped(record.clean) - 1 \in Int
    BY <1>3
  <2>3. QED
    BY <1>3, <2>1, <2>2
<1>5. AutonomyLevel(record, policy) =
        Max({0, IF record.stops > 0 THEN Capped(record.clean) - 1 ELSE Capped(record.clean)})
  BY <1>2 DEF AutonomyLevel, Top, Reached
<1>6. QED
  BY <1>3, <1>4, <1>5

(* More clean audits reach as much and more; a first stop costs one level. *)
LEMMA LevelGrows ==
  ASSUME TypeOK, NEW a \in Nat, NEW b \in Nat, a <= b
  PROVE  Capped(a) <= Capped(b)
<1>1. Reached(a) \subseteq Reached(b)
  BY PolicyTyped DEF Reached
<1>2. Top(a) <= Top(b)
  <2>1. Top(a) \in Nat /\ Top(b) \in Nat /\ Top(a) \in {0} \cup Reached(a)
    BY TopIs
  <2>2. \A x \in Reached(b) : x <= Top(b)
    BY TopIs
  <2>3. QED
    BY <1>1, <2>1, <2>2
<1>3. Top(a) \in Nat /\ Top(b) \in Nat /\ policy.ceiling \in Nat
  BY TopIs, PolicyTyped
<1>4. QED
  BY <1>2, <1>3 DEF Capped

(* Only the policy lets an edge go without a human, and only on a record   *)
(* that was earned.                                                        *)
THEOREM NothingIsGiven == Spec => []NothingGivenUnearned
<1>1. TypeOK => NothingGivenUnearned
  <2> SUFFICES ASSUME TypeOK, NEW s \in Stages, ~EdgeWaits(s, records, policy)
               PROVE
    LET id == MapToPolicyId(s)  r == RuntimeOf[s]  entry == policy.autonomy[id]
        record == IF r = NoRuntime THEN NoRecord ELSE records[r]
    IN /\ id \in DOMAIN policy.autonomy
       /\ \/ entry.form = "auto"
          \/ /\ entry.form = "at"
             /\ \E t \in policy.levels :
                  LET owed == IF record.stops > 0 THEN 1 ELSE 0
                  IN /\ t.minCleanRuns <= record.clean
                     /\ entry.level + owed <= t.level
                     /\ entry.level + owed <= policy.ceiling
    BY DEF NothingGivenUnearned
  <2> DEFINE id == MapToPolicyId(s)
             record == IF RuntimeOf[s] = NoRuntime THEN NoRecord ELSE records[RuntimeOf[s]]
             owed == IF record.stops > 0 THEN 1 ELSE 0
             level == policy.autonomy[id].level
  <2>1. record \in [clean : Nat, stops : Nat]
    BY AutonomyAssumption DEF TypeOK, NoRecord
  <2>2. ~RequiresHuman(policy, id, AutonomyLevel(record, policy))
    BY DEF EdgeWaits
  <2> HIDE DEF record
  <2>3. /\ id \in DOMAIN policy.autonomy /\ policy.autonomy[id].form # "human"
        /\ policy.autonomy[id].form = "at" => ~(AutonomyLevel(record, policy) < level)
    BY <2>2 DEF RequiresHuman
  <2>4. /\ policy.autonomy[id].form \in {"human", "auto", "at"} /\ level \in Int
        /\ policy.autonomy[id].form = "at" => level >= 1
    BY <2>3, PolicyTyped
  <2>5. CASE policy.autonomy[id].form = "at"
    <3>1. Capped(record.clean) \in Nat /\ level + owed <= Capped(record.clean)
      BY <2>1, <2>3, <2>4, <2>5, LevelIs
    <3>2. /\ Top(record.clean) \in Nat /\ Top(record.clean) \in {0} \cup Reached(record.clean)
          /\ policy.ceiling \in Nat
      BY <2>1, TopIs, PolicyTyped
    <3>3. /\ level + owed <= Top(record.clean) /\ level + owed <= policy.ceiling
          /\ Top(record.clean) # 0
      BY <2>1, <2>4, <2>5, <3>1, <3>2 DEF Capped
    <3>4. PICK t \in policy.levels : record.clean >= t.minCleanRuns /\ t.level = Top(record.clean)
      BY <3>2, <3>3 DEF Reached
    <3>5. t.minCleanRuns <= record.clean /\ level + owed <= t.level
      BY <2>1, <3>3, <3>4, PolicyTyped
    <3>6. QED
      BY <2>3, <2>5, <3>3, <3>5 DEF record
  <2>6. CASE policy.autonomy[id].form = "auto"
    BY <2>3, <2>6
  <2>7. QED
    BY <2>3, <2>4, <2>5, <2>6
<1>2. QED
  BY TypesHold, <1>1, PTL

(* A level is earned by an audit and lost to a first stop, one's own.      *)
THEOREM LevelsAreEarned == Spec => LevelMovesForAReason
<1> DEFINE Moves == \A r \in Runtimes :
       LET before == AutonomyLevel(records[r], policy)
           after  == AutonomyLevel(records'[r], policy)
       IN /\ after > before => records'[r].clean > records[r].clean
          /\ after < before =>
               /\ after = before - 1
               /\ records[r].stops = 0 /\ records'[r].stops = 1
               /\ \E s \in Stages : ranBy[s] = r
<1>1. TypeOK /\ [Next]_vars => Moves
  <2> SUFFICES ASSUME TypeOK, [Next]_vars, NEW r \in Runtimes
               PROVE
       LET before == AutonomyLevel(records[r], policy)
           after  == AutonomyLevel(records'[r], policy)
       IN /\ after > before => records'[r].clean > records[r].clean
          /\ after < before =>
               /\ after = before - 1
               /\ records[r].stops = 0 /\ records'[r].stops = 1
               /\ \E s \in Stages : ranBy[s] = r
    OBVIOUS
  <2>1. PICK old, new \in [clean : Nat, stops : Nat] : old = records[r] /\ new = records'[r]
    BY TypesStep DEF TypeOK
  <2> DEFINE Counted == \/ new = old
                        \/ new.clean = old.clean + 1 /\ new.stops = old.stops
                        \/ /\ new.clean = old.clean /\ new.stops = old.stops + 1
                           /\ \E s \in Stages : ranBy[s] = r
  <2>2. Counted
    <3>1. ASSUME NEW s \in Stages, Stop(s) PROVE Counted
      <4>1. CASE ranBy[s] = NoRuntime
        BY <2>1, <3>1, <4>1 DEF Stop, AfterEnforcement
      <4>2. CASE ranBy[s] # NoRuntime /\ ranBy[s] # r
        BY <2>1, <3>1, <4>2 DEF Stop, AfterEnforcement, TypeOK
      <4>3. CASE ranBy[s] # NoRuntime /\ ranBy[s] = r
        <5>1. records' = [records EXCEPT ![r].stops = @ + 1]
          BY <3>1, <4>3 DEF Stop, AfterEnforcement
        <5>2. records'[r].stops = records[r].stops + 1 /\ records'[r].clean = records[r].clean
          BY <5>1 DEF TypeOK
        <5>3. QED
          BY <2>1, <4>3, <5>2
      <4>4. QED
        BY <4>1, <4>2, <4>3
    <3>2. ASSUME NEW q \in Runtimes, NEW verdict \in {"pass", "fail"}, Audit(q, verdict)
          PROVE  Counted
      <4>1. CASE q # r \/ verdict = "fail"
        BY <2>1, <3>2, <4>1 DEF Audit, AfterVerdict, TypeOK
      <4>2. CASE q = r /\ verdict = "pass"
        <5>1. records' = [records EXCEPT ![r].clean = @ + 1]
          BY <3>2, <4>2 DEF Audit, AfterVerdict
        <5>2. records'[r].clean = records[r].clean + 1 /\ records'[r].stops = records[r].stops
          BY <5>1 DEF TypeOK
        <5>3. QED
          BY <2>1, <5>2
      <4>3. QED
        BY <3>2, <4>1, <4>2
    <3>3. CASE records' = records
      BY <2>1, <3>3
    <3>4. QED
      BY <3>1, <3>2, <3>3 DEF Next, Start, Fail, FailUndiagnosed, vars
  <2>3. /\ Capped(old.clean) \in Nat /\ Capped(new.clean) \in Nat
        /\ AutonomyLevel(old, policy) =
              IF old.stops > 0 /\ Capped(old.clean) > 0
                THEN Capped(old.clean) - 1 ELSE Capped(old.clean)
        /\ AutonomyLevel(new, policy) =
              IF new.stops > 0 /\ Capped(new.clean) > 0
                THEN Capped(new.clean) - 1 ELSE Capped(new.clean)
    BY LevelIs
  <2>4. Capped(old.clean) <= Capped(new.clean)
    BY <2>2, LevelGrows
  <2>5. QED
    BY <2>1, <2>2, <2>3, <2>4
<1>2. QED
  BY TypesHold, <1>1, PTL DEF Spec, LevelMovesForAReason

-----------------------------------------------------------------------------
(* What a decision says of the failure and of the decisions before it.     *)
Categories ==
  DOMAIN Adaptive \cup DOMAIN Stops \cup {"unclassified"}

LEMMA TableIs ==
  /\ DOMAIN Adaptive = {"implementation_defect", "missing_context", "ambiguous_requirement",
                        "conflicting_constraints", "capability_limit"}
  /\ DOMAIN Stops = {"path_violation", "repeated_violation"}
  /\ Adaptive["implementation_defect"] = <<"retry", "apprising", "collaboration">>
  /\ Adaptive["missing_context"] = <<"apprising">>
  /\ Adaptive["ambiguous_requirement"] = <<"consultation">>
  /\ Adaptive["conflicting_constraints"] = <<"consultation">>
  /\ Adaptive["capability_limit"] = <<"switch_runtime">>
  /\ Stops["path_violation"] = "R-PATH-SCOPE"
  /\ Stops["repeated_violation"] = "R-REPEAT-VIOLATION"
BY DEF Adaptive, Stops

LEMMA TableRows ==
  ASSUME NEW c \in DOMAIN Adaptive
  PROVE  DOMAIN Adaptive[c] \in SUBSET (1..3)
<1>1. /\ DOMAIN Adaptive["implementation_defect"] = 1..3
      /\ DOMAIN Adaptive["missing_context"] = 1..1
      /\ DOMAIN Adaptive["ambiguous_requirement"] = 1..1
      /\ DOMAIN Adaptive["conflicting_constraints"] = 1..1
      /\ DOMAIN Adaptive["capability_limit"] = 1..1
  BY TableIs
<1>2. QED
  BY <1>1, TableIs

(* Whatever an observation shows is one of the categories.                 *)
LEMMA BaseIs ==
  ASSUME NEW signals \in SUBSET Signals
  PROVE  BaseCategory(signals) \in Categories \ {"repeated_violation"}
<1>1. CASE "proof" \in signals
  BY <1>1, TableIs DEF BaseCategory, Categories
<1>2. CASE "proof" \notin signals /\ "paths" \in signals
  <2>1. signals \cap {"proof", "paths"} = {"paths"}
    BY <1>2
  <2>2. BaseCategory(signals) = "path_violation"
    BY <1>2, <2>1 DEF BaseCategory
  <2>3. QED
    BY <2>2, TableIs DEF Categories
<1>3. CASE signals \cap {"proof", "paths"} = {} /\ "outside" \in signals
  <2>1. signals \cap {"proof", "paths", "outside"} = {"outside"}
    BY <1>3
  <2>2. BaseCategory(signals) = "missing_context"
    BY <1>3, <2>1 DEF BaseCategory
  <2>3. QED
    BY <2>2, TableIs DEF Categories
<1>4. CASE signals \cap {"proof", "paths", "outside"} = {} /\ "intent" \in signals
  <2>1. signals \cap {"proof", "paths", "outside", "intent"} = {"intent"}
    BY <1>4
  <2>2. BaseCategory(signals) = "ambiguous_requirement"
    BY <1>4, <2>1 DEF BaseCategory
  <2>3. QED
    BY <2>2, TableIs DEF Categories
<1>5. CASE signals \cap {"proof", "paths", "outside", "intent"} = {} /\ "rules" \in signals
  <2>1. signals \ {"stuck"} = {"rules"}
    BY <1>5, DiagnosisAssumption
  <2>2. BaseCategory(signals) = "conflicting_constraints"
    BY <1>5, <2>1 DEF BaseCategory
  <2>3. QED
    BY <2>2, TableIs DEF Categories
<1>6. CASE signals \cap {"proof", "paths", "outside", "intent", "rules"} = {}
  <2>1. CASE "stuck" \in signals
    <3>1. signals = {"stuck"}
      BY <1>6, <2>1, DiagnosisAssumption
    <3>2. BaseCategory(signals) = "capability_limit"
      BY <3>1 DEF BaseCategory
    <3>3. QED
      BY <3>2, TableIs DEF Categories
  <2>2. CASE "stuck" \notin signals
    <3>1. signals = {}
      BY <1>6, <2>2, DiagnosisAssumption
    <3>2. BaseCategory(signals) = "unclassified"
      BY <3>1 DEF BaseCategory
    <3>3. QED
      BY <3>2, TableIs DEF Categories
  <2>3. QED
    BY <2>1, <2>2
<1>7. QED
  BY <1>1, <1>2, <1>3, <1>4, <1>5, <1>6

(* A try is the first entry of the table of the category that was not      *)
(* tried on the inputs it would get now.                                   *)
Pair(i, obs, h) == <<i, BuildInputs(i, obs, h)>>

LEMMA DecisionIs ==
  ASSUME NEW obs \in Observations, NEW h, NEW limit,
         NEW c, c = Classify(obs, h), NEW d, d = Diagnose(obs, h, limit)
  PROVE  /\ d.category = c
         /\ IsTry(d) =>
              /\ ~(Len(h) >= limit) /\ c \in DOMAIN Adaptive
              /\ \E n \in DOMAIN Adaptive[c] :
                   /\ <<d.intervention, d.inputs>> = Pair(Adaptive[c][n], obs, h)
                   /\ Pair(Adaptive[c][n], obs, h) \notin TriedPairs(h)
                   /\ \A m \in DOMAIN Adaptive[c] :
                        m < n => Pair(Adaptive[c][m], obs, h) \in TriedPairs(h)
         /\ ~IsTry(d) /\ ~(Len(h) >= limit) /\ c \in DOMAIN Adaptive =>
              \A n \in DOMAIN Adaptive[c] : Pair(Adaptive[c][n], obs, h) \in TriedPairs(h)
<1>1. obs.signals \in SUBSET Signals
  BY DEF Observations
<1>2. c \in Categories
  BY <1>1, BaseIs, TableIs DEF Classify, Categories
<1> DEFINE untried == {n \in DOMAIN Adaptive[c] : Pair(Adaptive[c][n], obs, h) \notin TriedPairs(h)}
           next    == Adaptive[c][Min(untried)]
<1>3. d = IF Len(h) >= limit
            THEN Decision(c, "escalate", "R-ATTEMPT-LIMIT", NoInputs)
          ELSE IF c = "unclassified"
            THEN Decision(c, "escalate", "R-UNCLASSIFIED", NoInputs)
          ELSE IF c \in DOMAIN Stops
            THEN Decision(c, "enforcement", Stops[c], NoInputs)
          ELSE IF untried = {}
            THEN Decision(c, "escalate", "R-TABLE-EXHAUSTED", NoInputs)
          ELSE Decision(c, next, NoRule, BuildInputs(next, obs, h))
  BY DEF Diagnose, ChooseIntervention, Pair
<1>4. c \in DOMAIN Stops => Stops[c] \in {"R-PATH-SCOPE", "R-REPEAT-VIOLATION"}
  BY TableIs
<1>5. \A a, b, r, x : /\ Decision(a, b, r, x).category = a /\ Decision(a, b, r, x).rule = r
                     /\ Decision(a, b, r, x).intervention = b /\ Decision(a, b, r, x).inputs = x
  BY DEF Decision
<1>6. CASE Len(h) >= limit
  BY <1>3, <1>5, <1>6, DiagnosisAssumption DEF IsTry
<1>7. CASE ~(Len(h) >= limit) /\ c \notin DOMAIN Adaptive
  <2>1. c = "unclassified" \/ c \in DOMAIN Stops
    BY <1>2, <1>7 DEF Categories
  <2>2. QED
    BY <1>3, <1>4, <1>5, <1>7, <2>1, DiagnosisAssumption DEF IsTry
<1>8. CASE ~(Len(h) >= limit) /\ c \in DOMAIN Adaptive
  <2>1. c # "unclassified" /\ c \notin DOMAIN Stops
    BY <1>8, TableIs
  <2>2. CASE untried = {}
    <3>1. d = Decision(c, "escalate", "R-TABLE-EXHAUSTED", NoInputs)
      BY <1>3, <1>8, <2>1, <2>2
    <3>2. QED
      BY <1>5, <2>2, <3>1, DiagnosisAssumption DEF IsTry
  <2>3. CASE untried # {}
    <3>1. untried \in SUBSET (1..3)
      BY <1>8, TableRows
    <3>2. Min(untried) \in untried /\ \A m \in untried : Min(untried) <= m
      BY <2>3, <3>1, MinIs
    <3>3. d = Decision(c, next, NoRule, BuildInputs(next, obs, h))
      BY <1>3, <1>8, <2>1, <2>3
    <3>4. /\ d.category = c /\ d.rule = NoRule
          /\ d.intervention = next /\ d.inputs = BuildInputs(next, obs, h)
      BY <1>5, <3>3
    <3>5. \A m \in DOMAIN Adaptive[c] :
            m < Min(untried) => Pair(Adaptive[c][m], obs, h) \in TriedPairs(h)
      BY <3>1, <3>2
    <3>6. QED
      BY <1>8, <3>2, <3>4, <3>5 DEF IsTry, Pair
  <2>4. QED
    BY <2>2, <2>3
<1>9. QED
  BY <1>6, <1>7, <1>8

-----------------------------------------------------------------------------
(* Each decision of a stage was made from the failure it is of and the     *)
(* decisions before it, and stays what it was: what every property of the  *)
(* attempts rests on.                                                      *)
Before(h, i) == SubSeq(h, 1, i - 1)

Decided(h, obs, limit) ==
  /\ h \in Seq(ToSet(h)) /\ obs \in Seq(Observations) /\ Len(h) = Len(obs)
  /\ \A i \in 1..Len(h) : h[i] = Diagnose(obs[i], Before(h, i), limit)

HistoryInv ==
  /\ history = [s \in Stages |-> history[s]] /\ seen = [s \in Stages |-> seen[s]]
  /\ \A s \in Stages : Decided(history[s], seen[s], policy.maxAttempts)

LEMMA BeforeIs ==
  ASSUME NEW h, h \in Seq(ToSet(h)), NEW i \in 1..Len(h)
  PROVE  /\ Before(h, i) \in Seq(ToSet(h)) /\ Len(Before(h, i)) = i - 1
         /\ \A j \in 1..(i - 1) : Before(h, i)[j] = h[j]
         /\ ToSet(Before(h, i)) = {h[j] : j \in 1..(i - 1)}
<1>1. /\ Before(h, i) \in Seq(ToSet(h)) /\ Len(Before(h, i)) = i - 1
      /\ \A j \in 1..(i - 1) : Before(h, i)[j] = h[j]
  BY DEF Before
<1>2. DOMAIN Before(h, i) = 1..(i - 1)
  BY <1>1
<1>3. QED
  BY <1>1, <1>2 DEF ToSet

LEMMA Appended ==
  ASSUME NEW h, NEW obs, NEW limit, Decided(h, obs, limit), NEW o \in Observations
  PROVE  Decided(Append(h, Diagnose(o, h, limit)), Append(obs, o), limit)
<1> DEFINE d == Diagnose(o, h, limit)
           S == ToSet(h) \cup {d}
<1>1. /\ h \in Seq(ToSet(h)) /\ obs \in Seq(Observations) /\ Len(h) = Len(obs) /\ Len(h) \in Nat
      /\ \A i \in 1..Len(h) : h[i] = Diagnose(obs[i], Before(h, i), limit)
  BY DEF Decided
<1>2. PICK g : g = Append(h, d)
  OBVIOUS
<1>3. PICK p : p = Append(obs, o)
  OBVIOUS
<1> HIDE DEF d
<1>4. h \in Seq(S) /\ d \in S
  BY <1>1
<1> HIDE DEF S
<1>5. /\ g \in Seq(S) /\ Len(g) = Len(h) + 1 /\ g[Len(h) + 1] = d
      /\ \A i \in 1..Len(h) : g[i] = h[i]
  BY <1>1, <1>2, <1>4
<1>6. g \in Seq(ToSet(g))
  BY <1>5 DEF ToSet
<1>7. /\ p \in Seq(Observations) /\ Len(p) = Len(h) + 1 /\ p[Len(h) + 1] = o
      /\ \A i \in 1..Len(h) : p[i] = obs[i]
  BY <1>1, <1>3
<1>8. ASSUME NEW i \in 1..(Len(h) + 1) PROVE Before(g, i) = SubSeq(h, 1, i - 1)
  <2>1. PICK u, v : u = Before(g, i) /\ v = SubSeq(h, 1, i - 1)
    OBVIOUS
  <2>2. u \in Seq(S) /\ Len(u) = i - 1 /\ \A j \in 1..(i - 1) : u[j] = g[j]
    BY <1>1, <1>5, <2>1 DEF Before
  <2>3. v \in Seq(S) /\ Len(v) = i - 1 /\ \A j \in 1..(i - 1) : v[j] = h[j]
    BY <1>1, <1>4, <2>1
  <2>4. \A j \in 1..(i - 1) : u[j] = v[j]
    <3>1. \A j \in 1..(i - 1) : j \in 1..Len(h)
      BY <1>1
    <3>2. QED
      BY <1>5, <2>2, <2>3, <3>1
  <2>5. u = v
    BY <1>1, <2>2, <2>3, <2>4
  <2>6. QED
    BY <2>1, <2>5
<1>9. SubSeq(h, 1, Len(h)) = h
  BY <1>1
<1>10. ASSUME NEW i \in 1..Len(g) PROVE g[i] = Diagnose(p[i], Before(g, i), limit)
  <2>1. CASE i \in 1..Len(h)
    <3>1. Before(g, i) = Before(h, i)
      BY <1>1, <1>8, <2>1 DEF Before
    <3>2. QED
      BY <1>1, <1>5, <1>7, <2>1, <3>1
  <2>2. CASE i = Len(h) + 1
    <3>1. Before(g, i) = SubSeq(h, 1, i - 1) /\ i - 1 = Len(h)
      BY <1>1, <1>8, <2>2
    <3>2. Before(g, i) = h /\ g[i] = d /\ p[i] = o
      BY <1>5, <1>7, <1>9, <2>2, <3>1
    <3>3. QED
      BY <3>2 DEF d
  <2>3. QED
    BY <1>1, <1>5, <2>1, <2>2
<1>11. Decided(g, p, limit)
  BY <1>5, <1>6, <1>7, <1>10 DEF Decided
<1>12. QED
  BY <1>2, <1>3, <1>11 DEF d

LEMMA HistoryInit == Init => HistoryInv
<1> SUFFICES ASSUME Init PROVE HistoryInv
  OBVIOUS
<1>1. history = [s \in Stages |-> <<>>] /\ seen = [s \in Stages |-> <<>>]
  BY DEF Init
<1>2. Decided(<<>>, <<>>, policy.maxAttempts)
  BY DEF Decided, ToSet
<1>3. QED
  BY <1>1, <1>2 DEF HistoryInv

LEMMA HistoryStep == HistoryInv /\ [Next]_vars => HistoryInv'
<1> SUFFICES ASSUME HistoryInv, [Next]_vars PROVE HistoryInv'
  OBVIOUS
<1>1. CASE UNCHANGED <<history, seen, policy>>
  BY <1>1 DEF HistoryInv
<1>2. ASSUME NEW s \in Stages, NEW obs \in Observed[s], Fail(s, obs) PROVE HistoryInv'
  <2>1. obs \in Observations
    BY AttemptsAssumption
  <2>2. PICK limit : limit = policy.maxAttempts
    OBVIOUS
  <2>3. policy' = policy
    BY <1>2 DEF Fail, Logged
  <2>4. PICK h, o : h = history[s] /\ o = seen[s]
    OBVIOUS
  <2>5. /\ history' = [history EXCEPT ![s] = Append(h, Diagnose(obs, h, limit))]
        /\ seen' = [seen EXCEPT ![s] = Append(o, obs)]
    BY <1>2, <2>2, <2>4 DEF Fail
  <2>6. Decided(Append(h, Diagnose(obs, h, limit)), Append(o, obs), limit)
    BY <2>1, <2>2, <2>4, Appended DEF HistoryInv
  <2>7. \A q \in Stages : Decided(history'[q], seen'[q], limit)
    BY <2>2, <2>5, <2>6 DEF HistoryInv
  <2>8. history' = [q \in Stages |-> history'[q]] /\ seen' = [q \in Stages |-> seen'[q]]
    BY <2>5 DEF HistoryInv
  <2>9. \A q \in Stages : Decided(history'[q], seen'[q], policy'.maxAttempts)
    BY <2>2, <2>3, <2>7
  <2>10. QED
    BY <2>8, <2>9 DEF HistoryInv
<1>3. QED
  BY <1>1, <1>2 DEF Next, Stop, FailUndiagnosed, Start, Audit, Logged, vars

THEOREM HistoryHolds == Spec => []HistoryInv
BY HistoryInit, HistoryStep, PTL DEF Spec

-----------------------------------------------------------------------------
Tried(h, i) == {<<h[j].intervention, h[j].inputs>> : j \in {k \in 1..(i - 1) : IsTry(h[k])}}

(* What the decision on failure i, observed as o and classified as c, was. *)
DecidedAs(h, i, o, c, limit) ==
  /\ h[i].category = c
  /\ IsTry(h[i]) =>
       /\ ~(i - 1 >= limit) /\ c \in DOMAIN Adaptive
       /\ \E n \in DOMAIN Adaptive[c] :
            /\ <<h[i].intervention, h[i].inputs>> = Pair(Adaptive[c][n], o, Before(h, i))
            /\ Pair(Adaptive[c][n], o, Before(h, i)) \notin Tried(h, i)
            /\ \A m \in DOMAIN Adaptive[c] :
                 m < n => Pair(Adaptive[c][m], o, Before(h, i)) \in Tried(h, i)
  /\ ~IsTry(h[i]) /\ ~(i - 1 >= limit) /\ c \in DOMAIN Adaptive =>
       \A n \in DOMAIN Adaptive[c] : Pair(Adaptive[c][n], o, Before(h, i)) \in Tried(h, i)

LEMMA DecidedAt ==
  ASSUME NEW h, NEW obs, NEW limit, Decided(h, obs, limit), NEW i \in 1..Len(h)
  PROVE  DecidedAs(h, i, obs[i], Classify(obs[i], Before(h, i)), limit)
<1>1. /\ obs[i] \in Observations /\ h[i] = Diagnose(obs[i], Before(h, i), limit)
      /\ h \in Seq(ToSet(h))
  BY DEF Decided
<1>2. Len(Before(h, i)) = i - 1 /\ ToSet(Before(h, i)) = {h[j] : j \in 1..(i - 1)}
  BY <1>1, BeforeIs
<1>3. TriedPairs(Before(h, i)) = Tried(h, i)
  BY <1>2 DEF TriedPairs, Tried
<1>4. PICK d : d = h[i]
  OBVIOUS
<1>5. PICK o, g : o = obs[i] /\ g = Before(h, i)
  OBVIOUS
<1>6. PICK c : c = Classify(o, g)
  OBVIOUS
<1>7. d = Diagnose(o, g, limit) /\ o \in Observations
  BY <1>1, <1>4, <1>5
<1>8. DecidedAs(h, i, o, c, limit)
  BY <1>2, <1>3, <1>4, <1>5, <1>6, <1>7, DecisionIs DEF DecidedAs
<1>9. QED
  BY <1>5, <1>6, <1>8

LEMMA MadeIsTried ==
  ASSUME NEW h, NEW i \in Nat, NEW j \in Nat, 1 <= i, i < j, IsTry(h[i])
  PROVE  <<h[i].intervention, h[i].inputs>> \in Tried(h, j)
<1>1. i \in 1..(j - 1)
  OBVIOUS
<1>2. PICK k \in {k \in 1..(j - 1) : IsTry(h[k])} : k = i
  BY <1>1
<1>3. QED
  BY <1>2 DEF Tried

LEMMA TriedOnce ==
  ASSUME NEW h, NEW obs, NEW limit, Decided(h, obs, limit),
         NEW i \in 1..Len(h), NEW j \in 1..Len(h), i < j, IsTry(h[i]), IsTry(h[j])
  PROVE  <<h[i].intervention, h[i].inputs>> # <<h[j].intervention, h[j].inputs>>
<1>1. i \in Nat /\ j \in Nat /\ 1 <= i
  BY DEF Decided
<1>2. <<h[i].intervention, h[i].inputs>> \in Tried(h, j)
  BY <1>1, MadeIsTried
<1>3. PICK c : c = Classify(obs[j], Before(h, j))
  OBVIOUS
<1>4. DecidedAs(h, j, obs[j], c, limit)
  BY <1>3, DecidedAt
<1>5. <<h[j].intervention, h[j].inputs>> \notin Tried(h, j)
  BY <1>4 DEF DecidedAs
<1>6. QED
  BY <1>2, <1>5

(* No try is made twice, however the failures of a stage alternate.        *)
THEOREM NoTryIsRepeated == Spec => []NoTryRepeated
<1>1. HistoryInv => NoTryRepeated
  <2> SUFFICES ASSUME HistoryInv, NEW s \in Stages, NEW i \in Tries(s), NEW j \in Tries(s),
                      history[s][i].intervention = history[s][j].intervention,
                      history[s][i].inputs = history[s][j].inputs
               PROVE  i = j
    BY DEF NoTryRepeated
  <2>1. PICK h, obs : h = history[s] /\ obs = seen[s]
    OBVIOUS
  <2>2. Decided(h, obs, policy.maxAttempts)
    BY <2>1 DEF HistoryInv
  <2>3. /\ i \in 1..Len(h) /\ j \in 1..Len(h) /\ Len(h) \in Nat /\ IsTry(h[i]) /\ IsTry(h[j])
        /\ <<h[i].intervention, h[i].inputs>> = <<h[j].intervention, h[j].inputs>>
    BY <2>1, <2>2 DEF Decided, Tries
  <2>4. ~(i < j) /\ ~(j < i)
    BY <2>2, <2>3, TriedOnce
  <2>5. QED
    BY <2>3, <2>4
<1>2. QED
  BY HistoryHolds, <1>1, PTL

(* A failure outside the scope is stopped, and two in a row are told apart *)
(* from one.                                                               *)
THEOREM ViolationsAreStopped == Spec => []ViolationsStop
<1>1. HistoryInv => ViolationsStop
  <2> SUFFICES ASSUME HistoryInv, NEW s \in Stages, NEW i \in DOMAIN seen[s],
                      BaseCategory(seen[s][i].signals) = "path_violation"
               PROVE  /\ i \notin Tries(s)
                      /\ i > 1 => {history[s][i - 1].category, history[s][i].category}
                                    # {"path_violation"}
    BY DEF ViolationsStop
  <2>1. PICK h, obs : h = history[s] /\ obs = seen[s]
    OBVIOUS
  <2>2. Decided(h, obs, policy.maxAttempts)
    BY <2>1 DEF HistoryInv
  <2>3. i \in 1..Len(h) /\ Len(h) \in Nat /\ h \in Seq(ToSet(h))
    BY <2>1, <2>2 DEF Decided
  <2>4. PICK c : c = Classify(obs[i], Before(h, i))
    OBVIOUS
  <2>5. h[i].category = c /\ (IsTry(h[i]) => c \in DOMAIN Adaptive)
    BY <2>2, <2>3, <2>4, DecidedAt DEF DecidedAs
  <2>6. c = IF PreviousCategory(Before(h, i)) = "path_violation"
              THEN "repeated_violation" ELSE "path_violation"
    BY <2>1, <2>4 DEF Classify
  <2>7. i \notin Tries(s)
    BY <2>1, <2>5, <2>6, TableIs DEF Tries
  <2>8. ASSUME i > 1, h[i - 1].category = "path_violation" PROVE h[i].category # "path_violation"
    <3>1. /\ Before(h, i) \in Seq(ToSet(h)) /\ Len(Before(h, i)) = i - 1
          /\ Before(h, i)[i - 1] = h[i - 1]
      BY <2>3, <2>8, BeforeIs
    <3>2. PreviousCategory(Before(h, i)) = h[i - 1].category
      BY <2>3, <2>8, <3>1 DEF PreviousCategory, Last
    <3>3. QED
      BY <2>5, <2>6, <2>8, <3>2
  <2>9. QED
    BY <2>1, <2>7, <2>8
<1>2. QED
  BY HistoryHolds, <1>1, PTL

(* The inputs of a retry depend on the failure alone; those of the other   *)
(* interventions on the category of the one before as well.                *)
LEMMA SameInputs ==
  ASSUME NEW o, NEW g, NEW h
  PROVE  Pair("retry", o, g) = Pair("retry", o, h)
BY DEF Pair, BuildInputs

LEMMA TriedGrows ==
  ASSUME NEW h, NEW i \in Nat, NEW j \in Nat, i <= j
  PROVE  Tried(h, i) \subseteq Tried(h, j)
<1>1. {k \in 1..(i - 1) : IsTry(h[k])} \subseteq {k \in 1..(j - 1) : IsTry(h[k])}
  OBVIOUS
<1>2. QED
  BY <1>1 DEF Tried

LEMMA SameFailure ==
  ASSUME NEW h, NEW obs, NEW limit \in Int, Decided(h, obs, limit), NEW i \in 1..Len(h), i >= 4,
         \A j \in (i - 3)..i : obs[j] = obs[i]
  PROVE  ~IsTry(h[i])
<1> SUFFICES ASSUME IsTry(h[i]) PROVE FALSE
  OBVIOUS
<1>1. PICK o : o = obs[i]
  OBVIOUS
<1>2. PICK b : b = BaseCategory(o.signals)
  OBVIOUS
<1>3. /\ h \in Seq(ToSet(h)) /\ Len(h) \in Nat /\ i \in Nat
      /\ i - 3 \in 1..Len(h) /\ i - 2 \in 1..Len(h) /\ i - 1 \in 1..Len(h)
      /\ obs[i - 3] = o /\ obs[i - 2] = o /\ obs[i - 1] = o
  BY <1>1 DEF Decided
<1>4. b \in DOMAIN Adaptive /\ b # "path_violation" /\ ~(i - 1 >= limit)
  <2>1. PICK c : c = Classify(obs[i], Before(h, i))
    OBVIOUS
  <2>2. c \in DOMAIN Adaptive /\ ~(i - 1 >= limit)
    BY <2>1, DecidedAt DEF DecidedAs
  <2>3. c = Classify(o, Before(h, i))
    BY <1>1, <2>1
  <2>4. QED
    BY <1>2, <2>2, <2>3, TableIs DEF Classify
<1>5. \A g : Classify(o, g) = b
  BY <1>2, <1>4 DEF Classify
(* The first of the four failures is d, the next two are e and f.          *)
<1>6. PICK d, e, f : d = i - 3 /\ e = i - 2 /\ f = i - 1
  OBVIOUS
<1>7. /\ d \in 1..Len(h) /\ e \in 1..Len(h) /\ f \in 1..Len(h)
      /\ obs[d] = o /\ obs[e] = o /\ obs[f] = o
      /\ d < e /\ e < f /\ f < i /\ e - 1 = d /\ f - 1 = e /\ i - 1 = f
      /\ ~(d - 1 >= limit) /\ ~(e - 1 >= limit) /\ ~(f - 1 >= limit)
      /\ e > 1 /\ f > 1 /\ i > 1
      /\ d \in Nat /\ e \in Nat /\ f \in Nat
  BY <1>3, <1>4, <1>6
<1>8. PICK D, E, F, G : D = Before(h, d) /\ E = Before(h, e) /\ F = Before(h, f) /\ G = Before(h, i)
  OBVIOUS
<1>9. /\ DecidedAs(h, d, o, b, limit) /\ DecidedAs(h, e, o, b, limit)
      /\ DecidedAs(h, f, o, b, limit) /\ DecidedAs(h, i, o, b, limit)
  <2>1. ASSUME NEW j \in 1..Len(h), obs[j] = o PROVE DecidedAs(h, j, o, b, limit)
    <3>1. PICK c : c = Classify(obs[j], Before(h, j))
      OBVIOUS
    <3>2. c = b
      BY <1>5, <2>1, <3>1
    <3>3. QED
      BY <2>1, <3>1, <3>2, DecidedAt
  <2>2. QED
    BY <1>1, <1>7, <2>1
<1>10. PreviousCategory(E) = b /\ PreviousCategory(F) = b /\ PreviousCategory(G) = b
  <2>1. ASSUME NEW j \in 1..Len(h), j > 1, h[j - 1].category = b
        PROVE  PreviousCategory(Before(h, j)) = b
    <3>1. Before(h, j) \in Seq(ToSet(h)) /\ Len(Before(h, j)) = j - 1
          /\ \A k \in 1..(j - 1) : Before(h, j)[k] = h[k]
      BY <1>3, BeforeIs
    <3>2. PICK g : g = Before(h, j)
      OBVIOUS
    <3>3. j \in Nat /\ j - 1 \in 1..(j - 1)
      BY <1>3, <2>1
    <3>4. g \in Seq(ToSet(h)) /\ Len(g) = j - 1 /\ g[j - 1] = h[j - 1]
      BY <3>1, <3>2, <3>3
    <3>5. PreviousCategory(g) = h[j - 1].category
      BY <3>3, <3>4 DEF PreviousCategory, Last
    <3>6. QED
      BY <2>1, <3>2, <3>5
  <2>2. PreviousCategory(Before(h, e)) = b
    BY <1>7, <1>9, <2>1 DEF DecidedAs
  <2>3. PreviousCategory(Before(h, f)) = b
    BY <1>7, <1>9, <2>1 DEF DecidedAs
  <2>4. PreviousCategory(Before(h, i)) = b
    BY <1>7, <1>9, <2>1 DEF DecidedAs
  <2>5. QED
    BY <1>8, <2>2, <2>3, <2>4
<1> DEFINE P(n) == Pair(Adaptive[b][n], o, G)
           Made(j) == <<h[j].intervention, h[j].inputs>>
           Dom == DOMAIN Adaptive[b]
<1>11. \A n : Pair(Adaptive[b][n], o, F) = P(n) /\ Pair(Adaptive[b][n], o, E) = P(n)
  <2>1. \A k : Pair(k, o, F) = Pair(k, o, G) /\ Pair(k, o, E) = Pair(k, o, G)
    <3>1. ASSUME NEW u, NEW v, PreviousCategory(u) = PreviousCategory(v), NEW k
          PROVE  Pair(k, o, u) = Pair(k, o, v)
      BY <3>1 DEF Pair, BuildInputs
    <3>2. QED
      BY <1>10, <3>1
  <2>2. QED
    BY <2>1
<1>12. Tried(h, d) \subseteq Tried(h, e) /\ Tried(h, e) \subseteq Tried(h, f)
       /\ Tried(h, f) \subseteq Tried(h, i)
  BY <1>3, <1>7, TriedGrows
<1>13. \E n \in Dom : Made(i) = P(n) /\ P(n) \notin Tried(h, i)
  BY <1>8, <1>9 DEF DecidedAs
<1>14. /\ IsTry(h[f]) => \E n \in Dom : Made(f) = P(n) /\ P(n) \notin Tried(h, f)
       /\ ~IsTry(h[f]) => \A n \in Dom : P(n) \in Tried(h, f)
  <2>1. /\ IsTry(h[f]) => \E n \in Dom : /\ Made(f) = Pair(Adaptive[b][n], o, F)
                                         /\ Pair(Adaptive[b][n], o, F) \notin Tried(h, f)
        /\ ~IsTry(h[f]) => \A n \in Dom : Pair(Adaptive[b][n], o, F) \in Tried(h, f)
    BY <1>4, <1>7, <1>8, <1>9 DEF DecidedAs
  <2> HIDE DEF P, Made, Dom
  <2>2. QED
    BY <1>11, <2>1
<1>15. /\ IsTry(h[e]) => \E n \in Dom : Made(e) = P(n) /\ P(n) \notin Tried(h, e)
       /\ ~IsTry(h[e]) => \A n \in Dom : P(n) \in Tried(h, e)
  <2>1. /\ IsTry(h[e]) => \E n \in Dom : /\ Made(e) = Pair(Adaptive[b][n], o, E)
                                         /\ Pair(Adaptive[b][n], o, E) \notin Tried(h, e)
        /\ ~IsTry(h[e]) => \A n \in Dom : Pair(Adaptive[b][n], o, E) \in Tried(h, e)
    BY <1>4, <1>7, <1>8, <1>9 DEF DecidedAs
  <2> HIDE DEF P, Made, Dom
  <2>2. QED
    BY <1>11, <2>1
<1>16. /\ IsTry(h[d]) => \E n \in Dom :
              /\ Made(d) = Pair(Adaptive[b][n], o, D)
              /\ \A m \in Dom : m < n => Pair(Adaptive[b][m], o, D) \in Tried(h, d)
       /\ ~IsTry(h[d]) => \A n \in Dom : Pair(Adaptive[b][n], o, D) \in Tried(h, d)
  BY <1>4, <1>7, <1>8, <1>9 DEF DecidedAs
<1>17. /\ IsTry(h[d]) => Made(d) \in Tried(h, e)
       /\ IsTry(h[e]) => Made(e) \in Tried(h, f)
       /\ IsTry(h[f]) => Made(f) \in Tried(h, i)
  <2>1. ASSUME NEW j \in 1..Len(h), NEW k \in 1..Len(h), j < k, IsTry(h[j])
        PROVE  Made(j) \in Tried(h, k)
    BY <1>3, <2>1, MadeIsTried
  <2>2. QED
    BY <1>7, <2>1
<1>18. \A g : Pair("retry", o, g) = Pair("retry", o, G)
  BY SameInputs
<1>19. DOMAIN Adaptive["implementation_defect"] = 1..3
       /\ Adaptive["implementation_defect"][1] = "retry"
       /\ (b # "implementation_defect" => Dom = 1..1)
  BY <1>4, TableIs
(* All that is needed of the pairs from here on.                           *)
<1> HIDE DEF P, Made
(* The two failures before the last were tried too, or nothing would have  *)
(* been left for it.                                                       *)
<1>20. PICK n3 \in Dom : Made(i) = P(n3) /\ P(n3) \notin Tried(h, i)
  BY <1>13
<1>21. IsTry(h[f]) /\ IsTry(h[e])
  BY <1>12, <1>14, <1>15, <1>20
<1>22. PICK n2 \in Dom : Made(f) = P(n2) /\ P(n2) \notin Tried(h, f)
  BY <1>14, <1>21
<1>23. PICK n1 \in Dom : Made(e) = P(n1) /\ P(n1) \notin Tried(h, e)
  BY <1>15, <1>21
<1>24. n1 # n2 /\ n1 # n3 /\ n2 # n3
  BY <1>12, <1>17, <1>20, <1>21, <1>22, <1>23
(* Three different entries: the table of an implementation defect, and one *)
(* of them is the retry, which came first.                                 *)
<1>25. b = "implementation_defect" /\ Dom = 1..3 /\ Adaptive[b][1] = "retry"
  <2>1. b = "implementation_defect"
    BY <1>19, <1>20, <1>22, <1>23, <1>24
  <2>2. QED
    BY <1>19, <2>1
<1>26. P(1) = Pair("retry", o, D)
  BY <1>18, <1>25 DEF P
<1>27. P(1) \in Tried(h, e)
  <2>1. CASE ~IsTry(h[d])
    <3>1. Pair(Adaptive[b][1], o, D) \in Tried(h, d)
      BY <1>16, <1>25, <2>1
    <3>2. QED
      BY <1>12, <1>25, <1>26, <3>1
  <2>2. CASE IsTry(h[d])
    <3>1. PICK n \in Dom :
            /\ Made(d) = Pair(Adaptive[b][n], o, D)
            /\ \A m \in Dom : m < n => Pair(Adaptive[b][m], o, D) \in Tried(h, d)
      BY <1>16, <2>2 DEF Made
    <3>2. CASE n = 1
      BY <1>17, <1>25, <1>26, <2>2, <3>1, <3>2
    <3>3. CASE n # 1
      <4>1. 1 \in Dom /\ 1 < n
        BY <1>25, <3>3
      <4>2. Pair(Adaptive[b][1], o, D) \in Tried(h, d)
        BY <3>1, <4>1
      <4>3. QED
        BY <1>12, <1>25, <1>26, <4>2
    <3>4. QED
      BY <3>2, <3>3
  <2>3. QED
    BY <2>1, <2>2
<1>28. n1 # 1 /\ n2 # 1 /\ n3 # 1
  BY <1>12, <1>20, <1>22, <1>23, <1>27
<1>29. QED
  BY <1>20, <1>22, <1>23, <1>24, <1>25, <1>28

(* Four failures alike do not end in a try: three pairs of an intervention *)
(* and its inputs are all there are, and the retry was made by the first.  *)
THEOREM SameFailureIsStopped == Spec => []SameFailureStops
<1>1. TypeOK /\ HistoryInv => SameFailureStops
  <2> SUFFICES ASSUME TypeOK, HistoryInv, NEW s \in Stages, NEW i \in DOMAIN seen[s], i >= 4,
                      \A j \in (i - 3)..i : seen[s][j] = seen[s][i]
               PROVE  i \notin Tries(s)
    BY DEF SameFailureStops
  <2>1. PICK h, obs : h = history[s] /\ obs = seen[s]
    OBVIOUS
  <2>2. Decided(h, obs, policy.maxAttempts)
    BY <2>1 DEF HistoryInv
  <2>3. i \in 1..Len(h) /\ policy.maxAttempts \in Int
    BY <2>1, <2>2, AttemptsAssumption DEF Decided, TypeOK
  <2>4. ~IsTry(h[i])
    BY <2>1, <2>2, <2>3, SameFailure
  <2>5. QED
    BY <2>1, <2>4 DEF Tries
<1>2. QED
  BY TypesHold, HistoryHolds, <1>1, PTL
=============================================================================
