--------------------------- MODULE EventLogProofs ---------------------------
(***************************************************************************)
(* Proofs about EventLog, for any processes, events, length and number of  *)
(* failures: when appends are made one at a time and no write is short,    *)
(* the file implements DurableLog, its chain verifies, status finds the    *)
(* head a merge recorded, and a log that was tampered with shows.          *)
(***************************************************************************)
EXTENDS EventLogProperties, WellFoundedInduction, TLAPS

OneAtATime == Serial /\ MaxShort = 0

(* A line holds the hash of a line, so no set holds them all: the lines    *)
(* there are, and those that were read, make up some set.                  *)
Types ==
  /\ \E S : lines \in Seq(S)
  /\ \E R : writer \in [Writers -> [at : Places, read : R, event : Events \cup {NoEvent}]]
  /\ durable \in 0..Len(lines) /\ tail \in Tails
  /\ faults \in 0..MaxFaults /\ shorts \in 0..MaxShort

(* What a process knows of the file at each place of appendEvent, and that *)
(* it is alone there.                                                      *)
Alone ==
  \A w, z \in Writers : writer[w].at # "idle" /\ writer[z].at # "idle" => w = z

Knows ==
  \A w \in Writers :
    /\ writer[w].at # "idle" => writer[w].event \in Events
    /\ writer[w].at \in {"truncate", "write", "writing"} => writer[w].read = lines
    /\ writer[w].at = "write" => tail = "none"
    /\ writer[w].at = "writing" => tail = "torn"
    /\ writer[w].at \in {"sync", "return"} =>
         Len(lines) > 0 /\ lines[Len(lines)] = Record(writer[w].read, writer[w].event)
    /\ writer[w].at = "return" => durable = Len(lines)

Chained == \A i \in 1..Len(lines) : LineHolds(lines, i)

Stored == \A l \in told : \E i \in 1..durable : lines[i] = l

Headed ==
  head # NoHash =>
    Len(atHead) \in 1..durable /\ head = Sha256(lines[Len(atHead)])

LogInv == OneAtATime /\ Types /\ Alone /\ Knows /\ Chained /\ Stored /\ Headed

-----------------------------------------------------------------------------
(* Cuts of logs that begin alike.                                          *)

LEMMA CutsNest ==
  ASSUME NEW S, NEW s \in Seq(S), NEW R, NEW t \in Seq(R),
         NEW n \in 0..Len(s), NEW k \in n..Len(t), \A i \in 1..n : t[i] = s[i]
  PROVE  IsPrefix(SubSeq(s, 1, n), SubSeq(t, 1, k))
<1>1. SubSeq(s, 1, n) = [i \in 1..n |-> s[i]]
  OBVIOUS
<1>2. SubSeq(t, 1, k) = [i \in 1..k |-> t[i]]
  OBVIOUS
<1>3. Len(SubSeq(s, 1, n)) = n /\ Len(SubSeq(t, 1, k)) = k
  OBVIOUS
<1>4. SubSeq(SubSeq(s, 1, n), 1, n) = [i \in 1..n |-> s[i]]
  BY <1>1, <1>3
<1>5. SubSeq(SubSeq(t, 1, k), 1, n) = [i \in 1..n |-> t[i]]
  BY <1>2, <1>3
<1>6. QED
  BY <1>3, <1>4, <1>5 DEF IsPrefix

LEMMA InCut ==
  ASSUME NEW S, NEW s \in Seq(S), NEW n \in 0..Len(s), NEW i \in 1..n
  PROVE  s[i] \in ToSet(SubSeq(s, 1, n))
<1>1. SubSeq(s, 1, n)[i] = s[i] /\ i \in DOMAIN SubSeq(s, 1, n)
  OBVIOUS
<1>2. QED
  BY <1>1 DEF ToSet

-----------------------------------------------------------------------------
(* What a step does to the processes, one by one.                          *)

LEMMA GoesMoves ==
  ASSUME Types, NEW w \in Writers, NEW place \in Places, Goes(w, place)
  PROVE  /\ \E R : writer' \in [Writers -> [at : Places, read : R, event : Events \cup {NoEvent}]]
         /\ writer'[w].at = place
         /\ writer'[w].read = writer[w].read /\ writer'[w].event = writer[w].event
         /\ \A z \in Writers \ {w} : writer'[z] = writer[z]
<1>1. PICK R : writer \in [Writers -> [at : Places, read : R, event : Events \cup {NoEvent}]]
  BY DEF Types
<1>2. writer' = [writer EXCEPT ![w].at = place]
  BY DEF Goes
<1>3. writer' \in [Writers -> [at : Places, read : R, event : Events \cup {NoEvent}]]
  BY <1>1, <1>2
<1>4. QED
  BY <1>1, <1>2, <1>3

LEMMA SetMoves ==
  ASSUME Types, NEW w \in Writers, NEW place \in Places, NEW read,
         NEW e \in Events \cup {NoEvent},
         writer' = [writer EXCEPT ![w] = [at |-> place, read |-> read, event |-> e]]
  PROVE  /\ \E R : writer' \in [Writers -> [at : Places, read : R, event : Events \cup {NoEvent}]]
         /\ writer'[w] = [at |-> place, read |-> read, event |-> e]
         /\ \A z \in Writers \ {w} : writer'[z] = writer[z]
<1>1. PICK R : writer \in [Writers -> [at : Places, read : R, event : Events \cup {NoEvent}]]
  BY DEF Types
<1>2. writer' \in [Writers -> [at : Places, read : R \cup {read}, event : Events \cup {NoEvent}]]
  BY <1>1
<1>3. QED
  BY <1>1, <1>2

(* What a step does to the file: nothing is lost of what is durable.       *)
Stays == lines' = lines /\ durable' \in {durable, Len(lines)}

Grows ==
  \E e \in Events : lines' = Append(lines, Record(lines, e)) /\ durable' = durable

IsCut ==
  \E kept \in durable..Len(lines) : lines' = SubSeq(lines, 1, kept) /\ durable' = kept

LEMMA FileSteps ==
  ASSUME Types, Stays \/ Grows \/ IsCut
  PROVE  /\ \E S : lines' \in Seq(S)
         /\ durable' \in 0..Len(lines') /\ durable <= durable'
         /\ \A i \in 1..durable : lines'[i] = lines[i]
<1>1. PICK S : lines \in Seq(S)
  BY DEF Types
<1>2. durable \in 0..Len(lines)
  BY DEF Types
<1>3. CASE Stays
  BY <1>1, <1>2, <1>3 DEF Stays
<1>4. CASE Grows
  <2>1. PICK e \in Events : lines' = Append(lines, Record(lines, e)) /\ durable' = durable
    BY <1>4 DEF Grows
  <2> DEFINE line == Record(lines, e)
  <2> HIDE DEF line
  <2>2. lines \in Seq(S \cup {line})
    BY <1>1
  <2>3. lines' = Append(lines, line)
    BY <2>1 DEF line
  <2>4. QED
    BY <1>2, <2>1, <2>2, <2>3
<1>5. CASE IsCut
  <2>1. PICK kept \in durable..Len(lines) : lines' = SubSeq(lines, 1, kept) /\ durable' = kept
    BY <1>5 DEF IsCut
  <2>2. kept \in Nat /\ durable \in Nat /\ durable <= kept /\ kept <= Len(lines)
    BY <1>1, <1>2, <2>1
  <2>3. lines' \in Seq(S) /\ Len(lines') = kept /\ \A i \in 1..kept : lines'[i] = lines[i]
    BY <1>1, <2>1, <2>2
  <2>4. \A i \in 1..durable : i \in 1..kept
    BY <2>2
  <2>5. \E T : lines' \in Seq(T)
    BY <2>3
  <2>6. durable' \in 0..Len(lines') /\ durable <= durable'
    BY <2>1, <2>2, <2>3
  <2>7. \A i \in 1..durable : lines'[i] = lines[i]
    BY <2>3, <2>4
  <2>8. QED
    BY <2>5, <2>6, <2>7
<1>6. QED
  BY <1>3, <1>4, <1>5

LEMMA ChainSteps ==
  ASSUME Types, Chained, Stays \/ Grows \/ IsCut
  PROVE  Chained'
<1>1. PICK S : lines \in Seq(S)
  BY DEF Types
<1>2. CASE Stays
  BY <1>2 DEF Stays, Chained, LineHolds
<1>3. CASE Grows
  <2>1. PICK e \in Events : lines' = Append(lines, Record(lines, e))
    BY <1>3 DEF Grows
  <2> DEFINE line == Record(lines, e)
  <2>2. /\ line.event # NoEvent /\ line.seq = Len(lines)
        /\ line.prev = IF Len(lines) = 0 THEN NoHash ELSE Sha256(lines[Len(lines)])
    BY <1>1, EventLogAssumption DEF Record, HashOfLast, Last
  <2> HIDE DEF line
  <2>3. /\ Len(lines') = Len(lines) + 1 /\ Len(lines) \in Nat
        /\ lines'[Len(lines) + 1] = line
        /\ \A i \in 1..Len(lines) : lines'[i] = lines[i]
    <3>1. lines' = Append(lines, line) /\ lines \in Seq(S \cup {line})
      BY <1>1, <2>1 DEF line
    <3>2. QED
      BY <3>1
  <2>4. SUFFICES ASSUME NEW i \in 1..Len(lines') PROVE LineHolds(lines', i)
    BY DEF Chained
  <2>5. CASE i = Len(lines) + 1
    <3>1. Len(lines) # 0 => lines'[i - 1] = lines[Len(lines)]
      BY <2>3, <2>5
    <3>2. QED
      BY <2>2, <2>3, <2>5, <3>1 DEF LineHolds
  <2>6. CASE i \in 1..Len(lines)
    <3>1. LineHolds(lines, i)
      BY <2>6 DEF Chained
    <3>2. lines'[i] = lines[i] /\ (i # 1 => lines'[i - 1] = lines[i - 1])
      BY <2>3, <2>6
    <3>3. QED
      BY <3>1, <3>2 DEF LineHolds
  <2>7. QED
    BY <2>3, <2>5, <2>6
<1>4. CASE IsCut
  <2>1. PICK kept \in durable..Len(lines) : lines' = SubSeq(lines, 1, kept)
    BY <1>4 DEF IsCut
  <2>2. Len(lines') = kept /\ kept <= Len(lines) /\ kept \in Nat
        /\ \A i \in 1..kept : lines'[i] = lines[i]
    BY <1>1, <2>1 DEF Types
  <2>3. SUFFICES ASSUME NEW i \in 1..kept PROVE LineHolds(lines', i)
    BY <2>2 DEF Chained
  <2>4. LineHolds(lines, i)
    BY <2>2 DEF Chained
  <2>5. lines'[i] = lines[i] /\ (i # 1 => lines'[i - 1] = lines[i - 1])
    BY <2>2
  <2>6. QED
    BY <2>4, <2>5 DEF LineHolds
<1>5. QED
  BY <1>2, <1>3, <1>4

(* Steps that tell nobody and record no head.                              *)
LEMMA QuietSteps ==
  ASSUME LogInv, Stays \/ Grows \/ IsCut, UNCHANGED <<told, head, atHead>>
  PROVE  Chained' /\ Stored' /\ Headed'
<1>1. Types /\ Chained /\ Stored /\ Headed
  BY DEF LogInv
<1>2. /\ durable \in Nat /\ durable' \in Nat /\ durable <= durable'
      /\ \A i \in 1..durable : lines'[i] = lines[i]
  <2>1. \E S : lines' \in Seq(S)
    BY <1>1, FileSteps
  <2>2. durable' \in 0..Len(lines') /\ durable \in 0..Len(lines)
    BY <1>1, FileSteps DEF Types
  <2>3. QED
    BY <1>1, <2>2, FileSteps
<1>3. Stored'
  BY <1>1, <1>2 DEF Stored
<1>4. Headed'
  BY <1>1, <1>2 DEF Headed, Sha256, NoHash
<1>5. QED
  BY <1>1, <1>3, <1>4, ChainSteps

-----------------------------------------------------------------------------
LEMMA LogInit == Init /\ OneAtATime => LogInv
<1> SUFFICES ASSUME Init, OneAtATime PROVE LogInv
  OBVIOUS
<1>1. Types
  <2>1. lines \in Seq({})
    BY DEF Init
  <2>2. writer \in [Writers -> [at : Places, read : {<<>>}, event : Events \cup {NoEvent}]]
    BY DEF Init, Idle, Places
  <2>3. durable \in 0..Len(lines) /\ faults \in 0..MaxFaults /\ shorts \in 0..MaxShort
    BY EventLogAssumption DEF Init
  <2>4. tail \in Tails
    BY DEF Init, Tails
  <2>5. QED
    BY <2>1, <2>2, <2>3, <2>4 DEF Types
<1>2. Alone /\ Knows
  BY DEF Init, Idle, Alone, Knows
<1>3. Chained /\ Stored /\ Headed
  BY DEF Init, Chained, Stored, Headed
<1>4. QED
  BY <1>1, <1>2, <1>3 DEF LogInv

LEMMA ReadLogStep ==
  ASSUME LogInv, NEW w \in Writers, NEW e \in Events, ReadLog(w, e)
  PROVE  LogInv'
<1>1. /\ OneAtATime /\ Types /\ Alone /\ Knows
      /\ \A z \in Writers : writer[z].at = "idle"
      /\ UNCHANGED <<lines, tail, durable, told, head, atHead, faults, shorts>>
  BY DEF LogInv, ReadLog, file, OneAtATime, Appending
<1>2. PICK place \in {"write", "truncate"} :
        /\ writer' = [writer EXCEPT ![w] = [at |-> place, read |-> lines, event |-> e]]
        /\ place = "write" => tail = "none"
  BY DEF ReadLog
<1>3. place \in Places
  BY DEF Places
<1>4. Stays
  BY <1>1 DEF Stays
<1>5. Types'
  BY <1>1, <1>2, <1>3, SetMoves DEF Types
<1>6. writer'[w] = [at |-> place, read |-> lines, event |-> e]
      /\ \A z \in Writers \ {w} : writer'[z].at = "idle"
  BY <1>1, <1>2, <1>3, SetMoves
<1>7. Alone' /\ Knows'
  BY <1>1, <1>2, <1>6 DEF Alone, Knows
<1>8. QED
  BY <1>1, <1>4, <1>5, <1>7, QuietSteps DEF LogInv, OneAtATime

(* The other processes are at rest while one of them steps.                *)
LEMMA Others ==
  ASSUME Alone, NEW w \in Writers, writer[w].at # "idle"
  PROVE  \A z \in Writers \ {w} : writer[z].at = "idle"
BY DEF Alone

LEMMA TruncateTailStep ==
  ASSUME LogInv, NEW w \in Writers, TruncateTail(w)
  PROVE  LogInv'
<1>1. /\ OneAtATime /\ Types /\ Alone /\ Knows
      /\ writer[w].at = "truncate" /\ Goes(w, "write") /\ writer[w].read = lines
      /\ UNCHANGED <<told, head, atHead, faults, shorts>>
  BY DEF LogInv, TruncateTail, Knows
<1>2. lines' = lines /\ tail' = "none" /\ durable' = durable
  <2>1. PICK S : lines \in Seq(S)
    BY <1>1 DEF Types
  <2>2. IsPrefix(lines, lines)
    BY <2>1 DEF IsPrefix
  <2>3. PICK cut \in {<<lines, "none">>} :
          /\ lines' = cut[1] /\ tail' = cut[2]
          /\ durable' = IF durable > Len(cut[1]) THEN Len(cut[1]) ELSE durable
    BY <1>1, <2>2 DEF TruncateTail, Cuts
  <2>4. cut[1] = lines /\ cut[2] = "none"
    OBVIOUS
  <2>5. QED
    BY <1>1, <2>1, <2>3, <2>4 DEF Types
<1>3. "write" \in Places
  BY DEF Places
<1>4. Types'
  BY <1>1, <1>2, <1>3, GoesMoves DEF Types, Tails
<1>5. Alone' /\ Knows'
  BY <1>1, <1>2, <1>3, GoesMoves, Others DEF Alone, Knows
<1>6. Stays
  BY <1>2 DEF Stays
<1>7. QED
  BY <1>1, <1>4, <1>5, <1>6, QuietSteps DEF LogInv, OneAtATime

LEMMA BeginWriteStep ==
  ASSUME LogInv, NEW w \in Writers, BeginWrite(w)
  PROVE  LogInv'
<1>1. /\ OneAtATime /\ Types /\ Alone /\ Knows
      /\ writer[w].at = "write" /\ Goes(w, "writing") /\ tail' = "torn"
      /\ UNCHANGED <<lines, durable, told, head, atHead, faults, shorts>>
  BY DEF LogInv, BeginWrite, Knows
<1>2. "writing" \in Places /\ "torn" \in Tails
  BY DEF Places, Tails
<1>3. Types'
  BY <1>1, <1>2, GoesMoves DEF Types
<1>4. Alone' /\ Knows'
  BY <1>1, <1>2, GoesMoves, Others DEF Alone, Knows
<1>5. Stays
  BY <1>1 DEF Stays
<1>6. QED
  BY <1>1, <1>3, <1>4, <1>5, QuietSteps DEF LogInv, OneAtATime

LEMMA EndWriteStep ==
  ASSUME LogInv, NEW w \in Writers, EndWrite(w)
  PROVE  LogInv'
<1>1. /\ OneAtATime /\ Types /\ Alone /\ Knows
      /\ writer[w].at = "writing" /\ Goes(w, "sync")
      /\ writer[w].read = lines /\ writer[w].event \in Events /\ tail = "torn"
      /\ UNCHANGED <<durable, told, head, atHead, faults>>
  BY DEF LogInv, EndWrite, Knows
<1>2. lines' = Append(lines, Record(lines, writer[w].event)) /\ tail' = "none" /\ shorts' = shorts
  BY <1>1, EventLogAssumption DEF EndWrite, OneAtATime, Types
<1>3. Grows
  BY <1>1, <1>2 DEF Grows
<1>4. "sync" \in Places /\ "none" \in Tails
  BY DEF Places, Tails
<1>5. Types'
  BY <1>1, <1>2, <1>3, <1>4, GoesMoves, FileSteps DEF Types
<1>6. Len(lines') > 0 /\ lines'[Len(lines')] = Record(lines, writer[w].event)
  <2> DEFINE line == Record(lines, writer[w].event)
  <2> HIDE DEF line
  <2>1. PICK S : lines \in Seq(S)
    BY <1>1 DEF Types
  <2>2. lines \in Seq(S \cup {line}) /\ lines' = Append(lines, line)
    BY <1>2, <2>1 DEF line
  <2>3. QED
    BY <2>2 DEF line
<1>7. Alone' /\ Knows'
  <2>1. /\ writer'[w].at = "sync" /\ writer'[w].read = lines
        /\ writer'[w].event = writer[w].event
        /\ \A z \in Writers \ {w} : writer'[z].at = "idle"
    BY <1>1, <1>4, GoesMoves, Others
  <2>2. QED
    BY <1>1, <1>6, <2>1 DEF Alone, Knows
<1>8. QED
  BY <1>1, <1>3, <1>5, <1>7, QuietSteps DEF LogInv, OneAtATime

LEMMA FsyncStep ==
  ASSUME LogInv, NEW w \in Writers, Fsync(w)
  PROVE  LogInv'
<1>1. /\ OneAtATime /\ Types /\ Alone /\ Knows
      /\ writer[w].at = "sync" /\ Goes(w, "return") /\ durable' = Len(lines)
      /\ UNCHANGED <<lines, tail, told, head, atHead, faults, shorts>>
  BY DEF LogInv, Fsync
<1>2. Stays
  BY <1>1 DEF Stays
<1>3. "return" \in Places
  BY DEF Places
<1>4. Types'
  BY <1>1, <1>2, <1>3, GoesMoves, FileSteps DEF Types
<1>5. Alone' /\ Knows'
  BY <1>1, <1>3, GoesMoves, Others DEF Alone, Knows, Record
<1>6. QED
  BY <1>1, <1>2, <1>4, <1>5, QuietSteps DEF LogInv, OneAtATime

(* A process that is done, or killed, is at rest.                          *)
LEMMA RestMoves ==
  ASSUME Types, NEW w \in Writers, writer' = [writer EXCEPT ![w] = Idle]
  PROVE  /\ \E R : writer' \in [Writers -> [at : Places, read : R, event : Events \cup {NoEvent}]]
         /\ writer'[w].at = "idle"
         /\ \A z \in Writers \ {w} : writer'[z] = writer[z]
<1>1. "idle" \in Places
  BY DEF Places
<1>2. writer' = [writer EXCEPT ![w] = [at |-> "idle", read |-> <<>>, event |-> NoEvent]]
  BY DEF Idle
<1>3. NoEvent \in Events \cup {NoEvent}
  OBVIOUS
<1>4. /\ \E R : writer' \in [Writers -> [at : Places, read : R, event : Events \cup {NoEvent}]]
      /\ writer'[w] = [at |-> "idle", read |-> <<>>, event |-> NoEvent]
      /\ \A z \in Writers \ {w} : writer'[z] = writer[z]
  BY <1>1, <1>2, <1>3, SetMoves, Zenon
<1>5. QED
  BY <1>4

LEMMA RestKnows ==
  ASSUME Types, Alone, Knows, NEW w \in Writers, writer[w].at # "idle",
         writer' = [writer EXCEPT ![w] = Idle]
  PROVE  Alone' /\ Knows'
<1>1. \A z \in Writers : writer'[z].at = "idle"
  BY RestMoves, Others
<1>2. QED
  BY <1>1 DEF Alone, Knows

LEMMA ReturnStep ==
  ASSUME LogInv, NEW w \in Writers, Return(w)
  PROVE  LogInv'
<1>1. /\ OneAtATime /\ Types /\ Alone /\ Knows /\ Stored /\ Chained /\ Headed
      /\ writer[w].at = "return" /\ writer' = [writer EXCEPT ![w] = Idle]
      /\ told' = told \cup {Record(writer[w].read, writer[w].event)}
      /\ UNCHANGED <<lines, tail, durable, head, atHead, faults, shorts>>
  BY DEF LogInv, Return, file
<1>2. /\ Len(lines) > 0 /\ durable = Len(lines)
      /\ lines[Len(lines)] = Record(writer[w].read, writer[w].event)
  BY <1>1 DEF Knows
<1>3. Types'
  BY <1>1, RestMoves DEF Types
<1>4. Stored'
  BY <1>1, <1>2 DEF Stored, Types
<1>5. Chained' /\ Headed'
  BY <1>1 DEF Chained, LineHolds, Headed
<1>6. Alone' /\ Knows'
  BY <1>1, RestKnows
<1>7. QED
  BY <1>1, <1>3, <1>4, <1>5, <1>6 DEF LogInv, OneAtATime

LEMMA KillStep ==
  ASSUME LogInv, NEW w \in Writers, Kill(w)
  PROVE  LogInv'
<1>1. /\ OneAtATime /\ Types /\ Alone /\ Knows
      /\ writer[w].at # "idle" /\ writer' = [writer EXCEPT ![w] = Idle]
      /\ faults' = faults + 1 /\ faults < MaxFaults
      /\ UNCHANGED <<lines, tail, durable, told, head, atHead, shorts>>
  BY DEF LogInv, Kill, file
<1>2. Types'
  <2>1. \E R : writer' \in [Writers -> [at : Places, read : R, event : Events \cup {NoEvent}]]
    BY <1>1, RestMoves
  <2>2. faults' \in 0..MaxFaults
    BY <1>1, EventLogAssumption DEF Types
  <2>3. QED
    BY <1>1, <2>1, <2>2 DEF Types
<1>3. Stays
  BY <1>1 DEF Stays
<1>4. Alone' /\ Knows'
  BY <1>1, RestKnows
<1>5. QED
  BY <1>1, <1>2, <1>3, <1>4, QuietSteps DEF LogInv, OneAtATime

LEMMA LosePowerStep ==
  ASSUME LogInv, LosePower
  PROVE  LogInv'
<1>1. /\ OneAtATime /\ Types
      /\ writer' = [w \in Writers |-> Idle]
      /\ faults' = faults + 1 /\ faults < MaxFaults
      /\ UNCHANGED <<told, head, atHead, shorts>>
  BY DEF LogInv, LosePower
<1>2. IsCut /\ tail' \in {"none", "torn"}
  BY DEF LosePower, IsCut
<1>3. Types'
  <2>1. writer' \in [Writers -> [at : Places, read : {<<>>}, event : Events \cup {NoEvent}]]
    BY <1>1 DEF Idle, Places
  <2>2. faults' \in 0..MaxFaults /\ shorts' \in 0..MaxShort
    BY <1>1, EventLogAssumption DEF Types
  <2>3. (\E S : lines' \in Seq(S)) /\ durable' \in 0..Len(lines')
    BY <1>1, <1>2, FileSteps
  <2>4. tail' \in Tails
    BY <1>2 DEF Tails
  <2>5. QED
    BY <2>1, <2>2, <2>3, <2>4 DEF Types
<1>4. Alone' /\ Knows'
  BY <1>1 DEF Alone, Knows, Idle
<1>5. QED
  BY <1>1, <1>2, <1>3, <1>4, QuietSteps DEF LogInv, OneAtATime

LEMMA RecordHeadStep ==
  ASSUME LogInv, RecordHead
  PROVE  LogInv'
<1>1. /\ OneAtATime /\ Types /\ Alone /\ Knows /\ Stored /\ Chained
      /\ lines # <<>> /\ durable = Len(lines)
      /\ head' = HeadHash(lines) /\ atHead' = lines
      /\ UNCHANGED <<lines, tail, durable, writer, told, faults, shorts>>
  BY DEF LogInv, RecordHead, file
<1>2. Len(lines) \in 1..durable
  BY <1>1 DEF Types
<1>3. Headed'
  BY <1>1, <1>2 DEF Headed, HeadHash, HashOfLast, Last
<1>4. QED
  BY <1>1, <1>3 DEF LogInv, OneAtATime, Types, Alone, Knows, Stored, Chained, LineHolds

LEMMA LogStep == LogInv /\ [Next]_vars => LogInv'
<1> SUFFICES ASSUME LogInv, [Next]_vars PROVE LogInv'
  OBVIOUS
<1>1. CASE UNCHANGED vars
  BY <1>1 DEF vars, file, LogInv, OneAtATime, Types, Alone, Knows, Stored, Chained, LineHolds, Headed
<1>2. QED
  BY <1>1, ReadLogStep, TruncateTailStep, BeginWriteStep, EndWriteStep, FsyncStep, ReturnStep,
     KillStep, LosePowerStep, RecordHeadStep
  DEF Next

-----------------------------------------------------------------------------
LEMMA HowTheFileMoves ==
  ASSUME LogInv, [Next]_vars
  PROVE  \/ UNCHANGED told /\ (Stays \/ Grows \/ IsCut)
         \/ \E w \in Writers : Return(w)
         \/ UNCHANGED vars
<1>1. Types /\ Knows
  BY DEF LogInv
<1>2. ASSUME NEW w \in Writers, EndWrite(w)
      PROVE  UNCHANGED told /\ Grows
  <2>1. writer[w].read = lines /\ writer[w].event \in Events /\ tail = "torn" /\ MaxShort = 0
    BY <1>1, <1>2 DEF EndWrite, Knows, LogInv, OneAtATime
  <2>2. lines' = Append(lines, Record(lines, writer[w].event))
    BY <1>1, <1>2, <2>1 DEF EndWrite, Types
  <2>3. QED
    BY <1>2, <2>1, <2>2 DEF EndWrite, Grows
<1>3. ASSUME NEW w \in Writers, TruncateTail(w)
      PROVE  UNCHANGED told /\ Stays
  <2>1. writer[w].read = lines
    BY <1>1, <1>3 DEF TruncateTail, Knows
  <2>2. PICK cut \in Cuts(lines) :
          lines' = cut[1] /\ durable' = IF durable > Len(cut[1]) THEN Len(cut[1]) ELSE durable
    BY <1>3, <2>1 DEF TruncateTail
  <2>3. IsPrefix(lines, lines)
    BY <1>1 DEF IsPrefix, Types
  <2>4. cut = <<lines, "none">>
    BY <2>2, <2>3 DEF Cuts
  <2>5. QED
    BY <1>3, <2>2, <2>4 DEF TruncateTail, Stays
<1>4. ASSUME NEW w \in Writers, NEW e \in Events, ReadLog(w, e) PROVE UNCHANGED told /\ Stays
  BY <1>4 DEF ReadLog, Stays, file
<1>5. ASSUME NEW w \in Writers, BeginWrite(w) \/ Fsync(w) \/ Kill(w)
      PROVE  UNCHANGED told /\ Stays
  BY <1>5 DEF BeginWrite, Fsync, Kill, Stays, file
<1>6. LosePower => UNCHANGED told /\ IsCut
  BY DEF LosePower, IsCut
<1>7. RecordHead => UNCHANGED told /\ Stays
  BY DEF RecordHead, Stays, file
<1>8. QED
  BY <1>2, <1>3, <1>4, <1>5, <1>6, <1>7 DEF Next

(* Every step is one of DurableLog's, or one its callers do not see.       *)
LEMMA Mapped ==
  ASSUME LogInv, [Next]_vars
  PROVE  [Promise!Next]_<<SubSeq(lines, 1, durable), told>>
<1> DEFINE stored == SubSeq(lines, 1, durable)
<1>1. LogInv' /\ Types /\ Knows
  BY LogStep DEF LogInv
<1>2. CASE \E w \in Writers : Return(w)
  <2>1. PICK w \in Writers : Return(w)
    BY <1>2
  <2>2. /\ writer[w].at = "return" /\ UNCHANGED <<lines, durable>>
        /\ told' = told \cup {Record(writer[w].read, writer[w].event)}
    BY <2>1 DEF Return, file
  <2>3. /\ Len(lines) > 0 /\ durable = Len(lines)
        /\ lines[Len(lines)] = Record(writer[w].read, writer[w].event)
    BY <1>1, <2>2 DEF Knows
  <2>4. told' \subseteq ToSet(stored)
    <3>1. SUFFICES ASSUME NEW l \in told' PROVE l \in ToSet(stored)
      OBVIOUS
    <3>2. PICK i \in 1..durable' : lines'[i] = l
      BY <1>1, <3>1 DEF LogInv, Stored
    <3>3. PICK S : lines \in Seq(S)
      BY <1>1 DEF Types
    <3>4. i \in 1..durable /\ lines[i] = l /\ durable \in 0..Len(lines)
      BY <1>1, <2>2, <3>2 DEF Types
    <3>5. QED
      BY <3>3, <3>4, InCut
  <2>5. stored' = stored
    BY <2>2
  <2>6. CASE told' = told
    BY <2>5, <2>6
  <2>7. CASE told' # told
    <3>1. told \subseteq told'
      BY <2>2
    <3>2. Promise!Tell
      BY <2>4, <2>5, <2>7, <3>1 DEF Promise!Tell, Promise!ToSet, ToSet
    <3>3. QED
      BY <3>2 DEF Promise!Next
  <2>8. QED
    BY <2>6, <2>7
<1>3. CASE UNCHANGED told /\ (Stays \/ Grows \/ IsCut)
  <2>1. PICK S : lines \in Seq(S)
    BY <1>1 DEF Types
  <2>2. PICK R : lines' \in Seq(R)
    BY <1>1, <1>3, FileSteps
  <2>3. /\ durable \in 0..Len(lines) /\ durable' \in durable..Len(lines')
        /\ \A i \in 1..durable : lines'[i] = lines[i]
    <3>1. durable \in 0..Len(lines) /\ durable' \in 0..Len(lines') /\ durable <= durable'
      BY <1>1, <1>3, FileSteps DEF Types
    <3>2. QED
      BY <1>1, <1>3, <3>1, FileSteps
  <2>4. IsPrefix(stored, stored')
    BY <2>1, <2>2, <2>3, CutsNest
  <2>5. CASE stored' = stored
    BY <1>3, <2>5
  <2>6. CASE stored' # stored
    <3>1. Promise!Store
      BY <1>3, <2>4, <2>6 DEF Promise!Store, Promise!IsPrefix, IsPrefix
    <3>2. QED
      BY <3>1 DEF Promise!Next
  <2>7. QED
    BY <2>5, <2>6
<1>4. CASE UNCHANGED vars
  BY <1>4 DEF vars, file
<1>5. QED
  BY <1>2, <1>3, <1>4, HowTheFileMoves

(* The file implements the log its callers rely on (events.js appendEvent: *)
(* what an append returned for is never lost, whatever is killed and       *)
(* however often power is).                                                *)
THEOREM FileIsDurableLog == Spec /\ OneAtATime => KeepsItsPromise
<1>1. Init /\ OneAtATime => Promise!Init
  <2> SUFFICES ASSUME Init PROVE Promise!Init
    OBVIOUS
  <2>1. SubSeq(lines, 1, durable) = <<>>
    BY DEF Init
  <2>2. QED
    BY <2>1 DEF Init, Promise!Init
<1>2. LogInv /\ [Next]_vars => [Promise!Next]_<<SubSeq(lines, 1, durable), told>>
  BY Mapped
<1>3. QED
  BY <1>1, <1>2, LogInit, LogStep, PTL DEF Spec, KeepsItsPromise, Promise!Spec

(* Whatever cuts an append short, the log that is left verifies (events.js *)
(* verifyChain).                                                           *)
THEOREM ChainAlwaysVerifies == Spec /\ OneAtATime => []ChainVerifies
<1>1. LogInv => ChainVerifies
  BY DEF LogInv, Chained, ChainVerifies, VerifyChain
<1>2. QED
  BY <1>1, LogInit, LogStep, PTL DEF Spec

(* Status finds the recorded head and counts the events after it           *)
(* (status.js run).                                                        *)
THEOREM StatusFindsItsHead == Spec /\ OneAtATime => []StatusAfterMerge
<1>1. ASSUME LogInv, head # NoHash
      PROVE  Status(lines, head) = [code |-> 0, uncommitted |-> Len(lines) - Len(atHead)]
  <2> DEFINE n == Len(atHead)
  <2>1. /\ n \in 1..Len(lines) /\ n \in DOMAIN lines /\ head = Sha256(lines[n])
        /\ DOMAIN lines = 1..Len(lines)
    BY <1>1 DEF LogInv, Types, Headed
  <2>2. \A i \in DOMAIN lines : lines[i].seq = i - 1
    BY <1>1, <2>1 DEF LogInv, Chained, LineHolds
  <2>3. \A i \in DOMAIN lines : Sha256(lines[i]) = head => i = n
    <3>1. SUFFICES ASSUME NEW i \in DOMAIN lines, Sha256(lines[i]) = head PROVE i = n
      OBVIOUS
    <3>2. lines[i] = lines[n]
      BY <2>1, <3>1 DEF Sha256
    <3>3. i - 1 = n - 1
      BY <2>1, <2>2, <3>2
    <3>4. QED
      BY <2>1, <3>3
  <2>4. LineIndexForHash(lines, head) = n
    <3> DEFINE found == {i \in DOMAIN lines : Sha256(lines[i]) = head}
    <3>1. found = {n}
      BY <2>1, <2>3
    <3>2. n <= n
      BY <2>1
    <3>3. (CHOOSE i \in found : \A j \in found : i <= j) = n
      BY <3>1, <3>2
    <3>4. QED
      BY <3>3 DEF LineIndexForHash
  <2>5. VerifyChain(lines).ok
    BY <1>1 DEF LogInv, Chained, VerifyChain
  <2>6. VerifyAgainstHead(lines, head)
    BY <2>1 DEF VerifyAgainstHead
  <2>7. QED
    BY <1>1, <2>4, <2>5, <2>6 DEF Status
<1>2. LogInv => StatusAfterMerge
  BY <1>1 DEF StatusAfterMerge
<1>3. QED
  BY <1>2, LogInit, LogStep, PTL DEF Spec

(* Types hold, and the file is never shorter than what is durable          *)
(* (events.js appendEvent, truncateSync).                                  *)
THEOREM LogTyped == Spec /\ OneAtATime => []TypeOK
<1>1. ASSUME LogInv PROVE TypeOK
  <2>1. \A w \in Writers : writer[w].at \in Places /\ writer[w].event \in Events \cup {NoEvent}
    BY <1>1 DEF LogInv, Types
  <2>2. QED
    BY <1>1, <2>1 DEF LogInv, Types, TypeOK
<1>2. QED
  BY <1>1, LogInit, LogStep, PTL DEF Spec
-----------------------------------------------------------------------------
(* What tampering shows: every line is a record, and the recorded head was *)
(* taken over a log that held together.                                    *)

Recorded == \A i \in 1..Len(lines) : \E s, h : lines[i] = [event |-> lines[i].event, seq |-> s, prev |-> h]

HeadLog ==
  head # NoHash =>
    /\ \E S : atHead \in Seq(S)
    /\ Len(atHead) > 0 /\ head = Sha256(atHead[Len(atHead)])
    /\ \A i \in 1..Len(atHead) : LineHolds(atHead, i)

LEMMA RecordedSteps ==
  ASSUME Types, Recorded, Stays \/ Grows \/ IsCut
  PROVE  Recorded'
<1>1. PICK S : lines \in Seq(S)
  BY DEF Types
<1>2. CASE Stays
  BY <1>2 DEF Stays, Recorded
<1>3. CASE Grows
  <2>1. PICK e \in Events : lines' = Append(lines, Record(lines, e))
    BY <1>3 DEF Grows
  <2> DEFINE line == Record(lines, e)
  <2>2. \E s, h : line = [event |-> line.event, seq |-> s, prev |-> h]
    BY DEF Record
  <2> HIDE DEF line
  <2>3. /\ Len(lines') = Len(lines) + 1 /\ Len(lines) \in Nat
        /\ lines'[Len(lines) + 1] = line
        /\ \A i \in 1..Len(lines) : lines'[i] = lines[i]
    <3>1. lines' = Append(lines, line) /\ lines \in Seq(S \cup {line})
      BY <1>1, <2>1 DEF line
    <3>2. QED
      BY <3>1
  <2>4. ASSUME NEW i \in 1..Len(lines')
        PROVE  \E s, h : lines'[i] = [event |-> lines'[i].event, seq |-> s, prev |-> h]
    <3>1. i = Len(lines) + 1 \/ i \in 1..Len(lines)
      BY <2>3
    <3>2. CASE i = Len(lines) + 1
      BY <2>2, <2>3, <3>2
    <3>3. CASE i \in 1..Len(lines)
      BY <2>3, <3>3 DEF Recorded
    <3>4. QED
      BY <3>1, <3>2, <3>3
  <2>5. QED
    BY <2>4 DEF Recorded
<1>4. CASE IsCut
  <2>1. PICK kept \in durable..Len(lines) : lines' = SubSeq(lines, 1, kept)
    BY <1>4 DEF IsCut
  <2>2. Len(lines') = kept /\ kept <= Len(lines) /\ kept \in Nat
        /\ \A i \in 1..kept : i \in 1..Len(lines) /\ lines'[i] = lines[i]
    BY <1>1, <2>1 DEF Types
  <2>3. QED
    BY <2>2 DEF Recorded
<1>5. QED
  BY <1>2, <1>3, <1>4

TamperInv == Recorded /\ HeadLog

LEMMA TamperInit == Init => TamperInv
BY DEF Init, TamperInv, Recorded, HeadLog

LEMMA TamperStep == LogInv /\ TamperInv /\ [Next]_vars => TamperInv'
<1> SUFFICES ASSUME LogInv, TamperInv, [Next]_vars PROVE TamperInv'
  OBVIOUS
<1>1. Types /\ Chained
  BY DEF LogInv
<1>2. UNCHANGED lines \/ Stays \/ Grows \/ IsCut
  BY HowTheFileMoves DEF Return, vars, file
<1>3. Recorded'
  BY <1>1, <1>2, RecordedSteps DEF TamperInv, Recorded
<1>4. HeadLog'
  <2>1. CASE RecordHead
    <3>1. PICK S : lines \in Seq(S)
      BY <1>1 DEF Types
    <3>2. /\ atHead' = lines /\ lines # <<>> /\ head' = HashOfLast(lines)
      BY <2>1 DEF RecordHead, HeadHash
    <3>3. Len(lines) > 0 /\ head' = Sha256(lines[Len(lines)])
      BY <3>1, <3>2 DEF HashOfLast, Last
    <3>4. QED
      BY <1>1, <3>1, <3>2, <3>3 DEF HeadLog, Chained
  <2>2. CASE UNCHANGED <<head, atHead>>
    BY <2>2 DEF TamperInv, HeadLog
  <2>3. QED
    BY <2>1, <2>2 DEF Next, ReadLog, TruncateTail, BeginWrite, EndWrite, Fsync, Return, Kill,
                      LosePower, vars
<1>5. QED
  BY <1>3, <1>4 DEF TamperInv

-----------------------------------------------------------------------------
(* A set of positions has a largest and a smallest.                        *)
LEMMA Largest ==
  ASSUME NEW n \in Nat, NEW S \in SUBSET (1..n), S # {}
  PROVE  \E k \in S : \A j \in S : j <= k
<1> DEFINE T == {m \in 0..n : n - m \in S}
<1> DEFINE R == OpToRel(<, Nat)
<1>1. T \subseteq Nat
  OBVIOUS
<1>2. \A j \in S : n - j \in T
  <2> TAKE j \in S
  <2>1. j \in 1..n /\ n - j \in 0..n /\ n - (n - j) = j
    OBVIOUS
  <2>2. QED
    BY <2>1
<1>3. T # {}
  BY <1>2
<1>4. \A x, y \in Nat : <<y, x>> \in R <=> y < x
  BY DEF OpToRel
<1>5. IsWellFoundedOn(R, Nat)
  BY NatLessThanWellFounded
<1> HIDE DEF T, R
<1>6. PICK x \in T : \A y \in T : ~(<<y, x>> \in R)
  BY <1>1, <1>3, <1>5, WFMin, Zenon
<1>7. x \in Nat /\ x <= n /\ n - x \in S
  BY <1>1 DEF T
<1>8. \A j \in S : j <= n - x
  <2> TAKE j \in S
  <2>1. n - j \in T /\ n - j \in Nat /\ j \in Nat
    BY <1>1, <1>2
  <2>2. ~(n - j < x)
    BY <1>4, <1>6, <1>7, <2>1
  <2>3. QED
    BY <1>7, <2>1, <2>2
<1>9. QED
  BY <1>7, <1>8

LEMMA Smallest ==
  ASSUME NEW T \in SUBSET Nat, T # {}
  PROVE  \E x \in T : \A y \in T : ~(y < x)
<1> DEFINE R == OpToRel(<, Nat)
<1>1. \A x, y \in Nat : <<y, x>> \in R <=> y < x
  BY DEF OpToRel
<1>2. IsWellFoundedOn(R, Nat)
  BY NatLessThanWellFounded
<1> HIDE DEF R
<1>3. PICK x \in T : \A y \in T : ~(<<y, x>> \in R)
  BY <1>2, WFMin, Zenon
<1>4. \A y \in T : ~(y < x)
  BY <1>1, <1>3
<1>5. QED
  BY <1>4

(* Two logs that hold together and share a line are the same up to it.     *)
LEMMA ChainsMeet ==
  ASSUME NEW S, NEW s \in Seq(S), NEW T, NEW t \in Seq(T), NEW n \in 1..Len(s), n <= Len(t),
         \A i \in 1..n : LineHolds(s, i) /\ LineHolds(t, i), s[n] = t[n]
  PROVE  \A i \in 1..n : s[i] = t[i]
<1> DEFINE D == {i \in 1..n : s[i] # t[i]}
<1>1. n \in Nat /\ D \in SUBSET (1..n)
  OBVIOUS
<1> SUFFICES ASSUME D # {} PROVE FALSE
  OBVIOUS
<1>2. PICK k \in D : \A j \in D : j <= k
  BY <1>1, Largest
<1>3. k \in 1..n /\ k # n /\ s[k] # t[k]
  OBVIOUS
<1>4. PICK m : m = k + 1
  OBVIOUS
<1>5. m \in 1..n /\ m # 1 /\ m - 1 = k /\ ~(m <= k)
  BY <1>1, <1>3, <1>4
<1>6. s[m] = t[m]
  BY <1>2, <1>5
<1>7. s[m].prev = Sha256(s[k]) /\ t[m].prev = Sha256(t[k])
  BY <1>5 DEF LineHolds
<1>8. s[k] = t[k]
  BY <1>6, <1>7 DEF Sha256
<1>9. QED
  BY <1>3, <1>8

LEMMA Vouched ==
  ASSUME HeadLog, head # NoHash, NEW S, NEW ls \in Seq(S), Status(ls, head).code = 0
  PROVE  IsPrefix(atHead, ls)
<1>1. PICK n, s : n = Len(atHead) /\ s = atHead
  OBVIOUS
<1>2. PICK T : s \in Seq(T)
  BY <1>1 DEF HeadLog
<1>3. /\ n \in Nat /\ n = Len(s) /\ n > 0 /\ head = Sha256(s[n])
      /\ \A i \in 1..n : LineHolds(s, i)
  BY <1>1, <1>2 DEF HeadLog
<1>4. VerifyChain(ls).ok /\ VerifyAgainstHead(ls, head)
  BY DEF Status
<1>5. \A i \in 1..Len(ls) : LineHolds(ls, i)
  BY <1>4 DEF VerifyChain
<1>6. ls # <<>>
  BY <1>4 DEF VerifyAgainstHead
<1>7. PICK m \in 1..Len(ls) : Sha256(ls[m]) = head
  BY <1>4, <1>6 DEF VerifyAgainstHead
<1>8. ls[m] = s[n]
  BY <1>3, <1>7 DEF Sha256
<1>9. m = n
  <2>1. ls[m].seq = m - 1 /\ s[n].seq = n - 1
    BY <1>3, <1>5, <1>7 DEF LineHolds
  <2>2. QED
    BY <1>3, <1>8, <2>1
<1>10. n <= Len(ls) /\ n \in 1..Len(s)
  BY <1>3, <1>9
<1>11. \A i \in 1..n : LineHolds(s, i) /\ LineHolds(ls, i)
  BY <1>3, <1>5, <1>10
<1>12. \A i \in 1..n : s[i] = ls[i]
  BY <1>2, <1>8, <1>9, <1>10, <1>11, ChainsMeet
<1>13. n \in 0..Len(s) /\ n \in n..Len(ls) /\ \A i \in 1..n : ls[i] = s[i]
  BY <1>3, <1>10, <1>12
<1>14. IsPrefix(SubSeq(s, 1, n), SubSeq(ls, 1, n))
  BY <1>2, <1>13, CutsNest
<1>15. SubSeq(s, 1, n) = s
  BY <1>2, <1>3
<1>16. Len(s) <= Len(ls) /\ SubSeq(s, 1, Len(s)) = SubSeq(ls, 1, Len(s))
  <2>1. PICK u : u = SubSeq(ls, 1, n)
    OBVIOUS
  <2>2. u = [i \in 1..n |-> ls[i]]
    BY <1>3, <1>10, <2>1
  <2>3. s = [i \in 1..n |-> s[i]]
    BY <1>2, <1>3
  <2>4. u = s
    BY <1>12, <2>2, <2>3
  <2>5. QED
    BY <1>3, <1>10, <1>15, <2>1, <2>4
<1>17. QED
  BY <1>1, <1>16 DEF IsPrefix
-----------------------------------------------------------------------------
(* The log of a list of events written from the start is a log.            *)
Writes(g, es, n) ==
  g = [k \in 0..n |-> IF k = 0 THEN <<>> ELSE Append(g[k - 1], Record(g[k - 1], es[k]))]

LEMMA Writable ==
  ASSUME NEW es, NEW n \in Nat
  PROVE  \E g : Writes(g, es, n)
<1> DEFINE B == {k \in Nat : ~ \E g : Writes(g, es, k)}
<1> SUFFICES ASSUME B # {} PROVE FALSE
  OBVIOUS
<1>1. PICK m \in B : \A y \in B : ~(y < m)
  <2>1. B \in SUBSET Nat
    OBVIOUS
  <2> HIDE DEF B
  <2>2. QED
    BY <2>1, Smallest
<1>2. m \in Nat /\ ~ \E g : Writes(g, es, m)
  OBVIOUS
<1>3. CASE m = 0
  <2>1. PICK g : g = [k \in 0..0 |-> <<>>]
    OBVIOUS
  <2>2. Writes(g, es, 0)
    BY <2>1 DEF Writes
  <2>3. QED
    BY <1>2, <1>3, <2>2
<1>4. CASE m # 0
  <2>1. PICK p : p = m - 1
    OBVIOUS
  <2>2. p \in Nat /\ p < m /\ m = p + 1
    BY <1>2, <1>4, <2>1
  <2>3. PICK g : Writes(g, es, p)
    BY <1>1, <2>2
  <2>4. PICK h : h = [k \in 0..m |-> IF k = m THEN Append(g[p], Record(g[p], es[m])) ELSE g[k]]
    OBVIOUS
  <2>5. ASSUME NEW k \in 0..m
        PROVE  h[k] = IF k = 0 THEN <<>> ELSE Append(h[k - 1], Record(h[k - 1], es[k]))
    <3>1. CASE k = m
      <4>1. p \in 0..m /\ p # m /\ k # 0 /\ k - 1 = p
        BY <1>2, <2>2, <3>1
      <4>2. h[p] = g[p] /\ h[k] = Append(g[p], Record(g[p], es[m]))
        BY <2>4, <3>1, <4>1
      <4>3. QED
        BY <3>1, <4>1, <4>2
    <3>2. CASE k # m /\ k # 0
      <4>1. k \in 0..p /\ k - 1 \in 0..m /\ k - 1 # m
        BY <1>2, <2>2, <3>2
      <4>2. h[k] = g[k] /\ h[k - 1] = g[k - 1]
        BY <2>4, <3>2, <4>1
      <4>3. g[k] = Append(g[k - 1], Record(g[k - 1], es[k]))
        BY <2>3, <3>2, <4>1 DEF Writes
      <4>4. QED
        BY <3>2, <4>2, <4>3
    <3>3. CASE k # m /\ k = 0
      <4>1. 0 \in 0..p
        BY <2>2
      <4>2. h[k] = g[0] /\ g[0] = <<>>
        BY <2>3, <2>4, <3>3, <4>1 DEF Writes
      <4>3. QED
        BY <3>3, <4>2
    <3>4. QED
      BY <3>1, <3>2, <3>3
  <2>6. h = [k \in 0..m |-> h[k]]
    BY <2>4
  <2>7. Writes(h, es, m)
    BY <2>5, <2>6 DEF Writes
  <2>8. QED
    BY <1>2, <2>7
<1>5. QED
  BY <1>3, <1>4

LEMMA WrittenIsSeq ==
  ASSUME NEW es, NEW n \in Nat, NEW g, Writes(g, es, n), NEW j \in 0..n
  PROVE  \E S : g[j] \in Seq(S)
<1> DEFINE B == {k \in 0..n : ~ \E S : g[k] \in Seq(S)}
<1> SUFFICES ASSUME B # {} PROVE FALSE
  OBVIOUS
<1>1. PICK m \in B : \A y \in B : ~(y < m)
  <2>1. B \in SUBSET Nat
    OBVIOUS
  <2> HIDE DEF B
  <2>2. QED
    BY <2>1, Smallest
<1>2. m \in 0..n /\ ~ \E S : g[m] \in Seq(S)
  OBVIOUS
<1>3. CASE m = 0
  <2>1. g[0] = <<>>
    BY <1>2, <1>3 DEF Writes
  <2>2. <<>> \in Seq({})
    OBVIOUS
  <2>3. QED
    BY <1>2, <1>3, <2>1, <2>2
<1>4. CASE m # 0
  <2>1. m - 1 \in 0..n /\ m - 1 < m
    BY <1>2, <1>4
  <2>2. PICK p, l : p = g[m - 1] /\ l = Record(g[m - 1], es[m])
    OBVIOUS
  <2>3. PICK S : p \in Seq(S)
    BY <1>1, <2>1, <2>2
  <2>4. g[m] = Append(p, l)
    BY <1>2, <1>4, <2>2 DEF Writes
  <2>5. p \in Seq(S \cup {l})
    BY <2>3
  <2>6. g[m] \in Seq(S \cup {l})
    BY <2>4, <2>5
  <2>7. QED
    BY <1>2, <2>6
<1>5. QED
  BY <1>3, <1>4

LEMMA RewrittenIsSeq ==
  ASSUME NEW es, Len(es) \in Nat
  PROVE  \E S : Rewritten(es) \in Seq(S)
<1> DEFINE upTo == CHOOSE g : Writes(g, es, Len(es))
<1>1. Rewritten(es) = upTo[Len(es)]
  BY DEF Rewritten, Writes
<1>2. Writes(upTo, es, Len(es))
  BY Writable
<1>3. PICK n, g : n = Len(es) /\ g = upTo
  OBVIOUS
<1> HIDE DEF upTo
<1>4. n \in Nat /\ n \in 0..n /\ Writes(g, es, n) /\ Rewritten(es) = g[n]
  BY <1>1, <1>2, <1>3
<1>5. \E S : g[n] \in Seq(S)
  BY <1>4, WrittenIsSeq
<1>6. QED
  BY <1>4, <1>5

LEMMA ForgeriesAreSeqs ==
  ASSUME Types, NEW ls \in Forgeries
  PROVE  \E S : ls \in Seq(S)
<1>1. PICK S : lines \in Seq(S)
  BY DEF Types
<1>2. CASE \E i \in DOMAIN lines, l \in SomeLines : ls = [lines EXCEPT ![i] = l]
  <2>1. PICK i \in DOMAIN lines, l \in SomeLines : ls = [lines EXCEPT ![i] = l]
    BY <1>2
  <2>2. lines \in Seq(S \cup {l})
    BY <1>1
  <2>3. ls \in Seq(S \cup {l})
    BY <2>1, <2>2
  <2>4. QED
    BY <2>3
<1>3. CASE \E i \in DOMAIN lines : ls = RemoveAt(lines, i)
  <2>1. PICK i \in 1..Len(lines) : ls = RemoveAt(lines, i)
    BY <1>1, <1>3
  <2>2. /\ SubSeq(lines, 1, i - 1) \in Seq(S)
        /\ SubSeq(lines, i + 1, Len(lines)) \in Seq(S)
    BY <1>1
  <2>3. SubSeq(lines, 1, i - 1) \o SubSeq(lines, i + 1, Len(lines)) \in Seq(S)
    BY <2>2
  <2>4. QED
    BY <2>1, <2>3 DEF RemoveAt
<1>4. CASE \E i \in 1..(Len(lines) + 1), l \in SomeLines : ls = InsertAt(lines, i, l)
  <2>1. PICK i \in 1..(Len(lines) + 1), l \in SomeLines : ls = InsertAt(lines, i, l)
    BY <1>4
  <2>2. PICK R : R = S \cup {l}
    OBVIOUS
  <2>3. lines \in Seq(R) /\ <<l>> \in Seq(R)
    BY <1>1, <2>2
  <2>4. SubSeq(lines, 1, i - 1) \in Seq(R) /\ SubSeq(lines, i, Len(lines)) \in Seq(R)
    BY <2>3
  <2>5. SubSeq(lines, 1, i - 1) \o <<l>> \in Seq(R)
    BY <2>3, <2>4
  <2>6. QED
    BY <2>1, <2>4, <2>5 DEF InsertAt
<1>5. CASE \E es \in SeqOf(Events, MaxLines) : ls = Rewritten(es)
  <2>1. PICK es \in SeqOf(Events, MaxLines) : ls = Rewritten(es)
    BY <1>5
  <2>2. PICK m \in 0..MaxLines : es \in [1..m -> Events]
    BY <2>1 DEF SeqOf
  <2>3. Len(es) \in Nat
    BY <2>2, EventLogAssumption
  <2>4. QED
    BY <2>1, <2>3, RewrittenIsSeq
<1>6. QED
  BY <1>2, <1>3, <1>4, <1>5 DEF Forgeries

LEMMA Blamed ==
  ASSUME LogInv, Recorded, NEW i \in 1..(Len(lines) - 1), NEW e \in Events \ {lines[i].event}
  PROVE  VerifyChain([lines EXCEPT ![i].event = e]) = [ok |-> FALSE, line |-> i]
<1>1. PICK S : lines \in Seq(S)
  BY DEF LogInv, Types
<1>2. PICK n : n = Len(lines)
  OBVIOUS
<1>3. PICK l : l = [lines[i] EXCEPT !.event = e]
  OBVIOUS
<1>4. PICK ls : ls = [lines EXCEPT ![i] = l]
  OBVIOUS
<1>5. /\ n \in Nat /\ i \in 1..n /\ i + 1 \in 1..n /\ i \in Nat /\ i + 1 # 1 /\ (i + 1) - 1 = i
      /\ i + 1 # i
  BY <1>1, <1>2
<1>6. l.event = e /\ l.seq = lines[i].seq /\ l.prev = lines[i].prev /\ l # lines[i]
  <2>1. PICK s, h : lines[i] = [event |-> lines[i].event, seq |-> s, prev |-> h]
    BY <1>2, <1>5 DEF Recorded
  <2>2. QED
    BY <1>3, <2>1
<1>7. /\ ls \in Seq(S \cup {l}) /\ Len(ls) = n /\ ls[i] = l
      /\ \A j \in 1..n : j # i => ls[j] = lines[j]
  <2>1. lines \in Seq(S \cup {l})
    BY <1>1
  <2>2. QED
    BY <1>2, <1>4, <1>5, <2>1
<1>8. \A j \in 1..n : LineHolds(lines, j)
  BY <1>2 DEF LogInv, Chained
<1>9. ~LineHolds(ls, i + 1) /\ ls[i + 1].event # NoEvent /\ ls[i + 1].seq = i
  <2>1. ls[i + 1] = lines[i + 1]
    BY <1>5, <1>7
  <2>2. lines[i + 1].prev = Sha256(lines[i]) /\ lines[i + 1].event # NoEvent /\ lines[i + 1].seq = i
    BY <1>5, <1>8 DEF LineHolds
  <2>3. ls[i + 1].prev # Sha256(ls[i])
    BY <1>6, <1>7, <2>1, <2>2 DEF Sha256
  <2>4. QED
    BY <1>5, <2>1, <2>2, <2>3 DEF LineHolds
<1>10. ASSUME NEW j \in 1..n, j # i + 1 PROVE LineHolds(ls, j)
  <2>1. LineHolds(lines, j)
    BY <1>8
  <2>2. ls[j].event # NoEvent /\ ls[j].seq = lines[j].seq /\ ls[j].prev = lines[j].prev
    <3>1. CASE j = i
      BY <1>6, <1>7, <3>1, EventLogAssumption
    <3>2. CASE j # i
      BY <1>7, <2>1, <3>2 DEF LineHolds
    <3>3. QED
      BY <3>1, <3>2
  <2>3. j # 1 => ls[j - 1] = lines[j - 1]
    BY <1>5, <1>7, <1>10
  <2>4. QED
    BY <2>1, <2>2, <2>3 DEF LineHolds
<1>11. {j \in 1..Len(ls) : ~LineHolds(ls, j)} = {i + 1}
  BY <1>5, <1>7, <1>9, <1>10
<1>12. (CHOOSE j \in {i + 1} : \A k \in {i + 1} : j <= k) = i + 1
  BY <1>5
<1>13. VerifyChain(ls) = [ok |-> FALSE, line |-> i]
  <2> DEFINE broken == {j \in 1..Len(ls) : ~LineHolds(ls, j)}
             first  == CHOOSE j \in broken : \A k \in broken : j <= k
  <2>1. broken # {} /\ first = i + 1
    BY <1>11, <1>12
  <2>2. broken # {} =>
          VerifyChain(ls)
            = [ok |-> FALSE,
               line |-> IF ls[first].event # NoEvent /\ ls[first].seq = first - 1 /\ first > 1
                          THEN first - 1 ELSE first]
    BY DEF VerifyChain
  <2> HIDE DEF broken, first
  <2>3. QED
    BY <1>5, <1>9, <2>1, <2>2
<1>14. QED
  BY <1>3, <1>4, <1>13

(* A log that was tampered with is refused: no other log passes for the    *)
(* one whose head a merge recorded, and an event changed in place is       *)
(* blamed on its line (events.js verifyChain, verifyAgainstHead).          *)
THEOREM TamperingIsSeen == Spec /\ OneAtATime => []TamperingShows
<1>1. ASSUME LogInv, TamperInv PROVE TamperingShows
  <2>1. HeadVouches
    <3>1. SUFFICES ASSUME head # NoHash, NEW ls \in Forgeries, Status(ls, head).code = 0
                   PROVE  IsPrefix(atHead, ls)
      BY DEF HeadVouches
    <3>2. PICK S : ls \in Seq(S)
      BY <1>1, ForgeriesAreSeqs DEF LogInv
    <3>3. QED
      BY <1>1, <3>1, <3>2, Vouched DEF TamperInv
  <2>2. EditIsBlamed
    BY <1>1, Blamed DEF EditIsBlamed, TamperInv
  <2>3. QED
    BY <2>1, <2>2 DEF TamperingShows
<1>2. LogInv /\ TamperInv => TamperingShows
  BY <1>1
<1>3. QED
  BY <1>2, LogInit, LogStep, TamperInit, TamperStep, PTL DEF Spec
=============================================================================
