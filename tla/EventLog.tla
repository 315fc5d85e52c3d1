------------------------------ MODULE EventLog ------------------------------
(***************************************************************************)
(* A task's event log as the file it is (scripts/lifecycle/events.js): one *)
(* line per event, chained by hashes, appended by processes that read the  *)
(* whole file first and may be killed, or lose power, at any point.  Then  *)
(* the checks made of the file: verifyChain, verifyAgainstHead and yukl    *)
(* status, which holds it against the head hash a merge recorded           *)
(* (lifecycle/engine.js mergeIntegrate).                                   *)
(*                                                                         *)
(* A line keeps the fields the checks read.  Its bytes past the last       *)
(* newline are abstracted to whether there are any.                        *)
(***************************************************************************)
EXTENDS Naturals, Sequences, SequencesExt, FiniteSets

CONSTANTS
  Writers,    \* processes that append
  Events,     \* what an append records
  NoEvent,    \* what a line that does not parse records
  Serial,     \* whether appends are made one at a time
  MaxLines,   \* bound: lines the log may reach
  MaxFaults,  \* bound: processes killed and power lost
  MaxShort    \* bound: writes that store fewer bytes than asked, unnoticed

ASSUME EventLogAssumption ==
  /\ NoEvent \notin Events
  /\ Serial \in BOOLEAN
  /\ MaxLines \in Nat /\ MaxFaults \in Nat /\ MaxShort \in Nat

VARIABLES
  lines,    \* the complete lines of the file
  tail,     \* what follows the last newline
  durable,  \* how many of the lines a loss of power leaves
  writer,   \* each appending process
  told,     \* the lines whose append returned
  head,     \* the hash in the newest Yukl-Run-Head trailer
  atHead,   \* the lines it was taken over
  faults, shorts

file == <<lines, tail, durable>>
vars == <<file, writer, told, head, atHead, faults, shorts>>

-----------------------------------------------------------------------------
(* Hashing: sha256 of a line, distinct for distinct lines.                 *)
NoHash == <<>>
Sha256(line) == <<line>>

(* appendEvent's record: seq and prev are those of the lines it read.      *)
HashOfLast(ls) == IF ls = <<>> THEN NoHash ELSE Sha256(Last(ls))
Record(ls, e)  == [event |-> e, seq |-> Len(ls), prev |-> HashOfLast(ls)]

(* A line that joins a torn tail and a record: not a JSON object.          *)
Garbage == [event |-> NoEvent, seq |-> 0, prev |-> NoHash]

Idle == [at |-> "idle", read |-> <<>>, event |-> NoEvent]

(* Bytes after the last newline: none, part of one line, or part of a line *)
(* that started on such a part.                                            *)
Tails == {"none", "torn", "glued"}

-----------------------------------------------------------------------------
(* verifyChain: whether the log holds together and the line it blames.     *)
LineHoldsFault(ls, i) ==
  /\ ls[i].event # NoEvent
  /\ ls[i].seq = i - 1

LineHolds(ls, i) ==
  /\ ls[i].event # NoEvent
  /\ ls[i].seq = i - 1
  /\ ls[i].prev = (IF i = 1 THEN NoHash ELSE Sha256(ls[i - 1]))

VerifyChainFault(ls) ==
  LET broken == {i \in 1..Len(ls) : ~ LineHolds(ls, i)}
      first  == CHOOSE i \in broken : \A j \in broken : i <= j
  IN IF broken = {} THEN [ok |-> TRUE, line |-> 0] ELSE [ok |-> FALSE, line |-> first]

VerifyChain(ls) ==
  LET broken == {i \in 1..Len(ls) : ~ LineHolds(ls, i)}
      first  == CHOOSE i \in broken : \A j \in broken : i <= j
      ofPrior == ls[first].event # NoEvent /\ ls[first].seq = first - 1 /\ first > 1
  IN IF broken = {} THEN [ok |-> TRUE, line |-> 0]
     ELSE [ok |-> FALSE, line |-> IF ofPrior THEN first - 1 ELSE first]

HeadHash(ls) == HashOfLast(ls)

VerifyAgainstHead(ls, hash) ==
  IF ls = <<>> THEN hash = NoHash ELSE \E i \in DOMAIN ls : Sha256(ls[i]) = hash

(* yukl status: its exit code and the uncommitted tail it reports.  The    *)
(* newest trailer for the task is the one it looks for.                    *)
LineIndexForHash(ls, hash) ==
  LET found == {i \in DOMAIN ls : Sha256(ls[i]) = hash}
  IN CHOOSE i \in found : \A j \in found : i <= j

StatusFault(ls, hash) ==
  IF hash = HeadHash(ls) THEN [code |-> 0, uncommitted |-> 0]
  ELSE [code |-> 1, uncommitted |-> 0]

Status(ls, hash) ==
  IF ~ VerifyChain(ls).ok THEN [code |-> 1, uncommitted |-> 0]
  ELSE IF hash = NoHash THEN [code |-> 0, uncommitted |-> 0]
  ELSE IF ~ VerifyAgainstHead(ls, hash) THEN [code |-> 1, uncommitted |-> 0]
  ELSE [code |-> 0, uncommitted |-> Len(ls) - LineIndexForHash(ls, hash)]

-----------------------------------------------------------------------------
(* appendEvent, one file operation at a time.                              *)

Appending == {w \in Writers : writer[w].at # "idle"}

(* The write a process is in the middle of holds the file against a read,  *)
(* a truncation or another write.                                          *)
FileFree == \A w \in Writers : writer[w].at # "writing"

Goes(w, place) == writer' = [writer EXCEPT ![w].at = place]

ReadLogFault(w, e) ==
  /\ writer[w].at = "idle" /\ FileFree
  /\ Serial => Appending = {}
  /\ Len(lines) < MaxLines
  /\ writer' = [writer EXCEPT ![w] = [at |-> "write", read |-> lines, event |-> e]]
  /\ UNCHANGED <<file, told, head, atHead, faults, shorts>>

ReadLog(w, e) ==
  /\ writer[w].at = "idle" /\ FileFree
  /\ Serial => Appending = {}
  /\ Len(lines) < MaxLines
  /\ writer' = [writer EXCEPT ![w] =
       [at    |-> IF tail = "none" THEN "write" ELSE "truncate",
        read  |-> lines,
        event |-> e]]
  /\ UNCHANGED <<file, told, head, atHead, faults, shorts>>

(* The file is cut to the length of the lines read.  When it no longer     *)
(* starts with them the cut falls anywhere, or pads the file.              *)
Cuts(read) ==
  IF IsPrefix(read, lines) THEN {<<read, "none">>}
  ELSE {<<SubSeq(lines, 1, k), t>> : k \in 0..Len(lines), t \in {"none", "torn"}}

TruncateTail(w) ==
  /\ writer[w].at = "truncate" /\ FileFree
  /\ \E cut \in Cuts(writer[w].read) :
       /\ lines' = cut[1] /\ tail' = cut[2]
       /\ durable' = IF durable > Len(cut[1]) THEN Len(cut[1]) ELSE durable
  /\ Goes(w, "write")
  /\ UNCHANGED <<told, head, atHead, faults, shorts>>

BeginWrite(w) ==
  /\ writer[w].at = "write" /\ FileFree
  /\ tail' = IF tail = "none" THEN "torn" ELSE "glued"
  /\ Goes(w, "writing")
  /\ UNCHANGED <<lines, durable, told, head, atHead, faults, shorts>>

(* writeSync's count is not looked at, so a write that stored part of the  *)
(* line goes on like one that stored all of it.                            *)
EndWrite(w) ==
  /\ writer[w].at = "writing"
  /\ \E short \in {n \in {0, 1} : shorts + n <= MaxShort} :
       /\ shorts' = shorts + short
       /\ IF short = 1 THEN UNCHANGED <<lines, tail>>
          ELSE /\ lines' = Append(lines,
                    IF tail = "torn" THEN Record(writer[w].read, writer[w].event)
                    ELSE Garbage)
               /\ tail' = "none"
  /\ Goes(w, "sync")
  /\ UNCHANGED <<durable, told, head, atHead, faults>>

FsyncFault(w) ==
  /\ writer[w].at = "sync"
  /\ Goes(w, "return")
  /\ UNCHANGED <<file, told, head, atHead, faults, shorts>>

Fsync(w) ==
  /\ writer[w].at = "sync"
  /\ durable' = Len(lines)
  /\ Goes(w, "return")
  /\ UNCHANGED <<lines, tail, told, head, atHead, faults, shorts>>

Return(w) ==
  /\ writer[w].at = "return"
  /\ told' = told \cup {Record(writer[w].read, writer[w].event)}
  /\ writer' = [writer EXCEPT ![w] = Idle]
  /\ UNCHANGED <<file, head, atHead, faults, shorts>>

-----------------------------------------------------------------------------
(* A process is killed; the file keeps what was written.  A write that     *)
(* fails after storing part of the line, and throws, leaves the same.      *)
Kill(w) ==
  /\ writer[w].at # "idle" /\ faults < MaxFaults
  /\ writer' = [writer EXCEPT ![w] = Idle]
  /\ faults' = faults + 1
  /\ UNCHANGED <<file, told, head, atHead, shorts>>

(* Power is lost: what was not synced may be gone, its last line in part.  *)
LosePower ==
  /\ faults < MaxFaults /\ faults' = faults + 1
  /\ writer' = [w \in Writers |-> Idle]
  /\ \E kept \in durable..Len(lines) :
       /\ lines' = SubSeq(lines, 1, kept)
       /\ tail' \in IF kept < Len(lines) \/ tail # "none" THEN {"none", "torn"} ELSE {"none"}
       /\ durable' = kept
  /\ UNCHANGED <<told, head, atHead, shorts>>

(* A merge records the hash of the head of the log it read, just after its *)
(* own stage_started was appended.                                         *)
RecordHead ==
  /\ Serial => Appending = {}
  /\ lines # <<>> /\ durable = Len(lines)
  /\ head' = HeadHash(lines) /\ atHead' = lines
  /\ UNCHANGED <<file, writer, told, faults, shorts>>

-----------------------------------------------------------------------------
Init ==
  /\ lines = <<>> /\ tail = "none" /\ durable = 0
  /\ writer = [w \in Writers |-> Idle]
  /\ told = {} /\ head = NoHash /\ atHead = <<>>
  /\ faults = 0 /\ shorts = 0

Next ==
  \/ \E w \in Writers :
       \/ \E e \in Events : ReadLog(w, e)
       \/ TruncateTail(w) \/ BeginWrite(w) \/ EndWrite(w)
       \/ Fsync(w) \/ Return(w) \/ Kill(w)
  \/ LosePower
  \/ RecordHead

Spec == Init /\ [][Next]_vars
=============================================================================
