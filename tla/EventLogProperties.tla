------------------------- MODULE EventLogProperties -------------------------
(***************************************************************************)
(* What the event log file promises, over the variables of EventLog.       *)
(***************************************************************************)
EXTENDS EventLog

Places == {"idle", "truncate", "write", "writing", "sync", "return"}

(* Types, and a log never shorter than what is durable: no append drops a  *)
(* line that was stored (events.js appendEvent, truncateSync).             *)
TypeOK ==
  /\ tail \in Tails
  /\ durable \in 0..Len(lines)
  /\ \A w \in Writers : writer[w].at \in Places /\ writer[w].event \in Events \cup {NoEvent}
  /\ faults \in 0..MaxFaults /\ shorts \in 0..MaxShort

(* The file implements the log its callers rely on: the lines a loss of    *)
(* power leaves only grow at the end, and an append returns only once its  *)
(* line is one of them (events.js appendEvent: append, fsync, return).     *)
Promise == INSTANCE DurableLog WITH stored <- SubSeq(lines, 1, durable), told <- told
KeepsItsPromise == Promise!Spec

(* Appends made one at a time leave a log that verifies, whatever they     *)
(* are cut short by: a torn tail is dropped before the next line is        *)
(* chained (events.js splitLines, appendEvent, verifyChain).               *)
ChainVerifies == VerifyChain(lines).ok

(* After a merge, status finds its head hash however the log has grown     *)
(* and been interrupted since, and counts exactly the events appended      *)
(* after it as uncommitted (status.js run, engine.js mergeIntegrate).      *)
StatusAfterMerge ==
  head # NoHash =>
    Status(lines, head) = [code |-> 0, uncommitted |-> Len(lines) - Len(atHead)]

-----------------------------------------------------------------------------
(* Logs a person with an editor could leave: a line changed, removed or    *)
(* inserted, or the whole log written anew with a chain that holds.        *)
SomeLines ==
  {Garbage} \cup
  [event : Events, seq : 0..MaxLines,
   prev : {NoHash} \cup {Sha256(lines[i]) : i \in DOMAIN lines}]

Rewritten(es) ==
  LET upTo[n \in 0..Len(es)] ==
        IF n = 0 THEN <<>> ELSE Append(upTo[n - 1], Record(upTo[n - 1], es[n]))
  IN upTo[Len(es)]

Forgeries ==
  {[lines EXCEPT ![i] = l] : i \in DOMAIN lines, l \in SomeLines}
    \cup {RemoveAt(lines, i) : i \in DOMAIN lines}
    \cup {InsertAt(lines, i, l) : i \in 1..(Len(lines) + 1), l \in SomeLines}
    \cup {Rewritten(es) : es \in SeqOf(Events, MaxLines)}

(* A log status accepts holds, line for line, what it held when the head   *)
(* was recorded (events.js verifyChain, verifyAgainstHead).                *)
HeadVouches ==
  head # NoHash =>
    \A ls \in Forgeries : Status(ls, head).code = 0 => IsPrefix(atHead, ls)

(* An event changed in place is reported as the line that changed          *)
(* (events.js verifyChain); only the last line has no successor to tell.   *)
EditIsBlamed ==
  \A i \in 1..(Len(lines) - 1) : \A e \in Events \ {lines[i].event} :
    VerifyChain([lines EXCEPT ![i].event = e]) = [ok |-> FALSE, line |-> i]

(* Both: a log that was tampered with is refused, and where (status.js).   *)
TamperingShows == HeadVouches /\ EditIsBlamed

-----------------------------------------------------------------------------
(* What the source says of an append and the file does not keep; refuted   *)
(* by a run of its own (see the README).                                   *)

(* "A torn final line from an earlier crash is dropped before appending:   *)
(* it was never a committed event" (events.js): no line an append returned *)
(* for is dropped.                                                         *)
ToldIsKept == told \subseteq ToSet(lines)
=============================================================================
