----------------------------- MODULE DurableLog -----------------------------
(***************************************************************************)
(* What an event log promises its callers, without files: events are only  *)
(* ever added at the end, and a caller is told an event is stored only     *)
(* once it is, so what was told never disappears.                          *)
(***************************************************************************)
EXTENDS Sequences, SequencesExt

VARIABLES
  stored,  \* the events the log keeps, whatever fails
  told     \* the events a caller was told are stored

Init == stored = <<>> /\ told = {}

Store == /\ stored # stored' /\ IsPrefix(stored, stored')
         /\ told' = told

Tell == /\ told # told' /\ told \subseteq told'
        /\ told' \subseteq ToSet(stored)
        /\ UNCHANGED stored

Next == Store \/ Tell

Spec == Init /\ [][Next]_<<stored, told>>
=============================================================================
