----------------------------- MODULE MCEventLog -----------------------------
(* Values of EventLog's constants for TLC.                                 *)
EXTENDS EventLogProperties, TLC

WriterSymmetry == Permutations(Writers)
=============================================================================
