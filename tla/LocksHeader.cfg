\* What the header of locks.js claims.  With the commented line in place of the
\* invariant, its other claim.
SPECIFICATION Spec
CONSTANTS
  Ghost = Ghost
  NoOwner = NoOwner
  Procs = {p1, p2, p3}
  MaxTries = 3
  MaxDeaths = 1
SYMMETRY Symmetry
CHECK_DEADLOCK FALSE
INVARIANT OneWindowIsOpen
\* PROPERTY DeadReclaimersBlockNobody
