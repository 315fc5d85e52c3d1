------------------------------- MODULE Scopes -------------------------------
(***************************************************************************)
(* Path patterns (scripts/yukl.js) and what the scheduler makes of them    *)
(* (scripts/commands/schedule.js).  A path is a sequence of names.  A      *)
(* pattern is a sequence of segments: names, wildcards that each stand for *)
(* some names, "**", a leading "." and a trailing "" (a final slash).      *)
(***************************************************************************)
EXTENDS Naturals, SequencesExt

CONSTANTS
  Names,     \* the segments of paths
  Wildcards, \* the segments with a "*" other than "**"
  Covers,    \* the names each wildcard matches
  NoScope    \* an intent that is missing, malformed or without paths

AnyDepth == "**"
Dot      == "."
Slash    == ""

ASSUME ScopesAssumption ==
  /\ Names \cap Wildcards = {} /\ {AnyDepth, Dot, Slash} \cap (Names \cup Wildcards) = {}
  /\ Covers \in [Wildcards -> SUBSET Names]

IsWildcard(segment) == segment = AnyDepth \/ segment \in Wildcards

SegmentMatches(name, segment) ==
  IF segment \in Wildcards THEN name \in Covers[segment] ELSE name = segment

(* The positions of the path from which its rest matches the last n        *)
(* segments.  A "**" at the end takes one segment or more, elsewhere none  *)
(* or more.                                                                *)
MatchesGlob(path, pattern) ==
  LET Segment(n) == pattern[Len(pattern) + 1 - n]
      from[n \in 0..Len(pattern)] ==
        IF n = 0 THEN {Len(path) + 1}
        ELSE IF \A k \in 1..n : Segment(k) = AnyDepth THEN 1..Len(path)
        ELSE LET rest == from[n - 1]
             IN IF Segment(n) = AnyDepth
                  THEN {j \in 1..Len(path) + 1 : \E k \in rest : j <= k}
                  ELSE {j \in 1..Len(path) :
                          SegmentMatches(path[j], Segment(n)) /\ j + 1 \in rest}
  IN 1 \in from[Len(pattern)]

-----------------------------------------------------------------------------
WithoutDot(p) == IF Len(p) > 1 /\ p[1] = Dot THEN Tail(p) ELSE p

WithoutSlash(p) ==
  SubSeq(p, 1, CHOOSE n \in 0..Len(p) :
                 (n = 0 \/ p[n] # Slash) /\ \A k \in (n + 1)..Len(p) : p[k] = Slash)

UpToWildcard(p) ==
  LET n == CHOOSE n \in 0..Len(p) :
             /\ \A k \in 1..n : ~IsWildcard(p[k])
             /\ n = Len(p) \/ IsWildcard(p[n + 1])
  IN SubSeq(p, 1, n)

ScopePrefixFault(p) == WithoutSlash(WithoutDot(p))

ScopePrefix(p) == UpToWildcard(WithoutSlash(WithoutDot(p)))

Within(inner, outer) == IsPrefix(outer, inner)

ScopesOverlap(p, q) ==
  LET left == ScopePrefix(p)  right == ScopePrefix(q)
  IN left = <<>> \/ right = <<>> \/ Within(left, right) \/ Within(right, left)

(* A scope is a set of patterns, or unknown.                               *)
TasksOverlap(a, b) ==
  a = NoScope \/ b = NoScope \/ \E p \in a, q \in b : ScopesOverlap(p, q)

(* Waves are sequences of tasks, each joining the first it fits.           *)
FitsWave(t, wave, scope) == \A u \in ToSet(wave) : ~TasksOverlap(scope[t], scope[u])

PlaceTask(waves, t, scope) ==
  LET fitting == {k \in DOMAIN waves : FitsWave(t, waves[k], scope)}
  IN IF fitting = {} THEN Append(waves, <<t>>)
     ELSE [waves EXCEPT ![CHOOSE k \in fitting : \A l \in fitting : k <= l] = Append(@, t)]

PlanWaves(order, scope) ==
  LET planned[n \in 0..Len(order)] ==
        IF n = 0 THEN <<>> ELSE PlaceTask(planned[n - 1], order[n], scope)
  IN planned[Len(order)]
=============================================================================
