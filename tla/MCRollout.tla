------------------------------ MODULE MCRollout ------------------------------
(***************************************************************************)
(* Small instances of Rollout.                                             *)
(***************************************************************************)
EXTENDS Rollout, TLC, FiniteSets

CONSTANTS a, b, c

\* Every block of at most n statements over three objects, up to renaming
\* them: an object first occurs after the ones that precede it.
Index == a :> 1 @@ b :> 2 @@ c :> 3
UpTo(n) ==
  {s \in UNION {[1 .. k -> {a, b, c}] : k \in 1 .. n} :
     \A i \in 1 .. Len(s) :
       Index[s[i]] <= 1 + Cardinality({s[j] : j \in 1 .. i - 1})}
UpToFour == UpTo(4)

Plain(kind, sizes) == [kind : {kind}, size : sizes, canary : {0}]

\* A bound of zero is one only a stored record can carry.
AllStrategies ==
  Plain("sequential", {1}) \cup Plain("batch", 0 .. 3) \cup Plain("parallel", 2 .. 3)
    \cup [kind : {"canary"}, size : 0 .. 2, canary : 0 .. 2]
=============================================================================
