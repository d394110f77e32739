----------------------------- MODULE ActionOrder -----------------------------
(***************************************************************************)
(* topological_order (ono-change-core/src/action.rs): the order in which   *)
(* the executor takes a plan's actions, and how seal tells a plan whose    *)
(* actions depend on each other in a circle.  One step is one turn of its  *)
(* loop.  An action is its index, which is also its ordinal; a dependency  *)
(* of 0 is one that names no action of the plan.                           *)
(***************************************************************************)
EXTENDS Integers, Sequences, FiniteSets

CONSTANTS
  N,        \* how many actions the plan has
  Depends,  \* the lists of dependencies an action may declare
  Roles     \* the roles it may have

ASSUME OrderAssumption ==
  /\ N \in Nat
  /\ Depends \subseteq Seq(0 .. N)
  /\ Roles \subseteq {"prepare", "mutate", "verify", "recover", "cleanup"}

Actions == 1 .. N

VARIABLES
  dependsOn,  \* the declared dependencies of each action
  role,
  indegree,   \* how many of them are still to be placed
  ready,      \* the frontier; the code keeps it sorted
  order       \* the actions placed so far

vars == <<dependsOn, role, indegree, ready, order>>

RoleRank ==
  [prepare |-> 0, mutate |-> 1, verify |-> 2, recover |-> 3, cleanup |-> 4]

\* A mutant: the frontier is ordered by ordinal alone.
OrdinalOnly(i, j) == i <= j

\* sort_by_key of the frontier: by role, then by ordinal.
Precedes(i, j) ==
  \/ RoleRank[role[i]] < RoleRank[role[j]]
  \/ RoleRank[role[i]] = RoleRank[role[j]] /\ i <= j

\* The edges into t from actions of S.  A dependency declared twice is two.
Edges(t, S) == {k \in DOMAIN dependsOn[t] : dependsOn[t][k] \in S}

Placed == {order[i] : i \in DOMAIN order}

Unplaced == Actions \ Placed

\* A mutant: a dependency declared twice is taken away once.
PlaceOnce(n) ==
  /\ n \in ready
  /\ \A other \in ready : Precedes(n, other)
  /\ order' = Append(order, n)
  /\ indegree' =
       [t \in Actions |-> IF Edges(t, {n}) = {} THEN indegree[t] ELSE indegree[t] - 1]
  /\ ready' = (ready \ {n})
                \cup {t \in Actions : Edges(t, {n}) # {} /\ indegree'[t] = 0}
  /\ UNCHANGED <<dependsOn, role>>

\* The first of the frontier is placed, and every action it was the last
\* dependency of joins the frontier.
Place(n) ==
  /\ n \in ready
  /\ \A other \in ready : Precedes(n, other)
  /\ order' = Append(order, n)
  /\ indegree' = [t \in Actions |-> indegree[t] - Cardinality(Edges(t, {n}))]
  /\ ready' = (ready \ {n})
                \cup {t \in Actions : Edges(t, {n}) # {} /\ indegree'[t] = 0}
  /\ UNCHANGED <<dependsOn, role>>

Init ==
  /\ dependsOn \in [Actions -> Depends]
  /\ role \in [Actions -> Roles]
  /\ indegree = [t \in Actions |-> Cardinality(Edges(t, Actions))]
  /\ ready = {t \in Actions : indegree[t] = 0}
  /\ order = <<>>

Next == \E n \in Actions : Place(n)

Spec == Init /\ [][Next]_vars

\* The loop is over; what is unplaced is reported as the cycle.
Done == ready = {}

-----------------------------------------------------------------------------
(* Properties *)

\* The order, the frontier and the counts are well typed.
TypeOK ==
  /\ dependsOn \in [Actions -> Seq(0 .. N)]
  /\ role \in [Actions -> Roles]
  /\ indegree \in [Actions -> Nat]
  /\ ready \subseteq Actions
  /\ order \in Seq(Actions)

\* Every action follows all the ones it depends on.
DependenciesFirst ==
  \A j \in 1 .. Len(order) :
    \A k \in Edges(order[j], Actions) :
      \E i \in 1 .. j - 1 : order[i] = dependsOn[order[j]][k]

\* No action is placed twice, so no action is executed twice by a run.
PlacedOnce ==
  \A i, j \in 1 .. Len(order) : order[i] = order[j] => i = j

\* What the loop leaves waits for something it leaves: a plan is refused only
\* for actions that could never have run.
LeftoversWait ==
  Done => \A t \in Unplaced : Edges(t, Unplaced) # {}

\* A plan is refused exactly when its dependencies have a cycle: some of its
\* actions, each of which waits for another of them.
RefusedIffCyclic ==
  Done => (Unplaced # {} <=>
             \E S \in (SUBSET Actions) \ {{}} : \A t \in S : Edges(t, S) # {})

\* An action stands behind one of a later role, or a later ordinal, only if it
\* depended on that action or on one placed after it.
EarliestRole ==
  LET key(t) == (N + 1) * RoleRank[role[t]] + t
  IN \A i, j \in 1 .. Len(order) :
       i < j /\ key(order[j]) < key(order[i]) =>
         \E k \in i .. j - 1 : Edges(order[j], {order[k]}) # {}

\* "Returns the identities that form a cycle": each of them is in a set whose
\* members all wait for, and are all waited for by, another of the set.
NamesTheCycle ==
  Done => \A t \in Unplaced :
            \E S \in SUBSET Unplaced :
              /\ t \in S
              /\ \A u \in S : Edges(u, S) # {} /\ \E w \in S : Edges(w, {u}) # {}
=============================================================================
