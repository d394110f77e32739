-------------------------- MODULE ActionOrderProofs --------------------------
(***************************************************************************)
(* topological_order is correct for every plan: any number of actions, any *)
(* dependencies and any roles.                                             *)
(***************************************************************************)
EXTENDS ActionOrder, FiniteSetTheorems, TLAPS

\* The counts are of the edges from unplaced actions.
Counted == \A t \in Actions : indegree[t] = Cardinality(Edges(t, Unplaced))

\* The frontier is what waits for nothing.
Frontier == ready = {t \in Unplaced : indegree[t] = 0}

\* A set of actions each of which waits for another of them.
Circular(S) == \A t \in S : Edges(t, S) # {}

\* No member of such a set is ever placed.
CirclesLeft == \A S \in SUBSET Actions : Circular(S) => S \subseteq Unplaced

OrderInv ==
  TypeOK /\ Counted /\ Frontier /\ DependenciesFirst /\ PlacedOnce /\ CirclesLeft

-----------------------------------------------------------------------------

\* The edges into an action are finitely many.
LEMMA EdgesFinite ==
  ASSUME dependsOn \in [Actions -> Seq(0 .. N)], NEW t \in Actions, NEW S
  PROVE  IsFiniteSet(Edges(t, S)) /\ Cardinality(Edges(t, S)) \in Nat
<1>1. dependsOn[t] \in Seq(0 .. N)
  OBVIOUS
<1>2. DOMAIN dependsOn[t] = 1 .. Len(dependsOn[t]) /\ Len(dependsOn[t]) \in Nat
  BY <1>1
<1>3. IsFiniteSet(1 .. Len(dependsOn[t]))
  BY <1>2, FS_Interval
<1>4. Edges(t, S) \subseteq 1 .. Len(dependsOn[t])
  BY <1>2 DEF Edges
<1>5. IsFiniteSet(Edges(t, S))
  BY <1>3, <1>4, FS_Subset
<1>6. QED
  BY <1>5, FS_CardinalityType

\* An action none of whose edges come from S has a count of zero, and
\* conversely.
LEMMA NoEdges ==
  ASSUME dependsOn \in [Actions -> Seq(0 .. N)], NEW t \in Actions, NEW S
  PROVE  Cardinality(Edges(t, S)) = 0 <=> Edges(t, S) = {}
BY EdgesFinite, FS_EmptySet

\* Taking one action out of a set takes its edges away, each once.
LEMMA TakeOut ==
  ASSUME dependsOn \in [Actions -> Seq(0 .. N)], NEW t \in Actions, NEW S,
         NEW n \in S
  PROVE  Cardinality(Edges(t, S \ {n}))
           = Cardinality(Edges(t, S)) - Cardinality(Edges(t, {n}))
<1>1. Edges(t, S \ {n}) = Edges(t, S) \ Edges(t, {n})
  BY DEF Edges
<1>2. Edges(t, S) \cap Edges(t, {n}) = Edges(t, {n})
  BY DEF Edges
<1>3. IsFiniteSet(Edges(t, S)) /\ IsFiniteSet(Edges(t, {n}))
  BY EdgesFinite
<1>4. Cardinality(Edges(t, S) \ Edges(t, {n}))
        = Cardinality(Edges(t, S)) - Cardinality(Edges(t, S) \cap Edges(t, {n}))
  BY Zenon, <1>3, FS_Difference
<1>5. QED
  BY Zenon, <1>1, <1>2, <1>4

-----------------------------------------------------------------------------

\* The loop starts with nothing placed and the invariant true.
LEMMA OrderInit == Init => OrderInv
<1> SUFFICES ASSUME Init PROVE OrderInv
  OBVIOUS
<1>1. dependsOn \in [Actions -> Seq(0 .. N)] /\ role \in [Actions -> Roles]
  BY OrderAssumption DEF Init
<1>2. order = <<>> /\ Placed = {} /\ Unplaced = Actions
  BY DEF Init, Placed, Unplaced
<1>3. \A t \in Actions : indegree[t] = Cardinality(Edges(t, Actions))
  BY DEF Init
<1>4. indegree \in [Actions -> Nat]
  <2>1. \A t \in Actions : Cardinality(Edges(t, Actions)) \in Nat
    BY <1>1, EdgesFinite
  <2>2. QED
    BY <2>1 DEF Init
<1>5. ready = {t \in Actions : indegree[t] = 0}
  BY DEF Init
<1>6. TypeOK
  BY <1>1, <1>2, <1>4, <1>5 DEF TypeOK
<1>7. Counted /\ Frontier
  BY <1>2, <1>3, <1>5 DEF Counted, Frontier
<1>8. DependenciesFirst /\ PlacedOnce
  BY <1>2 DEF DependenciesFirst, PlacedOnce
<1>9. CirclesLeft
  BY <1>2 DEF CirclesLeft
<1>10. QED
  BY <1>6, <1>7, <1>8, <1>9 DEF OrderInv

\* One turn of the loop preserves the invariant.
LEMMA OrderStep == OrderInv /\ [Next]_vars => OrderInv'
<1> SUFFICES ASSUME OrderInv, [Next]_vars PROVE OrderInv'
  OBVIOUS
<1>1. CASE UNCHANGED vars
  <2>1. /\ dependsOn' = dependsOn /\ role' = role /\ indegree' = indegree
        /\ ready' = ready /\ order' = order
    BY <1>1 DEF vars
  <2>2. Placed' = Placed /\ Unplaced' = Unplaced
    BY <2>1 DEF Placed, Unplaced
  <2>3. TypeOK' /\ PlacedOnce'
    BY <2>1 DEF OrderInv, TypeOK, PlacedOnce
  <2>4. Counted' /\ Frontier'
    BY <2>1, <2>2 DEF OrderInv, Counted, Frontier, Edges
  <2>5. DependenciesFirst'
    BY <2>1 DEF OrderInv, DependenciesFirst, Edges
  <2>6. CirclesLeft'
    BY Zenon, <2>1, <2>2 DEF OrderInv, CirclesLeft, Circular, Edges
  <2>7. QED
    BY <2>3, <2>4, <2>5, <2>6 DEF OrderInv
<1>2. CASE Next
  <2>1. PICK n \in Actions : Place(n)
    BY <1>2 DEF Next
  <2>2. /\ dependsOn \in [Actions -> Seq(0 .. N)]
        /\ role \in [Actions -> Roles]
        /\ indegree \in [Actions -> Nat]
        /\ ready \subseteq Actions
        /\ order \in Seq(Actions)
    BY DEF OrderInv, TypeOK
  <2>3. /\ n \in ready
        /\ order' = Append(order, n)
        /\ indegree' = [t \in Actions |-> indegree[t] - Cardinality(Edges(t, {n}))]
        /\ ready' = (ready \ {n})
                      \cup {t \in Actions : Edges(t, {n}) # {} /\ indegree'[t] = 0}
        /\ dependsOn' = dependsOn
        /\ role' = role
    BY <2>1 DEF Place
  <2>4. \A t, S : Edges(t, S)' = Edges(t, S')
    BY <2>3 DEF Edges
  <2>5. n \in Unplaced /\ indegree[n] = 0
    BY <2>3 DEF OrderInv, Frontier
  <2>6. Edges(n, Unplaced) = {}
    BY <2>2, <2>5, NoEdges DEF OrderInv, Counted
  <2>7. /\ Len(order') = Len(order) + 1
        /\ Len(order) \in Nat
        /\ order' \in Seq(Actions)
        /\ order'[Len(order) + 1] = n
        /\ \A i \in 1 .. Len(order) : order'[i] = order[i]
        /\ DOMAIN order = 1 .. Len(order)
        /\ DOMAIN order' = 1 .. Len(order) + 1
    BY <2>2, <2>3
  <2>8. Placed' = Placed \cup {n} /\ Unplaced' = Unplaced \ {n}
    <3>1. Placed' = Placed \cup {n}
      BY <2>7 DEF Placed
    <3>2. QED
      BY <3>1 DEF Unplaced
  <2>9. Counted'
    <3>1. ASSUME NEW t \in Actions
          PROVE  indegree'[t] = Cardinality(Edges(t, Unplaced \ {n}))
      <4>1. Cardinality(Edges(t, Unplaced \ {n}))
              = Cardinality(Edges(t, Unplaced)) - Cardinality(Edges(t, {n}))
        BY <2>2, <2>5, TakeOut
      <4>2. QED
        BY <4>1, <2>3 DEF OrderInv, Counted
    <3>2. QED
      BY <3>1, <2>4, <2>8 DEF Counted
  <2>10. indegree' \in [Actions -> Nat]
    <3>1. \A t \in Actions : Cardinality(Edges(t, Unplaced \ {n})) \in Nat
      BY <2>2, EdgesFinite
    <3>2. \A t \in Actions : indegree'[t] = Cardinality(Edges(t, Unplaced \ {n}))
      BY <2>9, <2>4, <2>8 DEF Counted
    <3>3. QED
      BY Zenon, <3>1, <3>2, <2>3
  <2>11. TypeOK'
    BY Zenon, <2>2, <2>3, <2>7, <2>10 DEF TypeOK
  <2>12. DependenciesFirst'
    <3>1. ASSUME NEW j \in 1 .. Len(order) + 1, NEW k \in Edges(order'[j], Actions)
          PROVE  \E i \in 1 .. j - 1 : order'[i] = dependsOn[order'[j]][k]
      <4>1. CASE j \in 1 .. Len(order)
        <5>1. PICK i \in 1 .. j - 1 : order[i] = dependsOn[order[j]][k]
          BY <3>1, <4>1, <2>7 DEF OrderInv, DependenciesFirst
        <5>2. i \in 1 .. Len(order)
          BY <4>1, <2>7
        <5>3. QED
          BY <5>1, <5>2, <4>1, <2>7
      <4>2. CASE j = Len(order) + 1
        <5>1. dependsOn[n][k] \in Actions /\ k \in DOMAIN dependsOn[n]
          BY <3>1, <4>2, <2>7 DEF Edges
        <5>2. dependsOn[n][k] \in Placed
          BY <5>1, <2>6 DEF Edges, Unplaced
        <5>3. PICK i \in 1 .. Len(order) : order[i] = dependsOn[n][k]
          BY <5>2, <2>7 DEF Placed
        <5>4. i \in 1 .. j - 1
          BY <4>2, <2>7
        <5>5. QED
          BY <5>3, <5>4, <4>2, <2>7
      <4>3. QED
        BY <4>1, <4>2, <2>7
    <3>2. ASSUME NEW j \in 1 .. Len(order'), NEW k \in Edges(order[j], Actions)'
          PROVE  \E i \in 1 .. j - 1 : order'[i] = dependsOn'[order'[j]][k]
      <4>1. j \in 1 .. Len(order) + 1
        BY <2>7
      <4>2. k \in Edges(order'[j], Actions)
        BY <3>2, <2>3 DEF Edges
      <4>3. QED
        BY Zenon, <4>1, <4>2, <3>1, <2>3
    <3>3. QED
      BY <3>2 DEF DependenciesFirst
  <2>13. PlacedOnce'
    <3>1. \A i \in 1 .. Len(order) : order[i] # n
      BY <2>5, <2>7 DEF Unplaced, Placed
    <3>2. ASSUME NEW i \in 1 .. Len(order) + 1, NEW j \in 1 .. Len(order) + 1,
                 order'[i] = order'[j]
          PROVE  i = j
      <4>1. CASE i \in 1 .. Len(order) /\ j \in 1 .. Len(order)
        BY <4>1, <3>2, <2>7 DEF OrderInv, PlacedOnce
      <4>2. CASE i = Len(order) + 1 /\ j \in 1 .. Len(order)
        BY <4>2, <3>1, <3>2, <2>7
      <4>3. CASE j = Len(order) + 1 /\ i \in 1 .. Len(order)
        BY <4>3, <3>1, <3>2, <2>7
      <4>4. QED
        BY <4>1, <4>2, <4>3, <2>7
    <3>3. QED
      BY <3>2, <2>7 DEF PlacedOnce
  <2>14. Frontier'
    <3>1. ready' = {t \in Unplaced \ {n} : indegree'[t] = 0}
      <4>1. ASSUME NEW t \in ready' PROVE t \in Unplaced \ {n} /\ indegree'[t] = 0
        <5>1. CASE t \in ready \ {n}
          <6>1. t \in Unplaced /\ t # n /\ indegree[t] = 0 /\ t \in Actions
            BY <5>1, <2>2 DEF OrderInv, Frontier
          <6>2. Edges(t, Unplaced) = {}
            BY <6>1, <2>2, NoEdges DEF OrderInv, Counted
          <6>3. Edges(t, Unplaced \ {n}) = {}
            BY <6>2 DEF Edges
          <6>4. indegree'[t] = Cardinality(Edges(t, Unplaced \ {n}))
            BY <6>1, <2>9, <2>4, <2>8 DEF Counted
          <6>5. QED
            BY <6>1, <6>3, <6>4, FS_EmptySet
        <5>2. CASE t \in Actions /\ Edges(t, {n}) # {} /\ indegree'[t] = 0
          <6>1. t # n
            BY <5>2, <2>5, <2>6 DEF Edges
          <6>2. t \notin Placed
            <7> SUFFICES ASSUME t \in Placed PROVE FALSE
              OBVIOUS
            <7>1. PICK j \in 1 .. Len(order) : order[j] = t
              BY <2>7 DEF Placed
            <7>2. PICK k \in Edges(t, {n}) : TRUE
              BY Zenon, <5>2
            <7>3. k \in Edges(t, Actions) /\ dependsOn[t][k] = n
              BY <7>2 DEF Edges
            <7>4. PICK i \in 1 .. j - 1 : order[i] = n
              BY <7>1, <7>3 DEF OrderInv, DependenciesFirst
            <7>5. n \in Placed
              BY <7>1, <7>4, <2>7 DEF Placed
            <7>6. QED
              BY <7>5, <2>5 DEF Unplaced
          <6>3. QED
            BY <6>1, <6>2, <5>2 DEF Unplaced
        <5>3. QED
          BY Zenon, <5>1, <5>2, <2>3
      <4>2. ASSUME NEW t \in Unplaced \ {n}, indegree'[t] = 0 PROVE t \in ready'
        <5>1. t \in Actions
          BY DEF Unplaced
        <5>2. CASE Edges(t, {n}) = {}
          <6>1. indegree'[t] = indegree[t] - Cardinality(Edges(t, {n}))
            BY <5>1, <2>3
          <6>2. Cardinality(Edges(t, {n})) = 0
            BY <5>2, FS_EmptySet
          <6>3. indegree[t] = 0
            BY <6>1, <6>2, <4>2, <5>1, <2>2
          <6>4. t \in ready
            BY <6>3, <4>2 DEF OrderInv, Frontier
          <6>5. QED
            BY <6>4, <4>2, <2>3
        <5>3. CASE Edges(t, {n}) # {}
          BY Zenon, <5>1, <5>3, <4>2, <2>3
        <5>4. QED
          BY <5>2, <5>3
      <4>3. QED
        BY <4>1, <4>2
    <3>2. QED
      BY <3>1, <2>8 DEF Frontier
  <2>15. CirclesLeft'
    <3>1. ASSUME NEW S \in SUBSET Actions, Circular(S)
          PROVE  S \subseteq Unplaced \ {n}
      <4>1. S \subseteq Unplaced
        BY <3>1 DEF OrderInv, CirclesLeft
      <4>2. Edges(n, S) = {}
        BY <4>1, <2>6 DEF Edges
      <4>3. QED
        BY <4>1, <4>2, <3>1 DEF Circular
    <3>2. \A S : Circular(S)' <=> Circular(S')
      BY <2>4 DEF Circular
    <3>3. QED
      BY <3>1, <3>2, <2>8 DEF CirclesLeft
  <2>16. QED
    BY <2>9, <2>11, <2>12, <2>13, <2>14, <2>15 DEF OrderInv
<1>3. QED
  BY <1>1, <1>2

\* When the loop ends, what is left waits for something that is left.
LEMMA LeftWait == OrderInv => LeftoversWait
<1> SUFFICES ASSUME OrderInv, Done, NEW t \in Unplaced
             PROVE  Edges(t, Unplaced) # {}
  BY DEF LeftoversWait
<1>1. t \in Actions /\ dependsOn \in [Actions -> Seq(0 .. N)]
  BY DEF Unplaced, OrderInv, TypeOK
<1>2. indegree[t] # 0
  BY DEF Done, OrderInv, Frontier
<1>3. QED
  BY <1>1, <1>2, NoEdges DEF OrderInv, Counted

\* The order the executor follows puts every action after all it depends on.
THEOREM OrderRespectsDependencies == Spec => []DependenciesFirst
<1>1. OrderInv => DependenciesFirst
  BY DEF OrderInv
<1>2. QED
  BY <1>1, OrderInit, OrderStep, PTL DEF Spec

\* No action is placed twice.
THEOREM OrderHasNoRepeats == Spec => []PlacedOnce
<1>1. OrderInv => PlacedOnce
  BY DEF OrderInv
<1>2. QED
  BY <1>1, OrderInit, OrderStep, PTL DEF Spec

\* seal refuses a plan exactly when its dependencies have a cycle.
THEOREM CycleDetection == Spec => []RefusedIffCyclic
<1>1. OrderInv => RefusedIffCyclic
  <2> SUFFICES ASSUME OrderInv, Done
               PROVE  Unplaced # {} <=>
                        \E S \in (SUBSET Actions) \ {{}} : \A t \in S : Edges(t, S) # {}
    BY DEF RefusedIffCyclic
  <2>1. ASSUME Unplaced # {}
        PROVE  \E S \in (SUBSET Actions) \ {{}} : \A t \in S : Edges(t, S) # {}
    <3>1. Unplaced \in (SUBSET Actions) \ {{}}
      BY <2>1 DEF Unplaced
    <3>2. \A t \in Unplaced : Edges(t, Unplaced) # {}
      BY LeftWait DEF LeftoversWait
    <3>3. QED
      BY <3>1, <3>2
  <2>2. ASSUME NEW S \in (SUBSET Actions) \ {{}}, \A t \in S : Edges(t, S) # {}
        PROVE  Unplaced # {}
    <3>1. S \subseteq Unplaced
      BY <2>2 DEF OrderInv, CirclesLeft, Circular
    <3>2. QED
      BY <3>1
  <2>3. QED
    BY <2>1, <2>2
<1>2. QED
  BY <1>1, OrderInit, OrderStep, PTL DEF Spec

-----------------------------------------------------------------------------

\* Whatever waited for nothing else when an action was placed comes after it.
Chosen ==
  \A i \in 1 .. Len(order) : \A t \in Actions :
    /\ \A k \in 1 .. i : order[k] # t
    /\ \A e \in Edges(t, Actions) : \E k \in 1 .. i - 1 : order[k] = dependsOn[t][e]
    => Precedes(order[i], t)

\* One turn of the loop keeps the choices of the turns before it.
LEMMA ChosenStep == OrderInv /\ Chosen /\ [Next]_vars => Chosen'
<1> SUFFICES ASSUME OrderInv, Chosen, [Next]_vars PROVE Chosen'
  OBVIOUS
<1>1. CASE UNCHANGED vars
  BY <1>1 DEF vars, Chosen, Edges, Precedes
<1>2. CASE Next
  <2>1. PICK n \in Actions : Place(n)
    BY <1>2 DEF Next
  <2>2. /\ order \in Seq(Actions)
        /\ dependsOn \in [Actions -> Seq(0 .. N)]
    BY DEF OrderInv, TypeOK
  <2>3. /\ \A other \in ready : Precedes(n, other)
        /\ order' = Append(order, n)
        /\ dependsOn' = dependsOn
        /\ role' = role
    BY <2>1 DEF Place
  <2>4. /\ Len(order') = Len(order) + 1
        /\ Len(order) \in Nat
        /\ order'[Len(order) + 1] = n
        /\ \A i \in 1 .. Len(order) : order'[i] = order[i]
        /\ DOMAIN order = 1 .. Len(order)
    BY <2>2, <2>3
  <2>5. \A i, t : Precedes(i, t)' <=> Precedes(i', t')
    BY <2>3 DEF Precedes
  <2>6. ASSUME NEW i \in 1 .. Len(order) + 1, NEW t \in Actions,
               \A k \in 1 .. i : order'[k] # t,
               \A e \in Edges(t, Actions) :
                 \E k \in 1 .. i - 1 : order'[k] = dependsOn[t][e]
        PROVE  Precedes(order'[i], t)
    <3>1. CASE i \in 1 .. Len(order)
      <4>1. \A k \in 1 .. i : order[k] # t
        BY <3>1, <2>4, <2>6
      <4>2. \A e \in Edges(t, Actions) :
              \E k \in 1 .. i - 1 : order[k] = dependsOn[t][e]
        BY <3>1, <2>4, <2>6
      <4>3. Precedes(order[i], t)
        BY Zenon, <4>1, <4>2, <3>1 DEF Chosen
      <4>4. QED
        BY Zenon, <4>3, <3>1, <2>4
    <3>2. CASE i = Len(order) + 1
      <4>1. t \in Unplaced
        BY <3>2, <2>4, <2>6 DEF Unplaced, Placed
      <4>2. \A e \in Edges(t, Actions) : dependsOn[t][e] \in Placed
        BY <3>2, <2>4, <2>6 DEF Placed
      <4>3. Edges(t, Unplaced) = {}
        BY <4>2 DEF Edges, Unplaced
      <4>4. indegree[t] = 0
        BY Zenon, <4>3, FS_EmptySet DEF OrderInv, Counted
      <4>5. t \in ready
        BY <4>1, <4>4 DEF OrderInv, Frontier
      <4>6. QED
        BY <4>5, <3>2, <2>3, <2>4
    <3>3. QED
      BY <3>1, <3>2, <2>4
  <2>7. \A t : Edges(t, Actions)' = Edges(t', Actions)
    BY <2>3 DEF Edges
  <2>8. QED
    BY <2>3, <2>4, <2>5, <2>6, <2>7 DEF Chosen
<1>3. QED
  BY <1>1, <1>2

\* A later rank outweighs every ordinal.
LEMMA RankOutweighs ==
  ASSUME NEW M \in Nat, NEW i \in 1 .. M, NEW j \in 1 .. M,
         NEW r \in 0 .. 4, NEW s \in 0 .. 4, r < s \/ (r = s /\ i <= j)
  PROVE  (M + 1) * r + i <= (M + 1) * s + j
<1>1. CASE r = s
  <2>1. i <= j
    BY <1>1
  <2>2. (M + 1) * r = (M + 1) * s /\ (M + 1) * s \in Int
    BY <1>1
  <2>3. QED
    BY <2>1, <2>2
<1>2. CASE r < s
  <2>1. PICK d \in 0 .. 3 : s = r + 1 + d
    <3>1. s - r - 1 \in 0 .. 3 /\ s = r + 1 + (s - r - 1)
      BY <1>2
    <3>2. QED
      BY <3>1
  <2>2. (M + 1) * s = (M + 1) * r + (M + 1) + (M + 1) * d
    BY <2>1
  <2>3. (M + 1) * d >= 0 /\ (M + 1) * d \in Int /\ (M + 1) * r \in Int
    <3>1. d = 0 \/ d = 1 \/ d = 2 \/ d = 3
      BY <2>1
    <3>2. QED
      BY <3>1
  <2>4. QED
    BY <2>2, <2>3
<1>3. QED
  BY <1>1, <1>2

\* The key the frontier is sorted by agrees with the comparison.
LEMMA KeyOrder ==
  ASSUME role \in [Actions -> Roles], NEW i \in Actions, NEW j \in Actions,
         Precedes(i, j)
  PROVE  (N + 1) * RoleRank[role[i]] + i <= (N + 1) * RoleRank[role[j]] + j
<1>0. RoleRank[role[i]] \in 0 .. 4 /\ RoleRank[role[j]] \in 0 .. 4
  <2>1. /\ role[i] \in {"prepare", "mutate", "verify", "recover", "cleanup"}
        /\ role[j] \in {"prepare", "mutate", "verify", "recover", "cleanup"}
    BY Zenon, OrderAssumption
  <2>2. \A x \in {"prepare", "mutate", "verify", "recover", "cleanup"} :
          RoleRank[x] \in 0 .. 4
    BY DEF RoleRank
  <2>3. QED
    BY Zenon, <2>1, <2>2
<1>1. PICK r \in 0 .. 4 : r = RoleRank[role[i]]
  BY Zenon, <1>0
<1>2. PICK s \in 0 .. 4 : s = RoleRank[role[j]]
  BY Zenon, <1>0
<1>3. N \in Nat /\ i \in 1 .. N /\ j \in 1 .. N
  BY OrderAssumption DEF Actions
<1>4. r < s \/ (r = s /\ i <= j)
  BY Zenon, <1>1, <1>2 DEF Precedes
<1>5. (N + 1) * r + i <= (N + 1) * s + j
  BY <1>3, <1>4, RankOutweighs
<1>6. QED
  BY Zenon, <1>1, <1>2, <1>5

\* No action stands behind one of a later role or ordinal unless a dependency
\* kept it there: the order is the earliest the dependencies allow.
THEOREM OrderIsEarliest == Spec => []EarliestRole
<1>1. Init => Chosen
  BY DEF Init, Chosen
<1>2. OrderInv /\ Chosen => EarliestRole
  <2> SUFFICES ASSUME OrderInv, Chosen,
                      NEW i \in 1 .. Len(order), NEW j \in 1 .. Len(order), i < j,
                      (N + 1) * RoleRank[role[order[j]]] + order[j]
                        < (N + 1) * RoleRank[role[order[i]]] + order[i],
                      \A k \in i .. j - 1 : Edges(order[j], {order[k]}) = {}
               PROVE  FALSE
    BY Zenon DEF EarliestRole
  <2>1. /\ order \in Seq(Actions) /\ role \in [Actions -> Roles]
        /\ order[i] \in Actions /\ order[j] \in Actions /\ Len(order) \in Nat
    BY DEF OrderInv, TypeOK
  <2>2. \A k \in 1 .. i : order[k] # order[j]
    BY <2>1 DEF OrderInv, PlacedOnce
  <2>3. ASSUME NEW e \in Edges(order[j], Actions)
        PROVE  \E k \in 1 .. i - 1 : order[k] = dependsOn[order[j]][e]
    <3>1. PICK k \in 1 .. j - 1 : order[k] = dependsOn[order[j]][e]
      BY Zenon DEF OrderInv, DependenciesFirst
    <3>2. e \in Edges(order[j], {order[k]})
      BY <3>1 DEF Edges
    <3>3. k \notin i .. j - 1
      BY <3>2
    <3>4. QED
      BY <3>1, <3>3
  <2>4. Precedes(order[i], order[j])
    BY Zenon, <2>1, <2>2, <2>3 DEF Chosen
  <2>5. (N + 1) * RoleRank[role[order[i]]] + order[i]
          <= (N + 1) * RoleRank[role[order[j]]] + order[j]
    BY <2>1, <2>4, KeyOrder
  <2>6. RoleRank[role[order[i]]] \in Nat /\ RoleRank[role[order[j]]] \in Nat
    BY <2>1, OrderAssumption DEF RoleRank
  <2>7. N \in Nat /\ order[i] \in Nat /\ order[j] \in Nat
    BY <2>1, OrderAssumption DEF Actions
  <2>8. QED
    BY <2>5, <2>6, <2>7
<1>3. QED
  BY <1>1, <1>2, OrderInit, OrderStep, ChosenStep, PTL DEF Spec
=============================================================================
