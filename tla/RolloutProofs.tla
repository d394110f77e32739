---------------------------- MODULE RolloutProofs ----------------------------
(***************************************************************************)
(* A run of a plan's actions over its targets is correct for every block   *)
(* of statements and every strategy.                                       *)
(*                                                                         *)
(* The first part is about data: what Strategy::waves and freeze_all       *)
(* compute.  Both are loops, recursive functions here, and the induction   *)
(* over them is a statement about sets of naturals: the ones for which the *)
(* claim holds.                                                            *)
(***************************************************************************)
EXTENDS Rollout, FiniteSetTheorems, WellFoundedInduction, TLAPS

-----------------------------------------------------------------------------
(* Induction over the naturals.                                            *)

\* A non-empty set of naturals has a least member.
LEMMA LeastOne ==
  ASSUME NEW T \in SUBSET Nat, T # {}
  PROVE  \E x \in T : \A y \in T : x <= y
<1> DEFINE R == OpToRel(<, Nat)
<1>1. IsWellFoundedOn(R, Nat)
  BY Zenon, NatLessThanWellFounded
<1> HIDE DEF R
<1>2. PICK x \in T : \A y \in T : ~ (<<y, x>> \in R)
  BY Zenon, <1>1, WFMin
<1>3. \A y \in T : ~ (y < x)
  BY Zenon, <1>2 DEF R, OpToRel
<1>4. QED
  BY <1>3

\* A set of naturals with zero and the successor of each of its members has
\* them all.
LEMMA AllNaturals ==
  ASSUME NEW S \in SUBSET Nat, 0 \in S, \A n \in S : n + 1 \in S
  PROVE  S = Nat
<1> SUFFICES ASSUME Nat \ S # {} PROVE FALSE
  BY Zenon
<1>1. PICK x \in Nat \ S : \A y \in Nat \ S : x <= y
  BY Zenon, LeastOne
<1>2. x # 0 /\ x - 1 \in Nat /\ ~(x <= x - 1)
  BY <1>1
<1>3. x - 1 \in S
  BY <1>1, <1>2
<1>4. (x - 1) + 1 = x
  BY <1>1
<1>5. QED
  BY <1>1, <1>3, <1>4

\* The smaller of two naturals.
LEMMA Smaller ==
  ASSUME NEW a \in Nat, NEW b \in Nat
  PROVE  /\ Min({a, b}) \in Nat
         /\ Min({a, b}) <= a /\ Min({a, b}) <= b
         /\ Min({a, b}) = a \/ Min({a, b}) = b
<1>1. \E x \in {a, b} : \A y \in {a, b} : x =< y
  <2>1. CASE a <= b
    BY <2>1
  <2>2. CASE b <= a
    BY <2>2
  <2>3. QED
    BY <2>1, <2>2
<1>2. Min({a, b}) \in {a, b} /\ \A y \in {a, b} : Min({a, b}) =< y
  BY <1>1 DEF Min
<1>3. QED
  BY <1>2

\* The least member of a non-empty set of naturals.
LEMMA SmallestOf ==
  ASSUME NEW S \in SUBSET Nat, S # {}
  PROVE  Min(S) \in S /\ \A y \in S : Min(S) <= y
<1>1. \E x \in S : \A y \in S : x =< y
  BY LeastOne
<1>2. QED
  BY Zenon, <1>1 DEF Min

-----------------------------------------------------------------------------
(* Strategy::waves.                                                        *)

WaveSet == [start : Nat, len : Nat, gated : BOOLEAN]

\* One turn of the loop of every strategy, from what the later turns give.
TileAt(f, s, count, size) ==
  IF s >= count THEN <<>>
  ELSE LET len == Min({size, count - s})
       IN  <<WaveOf(s, len, FALSE)>> \o f[s + len]

\* A turn only looks at what comes after its own wave.
LEMMA TileAgrees ==
  ASSUME NEW count \in Nat, NEW size \in Nat \ {0}, NEW s \in Nat, NEW f, NEW g,
         \A x \in Nat : x > s => f[x] = g[x]
  PROVE  TileAt(f, s, count, size) = TileAt(g, s, count, size)
<1>1. CASE s >= count
  BY <1>1 DEF TileAt
<1>2. CASE ~(s >= count)
  <2>1. count - s \in Nat /\ count - s > 0
    BY <1>2
  <2>2. Min({size, count - s}) \in Nat /\ Min({size, count - s}) > 0
    BY <2>1, Smaller
  <2>3. f[s + Min({size, count - s})] = g[s + Min({size, count - s})]
    BY <2>2
  <2>4. QED
    BY <2>3 DEF TileAt
<1>3. QED
  BY <1>1, <1>2

\* The loop ends: the recursion that models it has a solution.
LEMMA TilesDefined ==
  ASSUME NEW count \in Nat, NEW size \in Nat \ {0}
  PROVE  \E f : f = [s \in Nat |-> TileAt(f, s, count, size)]
<1> DEFINE Above(d) == {s \in Nat : s + d >= count}
           Solved == {d \in Nat : \E h : h = [s \in Above(d) |-> TileAt(h, s, count, size)]}
<1>1. 0 \in Solved
  <2> DEFINE h == [s \in Above(0) |-> <<>>]
  <2>1. \A s \in Above(0) : TileAt(h, s, count, size) = <<>>
    BY DEF TileAt
  <2>2. h = [s \in Above(0) |-> TileAt(h, s, count, size)]
    BY Zenon, <2>1
  <2>3. QED
    BY Zenon, <2>2
<1>2. ASSUME NEW d \in Solved PROVE d + 1 \in Solved
  <2>1. PICK h : h = [s \in Above(d) |-> TileAt(h, s, count, size)]
    OBVIOUS
  <2> DEFINE g == [s \in Above(d + 1) |-> IF s \in Above(d) THEN h[s]
                                          ELSE TileAt(h, s, count, size)]
  <2>2. Above(d) \subseteq Above(d + 1)
    OBVIOUS
  <2>3. ASSUME NEW s \in Above(d + 1) PROVE g[s] = TileAt(g, s, count, size)
    <3>1. \A x \in Nat : x > s => x \in Above(d)
      OBVIOUS
    <3>2. \A x \in Above(d) : h[x] = g[x]
      BY Zenon, <2>2
    <3>3. TileAt(h, s, count, size) = TileAt(g, s, count, size)
      <4> HIDE DEF g, Above
      <4>1. s \in Nat
        BY DEF Above
      <4>2. QED
        BY <4>1, <3>1, <3>2, TileAgrees
    <3>4. g[s] = TileAt(h, s, count, size)
      <4>1. CASE s \in Above(d)
        <5>1. g[s] = h[s]
          BY Zenon, <4>1, <2>3
        <5>2. h[s] = TileAt(h, s, count, size)
          BY Zenon, <4>1, <2>1
        <5>3. QED
          BY Zenon, <5>1, <5>2
      <4>2. CASE s \notin Above(d)
        BY Zenon, <4>2, <2>3
      <4>3. QED
        BY Zenon, <4>1, <4>2
    <3>5. QED
      BY Zenon, <3>3, <3>4
  <2>4. g = [s \in Above(d + 1) |-> TileAt(g, s, count, size)]
    BY Zenon, <2>3
  <2>5. d + 1 \in Nat
    OBVIOUS
  <2>6. QED
    BY Zenon, <2>4, <2>5
<1>3. Solved = Nat
  <2> HIDE DEF Solved
  <2>1. Solved \in SUBSET Nat
    BY DEF Solved
  <2>2. QED
    BY Zenon, <2>1, <1>1, <1>2, AllNaturals
<1>4. Above(count) = Nat
  OBVIOUS
<1>5. QED
  BY Zenon, <1>3, <1>4

\* Tiles is such a solution, read where the loop starts.
LEMMA TilesSolve ==
  ASSUME NEW count \in Nat, NEW size \in Nat \ {0}
  PROVE  \E f : /\ f = [s \in Nat |-> TileAt(f, s, count, size)]
                /\ \A from \in Nat : Tiles(from, count, size) = f[from]
<1> DEFINE f == CHOOSE tile : tile = [s \in Nat |-> TileAt(tile, s, count, size)]
<1>1. f = [s \in Nat |-> TileAt(f, s, count, size)]
  BY Zenon, TilesDefined
<1>2. \A from : Tiles(from, count, size) = f[from]
  BY Zenon DEF Tiles, TileAt
<1>3. QED
  BY Zenon, <1>1, <1>2

\* What a wave covers, as indices of the targets.
Covers(w) == w.start + 1 .. w.start + w.len

\* A sequence of waves over the targets from the s-th on: none empty, each where
\* the one before it ends, the last where the targets end.
Tiling(w, s, count) ==
  /\ w \in Seq(WaveSet)
  /\ w = <<>> <=> s >= count
  /\ w # <<>> => w[1].start = s
  /\ \A i \in 1 .. Len(w) :
       w[i].len > 0 /\ w[i].start >= s /\ w[i].start + w[i].len <= count
  /\ \A i \in 1 .. Len(w) :
       w[i].start + w[i].len = IF i < Len(w) THEN w[i + 1].start ELSE count
  /\ \A i, j \in 1 .. Len(w) : i < j => w[i].start + w[i].len <= w[j].start
  /\ \A x \in s + 1 .. count : \E i \in 1 .. Len(w) : x \in Covers(w[i])

\* The fields of a wave.
LEMMA WaveFields ==
  ASSUME NEW w \in WaveSet
  PROVE  w.start \in Nat /\ w.len \in Nat /\ w.gated \in BOOLEAN
BY DEF WaveSet

\* A wave before a tiling of the rest is a tiling.
LEMMA OneMoreWave ==
  ASSUME NEW count \in Nat, NEW s \in Nat, s < count, NEW len \in Nat, len > 0,
         s + len <= count, NEW gated \in BOOLEAN, NEW v, Tiling(v, s + len, count)
  PROVE  Tiling(<<WaveOf(s, len, gated)>> \o v, s, count)
<1> DEFINE a == WaveOf(s, len, gated)
           w == <<a>> \o v
<1>1. a \in WaveSet /\ a.start = s /\ a.len = len
  BY DEF WaveOf, WaveSet
<1>2. v \in Seq(WaveSet) /\ Len(v) \in Nat
  BY DEF Tiling
<1> HIDE DEF a
<1>3. /\ w \in Seq(WaveSet) /\ Len(w) = Len(v) + 1 /\ w[1] = a /\ w # <<>>
      /\ \A i \in 2 .. Len(w) : i - 1 \in 1 .. Len(v) /\ w[i] = v[i - 1]
  BY <1>1, <1>2
<1> HIDE DEF w
<1>4. \A i \in 1 .. Len(v) : v[i] \in WaveSet /\ v[i].start \in Nat /\ v[i].len \in Nat
  <2> TAKE i \in 1 .. Len(v)
  <2>1. v[i] \in WaveSet
    BY <1>2
  <2>2. QED
    BY <2>1, WaveFields
<1>5. \A i \in 1 .. Len(v) :
        v[i].len > 0 /\ v[i].start >= s + len /\ v[i].start + v[i].len <= count
  BY DEF Tiling
<1>6. \A i \in 1 .. Len(w) : i = 1 \/ i \in 2 .. Len(w)
  BY <1>2, <1>3
<1>7. \A i \in 1 .. Len(w) :
        w[i].len > 0 /\ w[i].start >= s /\ w[i].start + w[i].len <= count
  <2> TAKE i \in 1 .. Len(w)
  <2>1. CASE i = 1
    BY <2>1, <1>1, <1>3
  <2>2. CASE i \in 2 .. Len(w)
    <3>1. i - 1 \in 1 .. Len(v) /\ w[i] = v[i - 1]
      BY <2>2, <1>3
    <3>2. /\ v[i - 1].len > 0 /\ v[i - 1].start >= s + len
          /\ v[i - 1].start + v[i - 1].len <= count /\ v[i - 1].start \in Nat
      BY <3>1, <1>4, <1>5
    <3>3. QED
      BY <3>1, <3>2
  <2>3. QED
    BY <2>1, <2>2, <1>6
<1>8. \A i \in 1 .. Len(w) :
        w[i].start + w[i].len = IF i < Len(w) THEN w[i + 1].start ELSE count
  <2> TAKE i \in 1 .. Len(w)
  <2>1. CASE i = 1 /\ v = <<>>
    <3>1. Len(w) = 1 /\ s + len >= count
      BY <2>1, <1>3 DEF Tiling
    <3>2. QED
      BY <3>1, <2>1, <1>1, <1>3
  <2>2. CASE i = 1 /\ v # <<>>
    <3>1. v[1].start = s + len
      BY <2>2 DEF Tiling
    <3>2. Len(v) > 0 /\ Len(w) > 1 /\ w[2] = v[1]
      BY <2>2, <1>2, <1>3
    <3>3. QED
      BY <3>1, <3>2, <2>2, <1>1, <1>3
  <2>3. CASE i \in 2 .. Len(w)
    <3>1. PICK k \in 1 .. Len(v) : i = k + 1
      BY <2>3, <1>2, <1>3
    <3>2. w[i] = v[k]
      BY <3>1, <2>3, <1>3
    <3>3. v[k].start + v[k].len = IF k < Len(v) THEN v[k + 1].start ELSE count
      BY Zenon, <3>1 DEF Tiling
    <3>4. CASE k < Len(v)
      <4>1. i < Len(w) /\ i + 1 \in 2 .. Len(w) /\ (i + 1) - 1 = k + 1
        BY <3>1, <3>4, <1>2, <1>3
      <4>2. w[i + 1] = v[k + 1]
        BY <4>1, <1>3
      <4>3. QED
        BY <4>1, <4>2, <3>2, <3>3, <3>4
    <3>5. CASE ~(k < Len(v))
      <4>1. ~(i < Len(w))
        BY <3>1, <3>5, <1>2, <1>3
      <4>2. QED
        BY <4>1, <3>2, <3>3, <3>5
    <3>6. QED
      BY <3>4, <3>5
  <2>4. QED
    BY <2>1, <2>2, <2>3, <1>6
<1>9. \A i, j \in 1 .. Len(w) : i < j => w[i].start + w[i].len <= w[j].start
  <2> SUFFICES ASSUME NEW i \in 1 .. Len(w), NEW j \in 1 .. Len(w), i < j
               PROVE  w[i].start + w[i].len <= w[j].start
    OBVIOUS
  <2>1. j \in 2 .. Len(w) /\ j - 1 \in 1 .. Len(v) /\ w[j] = v[j - 1]
    BY <1>2, <1>3
  <2>2. CASE i = 1
    BY <2>1, <2>2, <1>1, <1>3, <1>5
  <2>3. CASE i \in 2 .. Len(w)
    <3>1. i - 1 \in 1 .. Len(v) /\ w[i] = v[i - 1] /\ i - 1 < j - 1
      BY <2>1, <2>3, <1>3
    <3>2. \A p, q \in 1 .. Len(v) : p < q => v[p].start + v[p].len <= v[q].start
      BY DEF Tiling
    <3>3. QED
      BY <3>1, <3>2, <2>1
  <2>4. QED
    BY <2>2, <2>3, <1>6
<1>10. \A x \in s + 1 .. count : \E i \in 1 .. Len(w) : x \in Covers(w[i])
  <2> TAKE x \in s + 1 .. count
  <2>1. CASE x <= s + len
    <3>1. x \in Covers(w[1]) /\ 1 \in 1 .. Len(w)
      BY <2>1, <1>1, <1>2, <1>3 DEF Covers
    <3>2. QED
      BY <3>1
  <2>2. CASE ~(x <= s + len)
    <3>1. x \in (s + len) + 1 .. count
      BY <2>2
    <3>2. PICK k \in 1 .. Len(v) : x \in Covers(v[k])
      BY <3>1 DEF Tiling
    <3>3. k + 1 \in 2 .. Len(w) /\ k + 1 \in 1 .. Len(w) /\ (k + 1) - 1 = k
      BY <1>2, <1>3
    <3>4. w[k + 1] = v[k]
      BY <3>3, <1>3
    <3>5. QED
      BY <3>2, <3>3, <3>4
  <2>3. QED
    BY <2>1, <2>2
<1>11. w = <<>> <=> s >= count
  BY <1>3
<1>12. w[1].start = s
  BY <1>1, <1>3
<1>13. Tiling(w, s, count)
  BY Zenon, <1>3, <1>7, <1>8, <1>9, <1>10, <1>11, <1>12 DEF Tiling
<1>14. QED
  BY <1>13 DEF w, a

\* None is wider than the strategy's bound, and none is gated.
Narrow(w, size) == \A i \in 1 .. Len(w) : w[i].len <= size /\ w[i].gated = FALSE

\* A wave and the rest, one by one.
LEMMA FirstAndRest ==
  ASSUME NEW v \in Seq(WaveSet), NEW a \in WaveSet, NEW w, w = <<a>> \o v
  PROVE  /\ w[1] = a /\ Len(w) = Len(v) + 1
         /\ \A i \in 2 .. Len(w) : i - 1 \in 1 .. Len(v) /\ w[i] = v[i - 1]
OBVIOUS

\* The loop of every strategy tiles the targets it is given.
LEMMA TilesTile ==
  ASSUME NEW count \in Nat, NEW size \in Nat \ {0}, NEW from \in Nat
  PROVE  /\ Tiling(Tiles(from, count, size), from, count)
         /\ Narrow(Tiles(from, count, size), size)
<1>1. PICK f : /\ f = [s \in Nat |-> TileAt(f, s, count, size)]
               /\ \A s \in Nat : Tiles(s, count, size) = f[s]
  BY TilesSolve
<1>2. \A s \in Nat : f[s] = TileAt(f, s, count, size)
  BY Zenon, <1>1
<1> DEFINE Good == {d \in Nat : \A s \in Nat : s + d >= count =>
                                  Tiling(f[s], s, count) /\ Narrow(f[s], size)}
<1>3. ASSUME NEW s \in Nat, s >= count
      PROVE  Tiling(f[s], s, count) /\ Narrow(f[s], size)
  <2>1. f[s] = <<>>
    BY Zenon, <1>2, <1>3 DEF TileAt
  <2>2. <<>> \in Seq(WaveSet) /\ Len(<<>>) = 0
    OBVIOUS
  <2>3. Tiling(<<>>, s, count)
    BY <2>2, <1>3 DEF Tiling
  <2>4. Narrow(<<>>, size)
    BY <2>2 DEF Narrow
  <2>5. QED
    BY Zenon, <2>1, <2>3, <2>4
<1>4. 0 \in Good
  <2>1. \A s \in Nat : s + 0 >= count => s >= count
    OBVIOUS
  <2>2. QED
    BY Zenon, <2>1, <1>3
<1>5. ASSUME NEW d \in Good PROVE d + 1 \in Good
  <2>1. ASSUME NEW s \in Nat, s + (d + 1) >= count
        PROVE  Tiling(f[s], s, count) /\ Narrow(f[s], size)
    <3>1. CASE s >= count
      BY <3>1, <1>3
    <3>2. CASE ~(s >= count)
      <4>1. count - s \in Nat /\ count - s > 0
        BY <3>2
      <4>2. PICK len \in Nat : len = Min({size, count - s}) /\ len > 0
                                 /\ len <= size /\ len <= count - s
        BY <4>1, Smaller
      <4>3. f[s] = <<WaveOf(s, len, FALSE)>> \o f[s + len]
        BY Zenon, <1>2, <3>2, <4>2 DEF TileAt
      <4>4. s + len \in Nat /\ (s + len) + d >= count /\ s < count /\ s + len <= count
        BY <2>1, <3>2, <4>2
      <4>5. Tiling(f[s + len], s + len, count) /\ Narrow(f[s + len], size)
        BY <4>4
      <4>6. Tiling(f[s], s, count)
        BY Zenon, <4>2, <4>3, <4>4, <4>5, OneMoreWave
      <4>7. Narrow(f[s], size)
        <5> DEFINE a == WaveOf(s, len, FALSE)
        <5>1. a \in WaveSet /\ a.len = len /\ a.gated = FALSE
          BY <4>2 DEF WaveOf, WaveSet
        <5>2. f[s + len] \in Seq(WaveSet)
          BY <4>5 DEF Tiling
        <5>3. f[s] = <<a>> \o f[s + len]
          BY <4>3
        <5> HIDE DEF a
        <5>4. /\ f[s][1] = a /\ Len(f[s]) = Len(f[s + len]) + 1
              /\ \A i \in 2 .. Len(f[s]) :
                   i - 1 \in 1 .. Len(f[s + len]) /\ f[s][i] = f[s + len][i - 1]
          BY <5>1, <5>2, <5>3, FirstAndRest
        <5>5. \A i \in 1 .. Len(f[s]) : i = 1 \/ i \in 2 .. Len(f[s])
          BY <5>2, <5>4
        <5>6. QED
          BY Zenon, <5>1, <5>4, <5>5, <4>2, <4>5 DEF Narrow
      <4>8. QED
        BY <4>6, <4>7
    <3>3. QED
      BY <3>1, <3>2
  <2>2. QED
    BY <2>1
<1>6. Good = Nat
  <2> HIDE DEF Good
  <2>1. Good \in SUBSET Nat
    BY DEF Good
  <2>2. QED
    BY Zenon, <2>1, <1>4, <1>5, AllNaturals
<1>7. count \in Good
  BY Zenon, <1>6
<1>8. Tiling(f[from], from, count) /\ Narrow(f[from], size)
  <2>1. from + count >= count
    OBVIOUS
  <2>2. QED
    BY Zenon, <2>1, <1>7
<1>9. QED
  BY Zenon, <1>1, <1>8

Strategy == [kind : {"sequential", "batch", "parallel", "canary"},
             size : Nat, canary : Nat]

\* The bound of a wave: the canary's for the first of a canary, the size's else.
Width(s, i) == AtLeastOne(IF s.kind = "canary" /\ i = 1 THEN s.canary ELSE s.size)

\* A bound of zero is read as one.
LEMMA PositiveWidth ==
  ASSUME NEW n \in Nat
  PROVE  AtLeastOne(n) \in Nat \ {0}
BY DEF AtLeastOne

\* Strategy::waves gives a tiling for every strategy and every count, no wave
\* wider than its bound, the first of a canary gated.
LEMMA WavesTile ==
  ASSUME NEW s \in Strategy, NEW count \in Nat
  PROVE  /\ Tiling(Waves(s, count), 0, count)
         /\ \A i \in 1 .. Len(Waves(s, count)) : Waves(s, count)[i].len <= Width(s, i)
         /\ s.kind = "canary" /\ count > 0 => Waves(s, count)[1].gated = TRUE
         /\ \A i \in 2 .. Len(Waves(s, count)) : Waves(s, count)[i].gated = FALSE
<1>1. s.size \in Nat /\ s.canary \in Nat
  BY DEF Strategy
<1>2. AtLeastOne(s.size) \in Nat \ {0} /\ AtLeastOne(s.canary) \in Nat \ {0}
  BY <1>1, PositiveWidth
<1>3. CASE s.kind = "canary" /\ count > 0
  <2>1. PICK len \in Nat : len = Min({AtLeastOne(s.canary), count}) /\ len > 0
                             /\ len <= AtLeastOne(s.canary) /\ len <= count
    BY <1>2, <1>3, Smaller
  <2> DEFINE a == WaveOf(0, len, TRUE)
             v == Tiles(len, count, AtLeastOne(s.size))
  <2>2. Waves(s, count) = <<a>> \o v
    BY Zenon, <1>3, <2>1 DEF Waves
  <2>3. Tiling(v, 0 + len, count) /\ Narrow(v, AtLeastOne(s.size))
    BY <1>2, <2>1, TilesTile
  <2>4. a \in WaveSet /\ a.len = len /\ a.gated = TRUE
    BY <2>1 DEF WaveOf, WaveSet
  <2>5. Tiling(Waves(s, count), 0, count)
    <3> HIDE DEF v
    <3>1. 0 < count /\ 0 + len <= count /\ 0 \in Nat
      BY <1>3, <2>1
    <3>2. QED
      BY Zenon, <3>1, <2>1, <2>2, <2>3, OneMoreWave
  <2>6. v \in Seq(WaveSet)
    BY <2>3 DEF Tiling
  <2> HIDE DEF a, v
  <2> DEFINE w == Waves(s, count)
  <2>7. /\ w[1] = a /\ Len(w) = Len(v) + 1
        /\ \A i \in 2 .. Len(w) : i - 1 \in 1 .. Len(v) /\ w[i] = v[i - 1]
    BY <2>2, <2>4, <2>6, FirstAndRest
  <2> HIDE DEF w
  <2>8. \A i \in 1 .. Len(w) : i = 1 \/ (i # 1 /\ i \in 2 .. Len(w))
    BY <2>6, <2>7
  <2>9. ASSUME NEW i \in 1 .. Len(w) PROVE w[i].len <= Width(s, i)
    <3>1. CASE i = 1
      <4>1. Width(s, i) = AtLeastOne(s.canary)
        BY Zenon, <3>1, <1>3 DEF Width
      <4>2. QED
        BY Zenon, <4>1, <3>1, <2>1, <2>4, <2>7
    <3>2. CASE i # 1 /\ i \in 2 .. Len(w)
      <4>1. Width(s, i) = AtLeastOne(s.size)
        BY Zenon, <3>2 DEF Width
      <4>2. QED
        BY Zenon, <4>1, <3>2, <2>3, <2>7 DEF Narrow
    <3>3. QED
      BY Zenon, <3>1, <3>2, <2>8
  <2>10. \A i \in 2 .. Len(w) : w[i].gated = FALSE
    BY Zenon, <2>3, <2>7 DEF Narrow
  <2>11. QED
    BY Zenon, <2>4, <2>5, <2>7, <2>9, <2>10 DEF w
<1>4. CASE ~(s.kind = "canary" /\ count > 0)
  <2>1. Waves(s, count) = Tiles(0, count, AtLeastOne(s.size))
    BY Zenon, <1>4 DEF Waves
  <2>2. /\ Tiling(Waves(s, count), 0, count)
        /\ Narrow(Waves(s, count), AtLeastOne(s.size))
    BY <1>2, <2>1, TilesTile
  <2>3. CASE s.kind = "canary"
    <3>1. 0 >= count
      BY <1>4, <2>3
    <3>2. Waves(s, count) = <<>>
      BY Zenon, <3>1, <2>2 DEF Tiling
    <3>3. Len(Waves(s, count)) = 0
      BY <3>2
    <3>4. (1 .. Len(Waves(s, count))) = {} /\ (2 .. Len(Waves(s, count))) = {}
      BY <3>3
    <3>5. QED
      BY Zenon, <3>4, <2>2, <1>4
  <2>4. CASE s.kind # "canary"
    <3>1. \A i : Width(s, i) = AtLeastOne(s.size)
      BY Zenon, <2>4 DEF Width
    <3>2. \A i \in 2 .. Len(Waves(s, count)) : i \in 1 .. Len(Waves(s, count))
      OBVIOUS
    <3>3. QED
      BY Zenon, <3>1, <3>2, <2>2, <2>4 DEF Narrow
  <2>5. QED
    BY Zenon, <2>3, <2>4
<1>5. QED
  BY Zenon, <1>3, <1>4

-----------------------------------------------------------------------------
(* freeze_all.                                                             *)

\* One turn of the loop, from what the turn before it left.
SeenAt(f, n, objects) ==
  IF n = 0 THEN <<>>
  ELSE IF objects[n] \in Range(f[n - 1]) THEN f[n - 1]
  ELSE Append(f[n - 1], objects[n])

\* The recursion that models the loop has a solution.
LEMMA FrozenDefined ==
  ASSUME NEW objects, NEW length \in Nat
  PROVE  \E f : f = [n \in 0 .. length |-> SeenAt(f, n, objects)]
<1> DEFINE Solved == {m \in Nat : \E h : h = [n \in 0 .. m |-> SeenAt(h, n, objects)]}
<1>1. 0 \in Solved
  <2> DEFINE h == [n \in 0 .. 0 |-> <<>>]
  <2>1. \A n \in 0 .. 0 : SeenAt(h, n, objects) = <<>>
    BY DEF SeenAt
  <2>2. h = [n \in 0 .. 0 |-> SeenAt(h, n, objects)]
    BY Zenon, <2>1
  <2>3. QED
    BY <2>2
<1>2. ASSUME NEW m \in Solved PROVE m + 1 \in Solved
  <2>1. PICK h : h = [n \in 0 .. m |-> SeenAt(h, n, objects)]
    OBVIOUS
  <2> DEFINE g == [n \in 0 .. m + 1 |-> IF n \in 0 .. m THEN h[n]
                                        ELSE SeenAt(h, n, objects)]
  <2>2. m \in Nat /\ m + 1 \in Nat /\ 0 .. m \subseteq 0 .. m + 1
    OBVIOUS
  <2>3. ASSUME NEW n \in 0 .. m + 1 PROVE g[n] = SeenAt(g, n, objects)
    <3>1. n = 0 \/ n - 1 \in 0 .. m
      BY <2>2
    <3>2. \A x \in 0 .. m : h[x] = g[x]
      BY Zenon, <2>2
    <3>3. SeenAt(h, n, objects) = SeenAt(g, n, objects)
      <4> HIDE DEF g
      <4>1. CASE n = 0
        BY Zenon, <4>1 DEF SeenAt
      <4>2. CASE n # 0
        <5>1. h[n - 1] = g[n - 1]
          BY Zenon, <4>2, <3>1, <3>2
        <5>2. QED
          BY Zenon, <5>1 DEF SeenAt
      <4>3. QED
        BY Zenon, <4>1, <4>2
    <3>4. g[n] = SeenAt(h, n, objects)
      <4>1. CASE n \in 0 .. m
        <5>1. g[n] = h[n]
          BY Zenon, <4>1, <2>3
        <5>2. h[n] = SeenAt(h, n, objects)
          BY Zenon, <4>1, <2>1
        <5>3. QED
          BY Zenon, <5>1, <5>2
      <4>2. CASE n \notin 0 .. m
        BY Zenon, <4>2, <2>3
      <4>3. QED
        BY Zenon, <4>1, <4>2
    <3>5. QED
      BY Zenon, <3>3, <3>4
  <2>4. g = [n \in 0 .. m + 1 |-> SeenAt(g, n, objects)]
    BY Zenon, <2>3
  <2>5. QED
    BY Zenon, <2>2, <2>4
<1>3. Solved = Nat
  <2> HIDE DEF Solved
  <2>1. Solved \in SUBSET Nat
    BY DEF Solved
  <2>2. QED
    BY Zenon, <2>1, <1>1, <1>2, AllNaturals
<1>4. QED
  BY Zenon, <1>3

\* A sequence without repetitions of the first n objects.
Distinct(h, n, objects) ==
  /\ h \in Seq(Objects)
  /\ \A i, j \in 1 .. Len(h) : h[i] = h[j] => i = j
  /\ \A i \in 1 .. Len(h) : \E k \in 1 .. n : h[i] = objects[k]
  /\ \A k \in 1 .. n : \E i \in 1 .. Len(h) : h[i] = objects[k]

\* The frozen targets are the objects of the block, each once.
LEMMA FrozenDistinct ==
  ASSUME NEW objects \in Seq(Objects)
  PROVE  Distinct(Frozen(objects), Len(objects), objects)
<1> DEFINE f == CHOOSE seen : seen = [n \in 0 .. Len(objects) |-> SeenAt(seen, n, objects)]
<1>0. Len(objects) \in Nat
  OBVIOUS
<1>1. f = [n \in 0 .. Len(objects) |-> SeenAt(f, n, objects)]
  BY Zenon, <1>0, FrozenDefined
<1>2. Frozen(objects) = f[Len(objects)]
  BY Zenon DEF Frozen, SeenAt
<1> HIDE DEF f
<1>3. \A n \in 0 .. Len(objects) : f[n] = SeenAt(f, n, objects)
  BY Zenon, <1>1
<1> DEFINE Good == {n \in Nat : n <= Len(objects) => Distinct(f[n], n, objects)}
<1>4. 0 \in Good
  <2>1. 0 \in 0 .. Len(objects)
    BY <1>0
  <2>2. f[0] = <<>>
    BY Zenon, <2>1, <1>3 DEF SeenAt
  <2>3. <<>> \in Seq(Objects) /\ Len(<<>>) = 0
    OBVIOUS
  <2>4. Distinct(<<>>, 0, objects)
    BY <2>3 DEF Distinct
  <2>5. QED
    BY <2>2, <2>4
<1>5. ASSUME NEW n \in Good PROVE n + 1 \in Good
  <2> SUFFICES ASSUME n + 1 <= Len(objects) PROVE Distinct(f[n + 1], n + 1, objects)
    OBVIOUS
  <2>1. n \in Nat /\ n + 1 \in 0 .. Len(objects) /\ n + 1 # 0 /\ (n + 1) - 1 = n
    BY <1>0
  <2>2. Distinct(f[n], n, objects)
    BY <1>0
  <2>3. f[n + 1] = IF objects[n + 1] \in Range(f[n]) THEN f[n]
                   ELSE Append(f[n], objects[n + 1])
    BY Zenon, <2>1, <1>3 DEF SeenAt
  <2>4. PICK h : h = f[n]
    OBVIOUS
  <2>5. /\ h \in Seq(Objects) /\ Len(h) \in Nat
        /\ \A i, j \in 1 .. Len(h) : h[i] = h[j] => i = j
        /\ \A i \in 1 .. Len(h) : \E k \in 1 .. n : h[i] = objects[k]
        /\ \A k \in 1 .. n : \E i \in 1 .. Len(h) : h[i] = objects[k]
    BY <2>2, <2>4 DEF Distinct
  <2>6. Range(h) = {h[i] : i \in 1 .. Len(h)}
    BY <2>5 DEF Range
  <2>7. objects[n + 1] \in Objects
    BY <2>1
  <2>8. \A k \in 1 .. n + 1 : k \in 1 .. n \/ k = n + 1
    BY <2>1
  <2>9. 1 .. n \subseteq 1 .. n + 1 /\ n + 1 \in 1 .. n + 1
    BY <2>1
  <2>10. CASE objects[n + 1] \in Range(h)
    <3>1. PICK i \in 1 .. Len(h) : h[i] = objects[n + 1]
      BY Zenon, <2>6, <2>10
    <3>2. \A k \in 1 .. n + 1 : \E j \in 1 .. Len(h) : h[j] = objects[k]
      BY Zenon, <3>1, <2>5, <2>8
    <3>3. \A j \in 1 .. Len(h) : \E k \in 1 .. n + 1 : h[j] = objects[k]
      BY Zenon, <2>5, <2>9
    <3>4. Distinct(h, n + 1, objects)
      BY Zenon, <3>2, <3>3, <2>5 DEF Distinct
    <3>5. QED
      BY Zenon, <3>4, <2>3, <2>4, <2>10
  <2>11. CASE objects[n + 1] \notin Range(h)
    <3> DEFINE e == objects[n + 1]
               g == Append(h, e)
    <3>1. f[n + 1] = g
      BY Zenon, <2>3, <2>4, <2>11
    <3>2. /\ g \in Seq(Objects) /\ Len(g) = Len(h) + 1
          /\ \A i \in 1 .. Len(h) : g[i] = h[i]
          /\ g[Len(h) + 1] = e
      BY <2>5, <2>7
    <3>3. \A i \in 1 .. Len(h) : h[i] # e
      BY Zenon, <2>6, <2>11
    <3> HIDE DEF g, e
    <3>4. \A i \in 1 .. Len(g) : i \in 1 .. Len(h) \/ i = Len(h) + 1
      BY <3>2, <2>5
    <3>5. ASSUME NEW i \in 1 .. Len(g), NEW j \in 1 .. Len(g), g[i] = g[j]
          PROVE  i = j
      <4>1. CASE i \in 1 .. Len(h) /\ j \in 1 .. Len(h)
        BY Zenon, <4>1, <3>2, <3>5, <2>5
      <4>2. CASE i = Len(h) + 1 /\ j \in 1 .. Len(h)
        BY Zenon, <4>2, <3>2, <3>3, <3>5
      <4>3. CASE j = Len(h) + 1 /\ i \in 1 .. Len(h)
        BY Zenon, <4>3, <3>2, <3>3, <3>5
      <4>4. QED
        BY Zenon, <4>1, <4>2, <4>3, <3>4
    <3>6. ASSUME NEW i \in 1 .. Len(g)
          PROVE  \E k \in 1 .. n + 1 : g[i] = objects[k]
      <4>1. CASE i \in 1 .. Len(h)
        <5>1. PICK k \in 1 .. n : h[i] = objects[k]
          BY Zenon, <4>1, <2>5
        <5>2. QED
          BY Zenon, <5>1, <4>1, <3>2, <2>9
      <4>2. CASE i = Len(h) + 1
        BY Zenon, <4>2, <3>2, <2>9 DEF e
      <4>3. QED
        BY Zenon, <4>1, <4>2, <3>4
    <3>7. Len(h) + 1 \in 1 .. Len(g) /\ \A i \in 1 .. Len(h) : i \in 1 .. Len(g)
      BY <3>2, <2>5
    <3>8. ASSUME NEW k \in 1 .. n + 1
          PROVE  \E i \in 1 .. Len(g) : g[i] = objects[k]
      <4>1. CASE k \in 1 .. n
        <5>1. PICK i \in 1 .. Len(h) : h[i] = objects[k]
          BY Zenon, <4>1, <2>5
        <5>2. QED
          BY Zenon, <5>1, <3>2, <3>7
      <4>2. CASE k = n + 1
        BY Zenon, <4>2, <3>2, <3>7 DEF e
      <4>3. QED
        BY Zenon, <4>1, <4>2, <2>8
    <3>9. Distinct(g, n + 1, objects)
      BY Zenon, <3>2, <3>5, <3>6, <3>8 DEF Distinct
    <3>10. QED
      BY Zenon, <3>1, <3>9
  <2>12. QED
    BY Zenon, <2>10, <2>11
<1>6. Good = Nat
  <2> HIDE DEF Good
  <2>1. Good \in SUBSET Nat
    BY DEF Good
  <2>2. QED
    BY Zenon, <2>1, <1>4, <1>5, AllNaturals
<1>7. Len(objects) \in Good
  BY Zenon, <1>0, <1>6
<1>8. Len(objects) <= Len(objects)
  BY <1>0
<1>9. QED
  BY Zenon, <1>2, <1>7, <1>8

-----------------------------------------------------------------------------
(* The invariant of a run.                                                 *)

Status == {"skipped", "succeeded", "failed", "unknown"}
Result == [target : Objects, status : Status]

\* The plan, which no step changes.
PlanInv ==
  /\ block \in Seq(Objects) /\ block # <<>>
  /\ strategy \in Strategy
  /\ Distinct(targets, Len(block), block)
  /\ Tiling(waves, 0, Len(targets))
  /\ \A i \in 1 .. Len(waves) : waves[i].len <= Width(strategy, i)
  /\ strategy.kind = "canary" => waves[1].gated = TRUE
  /\ \A i \in 2 .. Len(waves) : waves[i].gated = FALSE
  /\ prior \subseteq 1 .. Len(block)

Start == waves[wave].start

\* The results are those of the first targets of the wave, in order.
PlaceInv ==
  /\ results \in Seq(Result)
  /\ Len(results) <= waves[wave].len
  /\ \A k \in 1 .. Len(results) : results[k].target = targets[Start + k]
  /\ phase = "target" => Len(results) = (at - Start) - 1
  /\ phase = "wave" /\ stop # "not-started" => Len(results) = at - Start

\* A submission that failed is among the results of its wave.
StopInv ==
  /\ phase = "target" =>
       /\ stop \in {"failed", "unknown"} => status = stop
       /\ status \in {"failed", "unknown"} => stop = status
       /\ stop = "not-started" => status = "skipped"
  /\ phase = "wave" /\ stop \in {"failed", "unknown"} => WaveStops
  /\ phase = "gate" => stop \notin {"failed", "unknown"} /\ wave = 1

\* Nothing ran after a failure, and nothing against a target after the one in
\* hand.
LogInv ==
  /\ StopsAtOnce
  /\ stop = "none" => \A i \in 1 .. Len(log) : log[i].outcome = "succeeded"
  /\ \A i \in 1 .. Len(log) : \E k \in 1 .. at : targets[k] = block[log[i].action]

\* No wave after the canary's without the gate's consent.
GateInv == strategy.kind = "canary" /\ verdict # "verified" => wave = 1

\* How many targets the account has named.
Accounted == IF phase = "gate" THEN WaveEnd
             ELSE IF phase = "done" THEN Len(targets) ELSE Start

\* Each of them is named once, and no other.
AccountInv ==
  \A t \in Objects : touched[t] + untouched[t] = Between(t, 1, Accounted)

\* What is named as touched was run against, what is not was not.
RanInv ==
  /\ \A t \in Objects : touched[t] > 0 => Ran(t, RanNow \cup prior)
  /\ \A k \in 1 .. Len(results) :
       results[k].status # "skipped" => Ran(results[k].target, RanNow \cup prior)
  /\ phase = "target" /\ status # "skipped" => Ran(Target, RanNow \cup prior)
  /\ stop # "not-started" =>
       /\ \A t \in Objects : untouched[t] > 0 => ~Ran(t, RanNow)
       /\ \A k \in 1 .. Len(results) :
            results[k].status = "skipped" => ~Ran(results[k].target, RanNow)
       /\ phase = "target" /\ status = "skipped" => ~Ran(Target, RanNow)

RunInv ==
  /\ PlanInv /\ TypeOK /\ PlaceInv /\ StopInv /\ LogInv /\ GateInv
  /\ AccountInv /\ RanInv

-----------------------------------------------------------------------------

\* The sequences of a plan.
LEMMA PlanFacts ==
  ASSUME PlanInv
  PROVE  /\ block \in Seq(Objects) /\ Len(block) \in Nat /\ Len(block) > 0
         /\ targets \in Seq(Objects) /\ Len(targets) \in Nat /\ Len(targets) > 0
         /\ waves \in Seq(WaveSet) /\ Len(waves) \in Nat /\ Len(waves) > 0
         /\ waves[1].start = 0
         /\ \A i \in 1 .. Len(targets) : targets[i] \in Objects
         /\ \A i, j \in 1 .. Len(targets) : targets[i] = targets[j] => i = j
<1>1. block \in Seq(Objects) /\ Len(block) \in Nat /\ Len(block) > 0
  BY DEF PlanInv
<1>2. /\ targets \in Seq(Objects)
      /\ \A i, j \in 1 .. Len(targets) : targets[i] = targets[j] => i = j
      /\ \A k \in 1 .. Len(block) : \E i \in 1 .. Len(targets) : targets[i] = block[k]
  BY Zenon DEF PlanInv, Distinct
<1>3. Len(targets) \in Nat /\ \A i \in 1 .. Len(targets) : targets[i] \in Objects
  BY <1>2
<1>4. 1 \in 1 .. Len(block)
  BY <1>1
<1>5. Len(targets) > 0
  <2>1. PICK i \in 1 .. Len(targets) : TRUE
    BY Zenon, <1>2, <1>4
  <2>2. QED
    BY <2>1, <1>3
<1>6. /\ waves \in Seq(WaveSet)
      /\ waves = <<>> <=> 0 >= Len(targets)
      /\ waves # <<>> => waves[1].start = 0
  BY Zenon DEF PlanInv, Tiling
<1>7. waves # <<>>
  BY <1>3, <1>5, <1>6
<1>8. QED
  BY <1>1, <1>2, <1>3, <1>5, <1>6, <1>7

\* A wave of a plan.
LEMMA WaveFacts ==
  ASSUME PlanInv, NEW w \in 1 .. Len(waves)
  PROVE  /\ waves[w].start \in Nat /\ waves[w].len \in Nat /\ waves[w].len > 0
         /\ waves[w].gated \in BOOLEAN
         /\ waves[w].start + waves[w].len <= Len(targets)
         /\ waves[w].start + waves[w].len =
              IF w < Len(waves) THEN waves[w + 1].start ELSE Len(targets)
<1>1. waves[w] \in WaveSet
  BY PlanFacts
<1>2. waves[w].start \in Nat /\ waves[w].len \in Nat /\ waves[w].gated \in BOOLEAN
  BY <1>1, WaveFields
<1>3. QED
  BY Zenon, <1>2 DEF PlanInv, Tiling

\* The wave and the target in hand.
LEMMA InHandFacts ==
  ASSUME PlanInv, TypeOK
  PROVE  /\ wave \in 1 .. Len(waves) /\ wave \in Nat
         /\ Start \in Nat /\ waves[wave].len \in Nat
         /\ WaveEnd = Start + waves[wave].len /\ WaveEnd \in Nat
         /\ WaveEnd > Start /\ WaveEnd <= Len(targets)
         /\ at \in Nat /\ at > Start /\ at <= WaveEnd
         /\ at \in 1 .. Len(targets) /\ Target = targets[at] /\ Target \in Objects
<1>1. wave \in 1 .. Len(waves) /\ at \in waves[wave].start + 1 .. WaveEnd
  BY DEF TypeOK
<1>2. /\ waves[wave].start \in Nat /\ waves[wave].len \in Nat /\ waves[wave].len > 0
      /\ waves[wave].start + waves[wave].len <= Len(targets)
  BY <1>1, WaveFacts
<1>3. Len(targets) \in Nat /\ \A i \in 1 .. Len(targets) : targets[i] \in Objects
  BY PlanFacts
<1>4. Start = waves[wave].start /\ WaveEnd = waves[wave].start + waves[wave].len
  BY Zenon DEF Start, WaveEnd
<1>5. /\ at \in 1 .. Len(targets) /\ at \in Nat /\ at > Start /\ at <= WaveEnd
      /\ WaveEnd \in Nat /\ WaveEnd > Start /\ WaveEnd <= Len(targets)
  BY <1>1, <1>2, <1>3, <1>4
<1>6. Target = targets[at] /\ Target \in Objects
  BY Zenon, <1>3, <1>5 DEF Target
<1>7. wave \in Nat
  BY <1>1, PlanFacts
<1>8. QED
  BY Zenon, <1>1, <1>2, <1>4, <1>5, <1>6, <1>7

\* The action in hand is one of the target's.
LEMMA ActionFacts ==
  ASSUME PlanInv, TypeOK, InHand
  PROVE  /\ Action \in 1 .. Len(block) /\ Action + 1 \in 1 .. Len(block) + 1
         /\ block[Action] = Target /\ stop = "none"
<1>1. Len(block) \in Nat /\ next \in 1 .. Len(block) + 1
  BY PlanFacts DEF TypeOK
<1>2. Covered \in SUBSET Nat /\ Covered # {}
  BY <1>1 DEF Covered, InHand
<1>3. Min(Covered) \in Covered
  BY Zenon, <1>2, SmallestOf
<1>4. Action \in next .. Len(block) /\ block[Action] = Target
  BY Zenon, <1>3 DEF Action, Covered
<1>5. QED
  BY <1>1, <1>4 DEF InHand

\* No step changes the plan.
LEMMA PlanKept == PlanInv /\ UNCHANGED planVars => PlanInv'
BY Zenon DEF PlanInv, planVars

\* Targets whose indices differ, differ.
LEMMA ApartFrom ==
  ASSUME PlanInv, NEW i \in 1 .. Len(targets), NEW j \in 1 .. Len(targets), i # j
  PROVE  targets[i] # targets[j]
BY Zenon, PlanFacts

\* Nothing has run against the targets after the one in hand.
LEMMA LaterIdle ==
  ASSUME PlanInv, TypeOK, LogInv, NEW k \in 1 .. Len(targets), k > at
  PROVE  ~Ran(targets[k], RanNow)
<1> SUFFICES ASSUME NEW i \in 1 .. Len(log), block[log[i].action] = targets[k]
             PROVE  FALSE
  BY Zenon DEF Ran, RanNow
<1>1. PICK j \in 1 .. at : targets[j] = block[log[i].action]
  BY Zenon DEF LogInv
<1>2. j \in 1 .. Len(targets) /\ j # k
  BY InHandFacts, PlanFacts
<1>3. QED
  BY Zenon, <1>1, <1>2, ApartFrom

\* A set of naturals all of whose members are one number.
LEMMA OneOrNone ==
  ASSUME NEW S, \A i, j \in S : i = j
  PROVE  Cardinality(S) = IF S = {} THEN 0 ELSE 1
<1>1. CASE S = {}
  BY Zenon, <1>1, FS_EmptySet
<1>2. CASE S # {}
  <2>1. PICK k \in S : TRUE
    BY Zenon, <1>2
  <2>2. S = {k}
    BY Zenon, <2>1
  <2>3. QED
    BY Zenon, <1>2, <2>2, FS_Singleton
<1>3. QED
  BY Zenon, <1>1, <1>2

\* A target is named once among the frozen ones from first to last, or not.
LEMMA BetweenFacts ==
  ASSUME PlanInv, NEW first \in Nat, first > 0, NEW last \in Nat, last <= Len(targets),
         NEW t
  PROVE  Between(t, first, last) = IF \E k \in first .. last : targets[k] = t THEN 1 ELSE 0
<1> DEFINE S == {k \in first .. last : targets[k] = t}
<1>1. first .. last \subseteq 1 .. Len(targets)
  BY PlanFacts
<1>2. \A i, j \in S : i = j
  BY Zenon, <1>1, PlanFacts
<1>3. S = {} <=> ~\E k \in first .. last : targets[k] = t
  BY Zenon
<1>4. Between(t, first, last) = Cardinality(S)
  BY Zenon DEF Between
<1> HIDE DEF S
<1>5. QED
  BY Zenon, <1>2, <1>3, <1>4, OneOrNone

\* What the account has named as untouched is not the target in hand.
LEMMA NamedEarlier ==
  ASSUME PlanInv, TypeOK, AccountInv, phase = "target", NEW t \in Objects,
         touched[t] > 0 \/ untouched[t] > 0
  PROVE  t # Target
<1>1. touched[t] \in Nat /\ untouched[t] \in Nat
  BY DEF TypeOK
<1>2. touched[t] + untouched[t] # 0
  BY <1>1
<1>3. Accounted = Start
  BY Zenon DEF Accounted
<1>4. PICK k \in 1 .. Start : targets[k] = t
  <2>1. Between(t, 1, Start) # 0
    BY Zenon, <1>2, <1>3 DEF AccountInv
  <2>2. 1 \in Nat /\ 1 > 0 /\ Start \in Nat /\ Start <= Len(targets)
    BY InHandFacts, PlanFacts
  <2>3. QED
    BY Zenon, <2>1, <2>2, BetweenFacts
<1>5. k \in 1 .. Len(targets) /\ at \in 1 .. Len(targets) /\ k # at
  BY InHandFacts, PlanFacts
<1>6. QED
  BY Zenon, <1>4, <1>5, ApartFrom, InHandFacts

-----------------------------------------------------------------------------
(* The steps of a submission.                                              *)

\* The type invariant but for the variables a submission changes.
LEMMA TypedOtherwise ==
  ASSUME TypeOK, UNCHANGED <<planVars, wave, touched, untouched, verdict>>,
         log' \in Seq([action : 1 .. Len(block), outcome : {"succeeded", "failed", "unknown"}]),
         at' \in waves[wave].start + 1 .. WaveEnd, next' \in 1 .. Len(block) + 1,
         status' \in Status, stop' \in {"none", "failed", "unknown", "not-started"},
         phase' \in {"target", "wave", "gate", "done"}
  PROVE  TypeOK'
<1>1. /\ block' = block /\ waves' = waves /\ prior' = prior /\ wave' = wave
      /\ touched' = touched /\ untouched' = untouched /\ verdict' = verdict
  BY DEF planVars
<1>2. WaveEnd' = WaveEnd
  BY Zenon, <1>1 DEF WaveEnd
<1>3. QED
  BY Zenon, <1>1, <1>2 DEF TypeOK, Status

\* A resumed run passes over an action.
LEMMA PassStep == RunInv /\ Pass => RunInv'
<1> SUFFICES ASSUME RunInv, Pass PROVE RunInv'
  OBVIOUS
<1>1. PlanInv /\ TypeOK /\ PlaceInv /\ StopInv /\ LogInv /\ GateInv /\ AccountInv /\ RanInv
  BY Zenon DEF RunInv
<1>2. /\ phase = "target" /\ InHand /\ Action \in prior
      /\ status' = "succeeded" /\ next' = Action + 1
      /\ UNCHANGED <<planVars, log, wave, at, stop, results, touched, untouched,
                     verdict, phase>>
  BY Zenon DEF Pass
<1>3. /\ block' = block /\ strategy' = strategy /\ targets' = targets
      /\ waves' = waves /\ prior' = prior /\ log' = log /\ wave' = wave /\ at' = at
      /\ stop' = stop /\ results' = results /\ touched' = touched
      /\ untouched' = untouched /\ verdict' = verdict /\ phase' = phase
  BY Zenon, <1>2 DEF planVars
<1>4. /\ Action \in 1 .. Len(block) /\ Action + 1 \in 1 .. Len(block) + 1
      /\ block[Action] = Target /\ stop = "none"
  BY Zenon, <1>1, <1>2, ActionFacts
<1>5. PlanInv'
  BY Zenon, <1>1, <1>2, PlanKept
<1>6. TypeOK'
  BY Zenon, <1>1, <1>2, <1>3, <1>4, TypedOtherwise DEF TypeOK, Status
<1>7. Start' = Start /\ WaveEnd' = WaveEnd /\ Target' = Target /\ RanNow' = RanNow
  BY Zenon, <1>3 DEF Start, WaveEnd, Target, RanNow
<1>8. PlaceInv'
  BY Zenon, <1>1, <1>3, <1>7 DEF PlaceInv
<1>9. StopInv'
  BY <1>2, <1>3, <1>4 DEF StopInv
<1>10. LogInv' /\ GateInv'
  BY Zenon, <1>1, <1>3 DEF LogInv, GateInv, StopsAtOnce
<1>11. AccountInv'
  BY Zenon, <1>1, <1>3, <1>7 DEF AccountInv, Accounted, Between
<1>12. Ran(Target, RanNow \cup prior)
  BY Zenon, <1>2, <1>4 DEF Ran
<1>13. RanInv'
  <2>1. \A t, S : Ran(t, S)' <=> Ran(t', S')
    BY Zenon, <1>3 DEF Ran
  <2>2. status' # "skipped"
    BY <1>2
  <2>3. QED
    BY Zenon, <1>1, <1>3, <1>7, <1>12, <2>1, <2>2 DEF RanInv
<1>14. QED
  BY Zenon, <1>5, <1>6, <1>8, <1>9, <1>10, <1>11, <1>13 DEF RunInv

\* An action is carried out and settles.
LEMMA CarryOutStep == RunInv /\ CarryOut => RunInv'
<1> SUFFICES ASSUME RunInv, CarryOut PROVE RunInv'
  OBVIOUS
<1>1. PlanInv /\ TypeOK /\ PlaceInv /\ StopInv /\ LogInv /\ GateInv /\ AccountInv /\ RanInv
  BY Zenon DEF RunInv
<1>2. /\ phase = "target" /\ InHand
      /\ status' \in {"succeeded", "failed", "unknown"}
      /\ log' = Append(log, [action |-> Action, outcome |-> status'])
      /\ stop' = IF status' = "succeeded" THEN "none" ELSE status'
      /\ next' = Action + 1
      /\ UNCHANGED <<planVars, wave, at, results, touched, untouched, verdict, phase>>
  BY Zenon DEF CarryOut
<1>3. /\ block' = block /\ strategy' = strategy /\ targets' = targets
      /\ waves' = waves /\ prior' = prior /\ wave' = wave /\ at' = at
      /\ results' = results /\ touched' = touched
      /\ untouched' = untouched /\ verdict' = verdict /\ phase' = phase
  BY Zenon, <1>2 DEF planVars
<1>4. /\ Action \in 1 .. Len(block) /\ Action + 1 \in 1 .. Len(block) + 1
      /\ block[Action] = Target /\ stop = "none"
  BY Zenon, <1>1, <1>2, ActionFacts
<1> DEFINE E == [action : 1 .. Len(block), outcome : {"succeeded", "failed", "unknown"}]
           e == [action |-> Action, outcome |-> status']
<1>5. /\ e \in E /\ e.action = Action /\ e.outcome = status' /\ log \in Seq(E)
      /\ log' = Append(log, e)
  BY <1>1, <1>2, <1>4 DEF TypeOK
<1> HIDE DEF E, e
<1>6. /\ log' \in Seq(E) /\ Len(log) \in Nat /\ Len(log') = Len(log) + 1
      /\ \A i \in 1 .. Len(log) : log'[i] = log[i]
      /\ log'[Len(log) + 1] = e
      /\ \A i \in 1 .. Len(log') : i \in 1 .. Len(log) \/ i = Len(log) + 1
      /\ \A i \in 1 .. Len(log) : i \in 1 .. Len(log')
      /\ Len(log) + 1 \in 1 .. Len(log')
      /\ \A i \in 1 .. Len(log') : i < Len(log') => i \in 1 .. Len(log)
  BY <1>5
<1>7. PlanInv'
  BY Zenon, <1>1, <1>2, PlanKept
<1>8. TypeOK'
  <2>1. stop' \in {"none", "failed", "unknown", "not-started"} /\ status' \in Status
    BY <1>2 DEF Status
  <2>2. at' \in waves[wave].start + 1 .. WaveEnd
    BY Zenon, <1>1, <1>3 DEF TypeOK
  <2>3. phase' \in {"target", "wave", "gate", "done"}
    BY <1>2, <1>3
  <2>4. UNCHANGED <<planVars, wave, touched, untouched, verdict>>
    BY Zenon, <1>2
  <2>5. QED
    BY Zenon, <1>1, <1>2, <1>4, <1>6, <2>1, <2>2, <2>3, <2>4, TypedOtherwise DEF E
<1>9. Start' = Start /\ WaveEnd' = WaveEnd /\ Target' = Target
  BY Zenon, <1>3 DEF Start, WaveEnd, Target
<1>10. RanNow' = RanNow \cup {Action}
  <2>1. ASSUME NEW x \in RanNow' PROVE x \in RanNow \cup {Action}
    <3>1. PICK i \in 1 .. Len(log') : x = log'[i].action
      BY Zenon DEF RanNow
    <3>2. QED
      BY Zenon, <3>1, <1>5, <1>6 DEF RanNow
  <2>2. ASSUME NEW x \in RanNow PROVE x \in RanNow'
    <3>1. PICK i \in 1 .. Len(log) : x = log[i].action
      BY Zenon DEF RanNow
    <3>2. QED
      BY Zenon, <3>1, <1>6 DEF RanNow
  <2>3. Action \in RanNow'
    BY Zenon, <1>5, <1>6 DEF RanNow
  <2>4. QED
    BY Zenon, <2>1, <2>2, <2>3
<1>11. PlaceInv'
  BY Zenon, <1>1, <1>2, <1>3, <1>9 DEF PlaceInv
<1>12. StopInv'
  BY <1>2, <1>3 DEF StopInv
<1>13. LogInv'
  <2>1. \A i \in 1 .. Len(log) : log'[i].outcome = "succeeded"
    BY Zenon, <1>1, <1>4, <1>6 DEF LogInv
  <2>2. StopsAtOnce'
    BY Zenon, <2>1, <1>6 DEF StopsAtOnce
  <2>3. stop' = "none" => status' = "succeeded"
    BY <1>2
  <2>4. stop' = "none" => \A i \in 1 .. Len(log') : log'[i].outcome = "succeeded"
    BY Zenon, <2>1, <2>3, <1>5, <1>6
  <2>5. ASSUME NEW i \in 1 .. Len(log')
        PROVE  \E k \in 1 .. at : targets[k] = block[log'[i].action]
    <3>1. CASE i \in 1 .. Len(log)
      BY Zenon, <3>1, <1>1, <1>6 DEF LogInv
    <3>2. CASE i = Len(log) + 1
      <4>1. at \in 1 .. at
        BY <1>1, InHandFacts
      <4>2. targets[at] = block[log'[i].action]
        BY Zenon, <3>2, <1>4, <1>5, <1>6 DEF Target
      <4>3. QED
        BY Zenon, <4>1, <4>2
    <3>3. QED
      BY Zenon, <3>1, <3>2, <1>6
  <2>6. QED
    BY Zenon, <2>2, <2>4, <2>5, <1>3 DEF LogInv
<1>14. GateInv' /\ AccountInv'
  BY Zenon, <1>1, <1>3, <1>9 DEF GateInv, AccountInv, Accounted, Between
<1>15. RanInv'
  <2>1. \A t, S : Ran(t, S)' <=> Ran(t', S')
    BY Zenon, <1>3 DEF Ran
  <2>2. \A t : Ran(t, RanNow \cup prior) => Ran(t, RanNow' \cup prior)
    BY Zenon, <1>10 DEF Ran
  <2>3. \A t : t # Target => (Ran(t, RanNow') <=> Ran(t, RanNow))
    BY Zenon, <1>4, <1>10 DEF Ran
  <2>4. Ran(Target, RanNow' \cup prior)
    BY Zenon, <1>4, <1>10 DEF Ran
  <2>5. status' # "skipped" /\ stop # "not-started"
    BY <1>2, <1>4
  <2>6. ASSUME NEW t \in Objects, untouched[t] > 0 PROVE ~Ran(t, RanNow')
    <3>1. t # Target
      BY Zenon, <2>6, <1>1, <1>2, NamedEarlier
    <3>2. ~Ran(t, RanNow)
      BY Zenon, <2>5, <2>6, <1>1 DEF RanInv
    <3>3. QED
      BY Zenon, <3>1, <3>2, <2>3
  <2>7. ASSUME NEW k \in 1 .. Len(results), results[k].status = "skipped"
        PROVE  ~Ran(results[k].target, RanNow')
    <3>1. results[k].target = targets[Start + k] /\ Len(results) = (at - Start) - 1
      BY Zenon, <1>1, <1>2 DEF PlaceInv
    <3>2. Start + k \in 1 .. Len(targets) /\ at \in 1 .. Len(targets) /\ Start + k # at
      <4>1. /\ Start \in Nat /\ at \in Nat /\ at > Start /\ at \in 1 .. Len(targets)
            /\ Len(targets) \in Nat
        BY Zenon, <1>1, InHandFacts, PlanFacts
      <4>2. k \in 1 .. (at - Start) - 1
        BY Zenon, <3>1, <2>7
      <4>3. QED
        BY <4>1, <4>2
    <3>3. results[k].target # Target
      BY Zenon, <3>1, <3>2, <1>1, ApartFrom DEF Target
    <3>4. ~Ran(results[k].target, RanNow)
      BY Zenon, <2>5, <2>7, <1>1 DEF RanInv
    <3>5. QED
      BY Zenon, <3>3, <3>4, <2>3
  <2>8. QED
    BY Zenon, <1>1, <1>3, <1>9, <2>1, <2>2, <2>4, <2>5, <2>6, <2>7 DEF RanInv
<1>16. QED
  BY Zenon, <1>7, <1>8, <1>11, <1>12, <1>13, <1>14, <1>15 DEF RunInv

\* An action is not started.
LEMMA NotStartedStep == RunInv /\ NotStarted => RunInv'
<1> SUFFICES ASSUME RunInv, NotStarted PROVE RunInv'
  OBVIOUS
<1>1. PlanInv /\ TypeOK /\ PlaceInv /\ StopInv /\ LogInv /\ GateInv /\ AccountInv /\ RanInv
  BY Zenon DEF RunInv
<1>2. /\ phase = "target" /\ InHand
      /\ status' = "skipped" /\ stop' = "not-started"
      /\ UNCHANGED <<planVars, log, wave, at, next, results, touched, untouched,
                     verdict, phase>>
  BY Zenon DEF NotStarted
<1>3. /\ block' = block /\ strategy' = strategy /\ targets' = targets
      /\ waves' = waves /\ prior' = prior /\ log' = log /\ wave' = wave /\ at' = at
      /\ next' = next /\ results' = results /\ touched' = touched
      /\ untouched' = untouched /\ verdict' = verdict /\ phase' = phase
  BY Zenon, <1>2 DEF planVars
<1>4. PlanInv'
  BY Zenon, <1>1, <1>2, PlanKept
<1>5. TypeOK'
  <2>1. stop' \in {"none", "failed", "unknown", "not-started"} /\ status' \in Status
    BY <1>2 DEF Status
  <2>2. QED
    BY Zenon, <1>1, <1>2, <1>3, <2>1, TypedOtherwise DEF TypeOK
<1>6. Start' = Start /\ WaveEnd' = WaveEnd /\ Target' = Target /\ RanNow' = RanNow
  BY Zenon, <1>3 DEF Start, WaveEnd, Target, RanNow
<1>7. PlaceInv'
  <2>1. phase' # "wave"
    BY <1>2, <1>3
  <2>2. QED
    BY Zenon, <1>1, <1>3, <1>6, <2>1 DEF PlaceInv
<1>8. StopInv'
  BY <1>2, <1>3 DEF StopInv
<1>9. LogInv'
  <2>1. stop' # "none"
    BY <1>2
  <2>2. QED
    BY Zenon, <2>1, <1>1, <1>3 DEF LogInv, StopsAtOnce
<1>10. GateInv' /\ AccountInv'
  BY Zenon, <1>1, <1>3, <1>6 DEF GateInv, AccountInv, Accounted, Between
<1>11. RanInv'
  <2>1. \A t, S : Ran(t, S)' <=> Ran(t', S')
    BY Zenon, <1>3 DEF Ran
  <2>2. QED
    BY Zenon, <1>1, <1>2, <1>3, <1>6, <2>1 DEF RanInv
<1>12. QED
  BY Zenon, <1>4, <1>5, <1>7, <1>8, <1>9, <1>10, <1>11 DEF RunInv

\* A target is done.
LEMMA EndTargetStep == RunInv /\ EndTarget => RunInv'
<1> SUFFICES ASSUME RunInv, EndTarget PROVE RunInv'
  OBVIOUS
<1>1. PlanInv /\ TypeOK /\ PlaceInv /\ StopInv /\ LogInv /\ GateInv /\ AccountInv /\ RanInv
  BY Zenon DEF RunInv
<1> DEFINE r == [target |-> Target, status |-> status]
<1>2. /\ phase = "target"
      /\ results' = Append(results, r)
      /\ \/ /\ at < WaveEnd /\ stop = "none"
            /\ at' = at + 1 /\ next' = 1 /\ status' = "skipped" /\ phase' = phase
         \/ /\ ~(at < WaveEnd /\ stop = "none")
            /\ phase' = "wave" /\ at' = at /\ next' = next /\ status' = status
      /\ UNCHANGED <<planVars, log, wave, stop, touched, untouched, verdict>>
  BY Zenon DEF EndTarget
<1>3. /\ block' = block /\ strategy' = strategy /\ targets' = targets
      /\ waves' = waves /\ prior' = prior /\ log' = log /\ wave' = wave
      /\ stop' = stop /\ touched' = touched
      /\ untouched' = untouched /\ verdict' = verdict
  BY Zenon, <1>2 DEF planVars
<1>4. /\ Start \in Nat /\ waves[wave].len \in Nat /\ WaveEnd = Start + waves[wave].len
      /\ at \in Nat /\ at > Start /\ at <= WaveEnd /\ at \in 1 .. Len(targets)
      /\ WaveEnd <= Len(targets) /\ Len(targets) \in Nat
      /\ Target = targets[at] /\ Target \in Objects
  BY Zenon, <1>1, InHandFacts, PlanFacts
<1>5. /\ r \in Result /\ r.target = targets[at] /\ r.status = status
      /\ results \in Seq(Result)
  BY <1>1, <1>4 DEF Result, Status, TypeOK, PlaceInv
<1> HIDE DEF r
<1>6. Len(results) = (at - Start) - 1
  BY Zenon, <1>1, <1>2 DEF PlaceInv
<1>7. /\ results' \in Seq(Result) /\ Len(results') = at - Start
      /\ \A k \in 1 .. Len(results) : results'[k] = results[k]
      /\ results'[at - Start] = r
      /\ \A k \in 1 .. Len(results') : k \in 1 .. Len(results) \/ k = at - Start
      /\ \A k \in 1 .. Len(results) : k \in 1 .. Len(results')
      /\ at - Start \in 1 .. Len(results') /\ Start + (at - Start) = at
  <2>1. results' = Append(results, r)
    BY Zenon, <1>2
  <2>2. /\ results' \in Seq(Result) /\ Len(results') = Len(results) + 1
        /\ Len(results) \in Nat /\ results'[Len(results) + 1] = r
        /\ \A k \in 1 .. Len(results) : results'[k] = results[k]
    BY <2>1, <1>5
  <2>3. Len(results) + 1 = at - Start /\ at - Start \in Nat /\ Start + (at - Start) = at
    BY <2>2, <1>4, <1>6
  <2>4. QED
    BY <2>2, <2>3
<1>8. PlanInv'
  BY Zenon, <1>1, <1>2, PlanKept
<1>9. /\ at' \in Start + 1 .. WaveEnd /\ at' \in {at, at + 1} /\ at' >= at
      /\ phase' \in {"target", "wave"} /\ status' \in Status
      /\ next' \in 1 .. Len(block) + 1
  <2>1. next \in 1 .. Len(block) + 1 /\ status \in Status /\ Len(block) \in Nat
    BY Zenon, <1>1, PlanFacts DEF TypeOK, Status
  <2>2. \/ /\ at < WaveEnd /\ at' = at + 1 /\ next' = 1 /\ status' = "skipped"
           /\ phase' = "target"
        \/ /\ phase' = "wave" /\ at' = at /\ next' = next /\ status' = status
    BY Zenon, <1>2
  <2>3. at' \in Start + 1 .. WaveEnd /\ at' \in {at, at + 1} /\ at' >= at
    BY <2>2, <1>4, InHandFacts, <1>1
  <2>4. phase' \in {"target", "wave"} /\ status' \in Status
    BY Zenon, <2>1, <2>2 DEF Status
  <2>5. next' \in 1 .. Len(block) + 1
    BY <2>1, <2>2
  <2>6. QED
    BY Zenon, <2>3, <2>4, <2>5
<1>10. TypeOK'
  <2>1. phase' \in {"target", "wave", "gate", "done"}
    BY <1>9
  <2>2. at' \in waves[wave].start + 1 .. WaveEnd
    BY Zenon, <1>9 DEF Start
  <2>3. QED
    BY Zenon, <1>1, <1>2, <1>3, <1>9, <2>1, <2>2, TypedOtherwise DEF TypeOK
<1>11. Start' = Start /\ WaveEnd' = WaveEnd /\ RanNow' = RanNow
  BY Zenon, <1>3 DEF Start, WaveEnd, RanNow
<1>12. PlaceInv'
  <2>1. Len(results') <= waves[wave].len
    BY <1>4, <1>7
  <2>2. \A k \in 1 .. Len(results') : results'[k].target = targets[Start + k]
    BY Zenon, <1>1, <1>5, <1>7 DEF PlaceInv
  <2>3. phase' = "target" => Len(results') = (at' - Start) - 1
    BY <1>2, <1>4, <1>7
  <2>4. phase' = "wave" => Len(results') = at' - Start
    BY <1>2, <1>4, <1>7
  <2>5. QED
    BY Zenon, <2>1, <2>2, <2>3, <2>4, <1>3, <1>7, <1>11 DEF PlaceInv
<1>13. StopInv'
  <2>1. CASE phase' = "target"
    <3>1. stop' = "none" /\ status' = "skipped"
      BY <2>1, <1>2, <1>3
    <3>2. QED
      BY <3>1, <2>1 DEF StopInv
  <2>2. CASE phase' = "wave"
    <3>1. stop' \in {"failed", "unknown"} => r.status \in {"failed", "unknown"}
      BY Zenon, <1>1, <1>2, <1>3, <1>5 DEF StopInv
    <3>2. stop' \in {"failed", "unknown"} => WaveStops'
      BY Zenon, <3>1, <1>7 DEF WaveStops
    <3>3. phase' # "target" /\ phase' # "gate"
      BY <2>2
    <3>4. QED
      BY Zenon, <3>2, <3>3 DEF StopInv
  <2>3. QED
    BY <2>1, <2>2, <1>9
<1>14. LogInv'
  <2>1. 1 .. at \subseteq 1 .. at'
    BY <1>4, <1>9
  <2>2. QED
    BY Zenon, <2>1, <1>1, <1>3 DEF LogInv, StopsAtOnce
<1>15. GateInv'
  BY Zenon, <1>1, <1>3 DEF GateInv
<1>16. AccountInv'
  <2>1. phase # "gate" /\ phase # "done" /\ phase' # "gate" /\ phase' # "done"
    BY <1>2, <1>9
  <2>2. Accounted' = Start /\ Accounted = Start
    BY Zenon, <2>1, <1>11 DEF Accounted
  <2>3. QED
    BY Zenon, <2>2, <1>1, <1>3 DEF AccountInv, Between
<1>17. RanInv'
  <2>1. \A t, S : Ran(t, S)' <=> Ran(t', S')
    BY Zenon, <1>3 DEF Ran
  <2>2. \A k \in 1 .. Len(results') :
          results'[k].status # "skipped" => Ran(results'[k].target, RanNow \cup prior)
    BY Zenon, <1>1, <1>2, <1>4, <1>5, <1>7 DEF RanInv
  <2>3. stop # "not-started" =>
          \A k \in 1 .. Len(results') :
            results'[k].status = "skipped" => ~Ran(results'[k].target, RanNow)
    BY Zenon, <1>1, <1>2, <1>4, <1>5, <1>7 DEF RanInv
  <2>4. phase' = "target" => status' = "skipped" /\ ~Ran(Target', RanNow)
    <3> SUFFICES ASSUME phase' = "target" PROVE status' = "skipped" /\ ~Ran(Target', RanNow)
      OBVIOUS
    <3>1. at < WaveEnd /\ at' = at + 1 /\ status' = "skipped"
      BY <1>2
    <3>2. at + 1 \in 1 .. Len(targets) /\ at + 1 > at
      BY <3>1, <1>4
    <3>3. ~Ran(targets[at + 1], RanNow)
      BY Zenon, <3>2, <1>1, LaterIdle
    <3>4. QED
      BY Zenon, <3>1, <3>3, <1>3 DEF Target
  <2>5. QED
    BY Zenon, <1>1, <1>3, <1>11, <2>1, <2>2, <2>3, <2>4 DEF RanInv
<1>18. QED
  BY Zenon, <1>8, <1>10, <1>12, <1>13, <1>14, <1>15, <1>16, <1>17 DEF RunInv

-----------------------------------------------------------------------------
(* The account of a wave.                                                  *)

\* So is it among the results.
LEMMA SettledFacts ==
  ASSUME PlanInv, TypeOK, PlaceInv, NEW t, NEW statuses
  PROVE  SettledAt(t, statuses) =
           IF \E k \in 1 .. Len(results) :
                results[k].target = t /\ results[k].status \in statuses
           THEN 1 ELSE 0
<1> DEFINE S == {k \in 1 .. Len(results) :
                   results[k].target = t /\ results[k].status \in statuses}
<1>1. ASSUME NEW i \in S, NEW j \in S PROVE i = j
  <2>1. targets[Start + i] = targets[Start + j]
    BY Zenon DEF PlaceInv
  <2>2. /\ Len(results) \in Nat /\ Len(results) <= waves[wave].len
        /\ Start \in Nat /\ waves[wave].len \in Nat
        /\ Start + waves[wave].len <= Len(targets) /\ Len(targets) \in Nat
    <3>1. Len(results) \in Nat /\ Len(results) <= waves[wave].len
      BY DEF PlaceInv
    <3>2. QED
      BY Zenon, <3>1, InHandFacts, PlanFacts
  <2>3. Start + i \in 1 .. Len(targets) /\ Start + j \in 1 .. Len(targets)
    BY <2>2
  <2>4. Start + i = Start + j
    BY Zenon, <2>1, <2>3, PlanFacts
  <2>5. QED
    BY <2>2, <2>4
<1>2. S = {} <=> ~\E k \in 1 .. Len(results) :
                     results[k].target = t /\ results[k].status \in statuses
  BY Zenon
<1>3. SettledAt(t, statuses) = Cardinality(S)
  BY Zenon DEF SettledAt
<1> HIDE DEF S
<1>4. QED
  BY Zenon, <1>1, <1>2, <1>3, OneOrNone

\* The targets of a wave are named once by what it adds to the account, and no
\* other is; what it adds is true.
LEMMA WaveAccount ==
  ASSUME PlanInv, TypeOK, PlaceInv, LogInv, RanInv, phase = "wave", NEW t \in Objects
  PROVE  /\ TouchedInWave(t) \in Nat /\ UntouchedInWave(t) \in Nat
         /\ TouchedInWave(t) + UntouchedInWave(t) = Between(t, Start + 1, WaveEnd)
         /\ TouchedInWave(t) > 0 => Ran(t, RanNow \cup prior)
         /\ stop # "not-started" /\ UntouchedInWave(t) > 0 => ~Ran(t, RanNow)
<1>1. /\ Start \in Nat /\ waves[wave].len \in Nat /\ WaveEnd = Start + waves[wave].len
      /\ WaveEnd \in Nat /\ WaveEnd <= Len(targets) /\ Len(targets) \in Nat
      /\ at \in Nat /\ at > Start /\ at <= WaveEnd
  BY Zenon, InHandFacts, PlanFacts
<1>2. Len(results) \in Nat /\ Len(results) <= waves[wave].len
  BY DEF PlaceInv
<1>3. \A k \in 1 .. Len(results) :
        results[k].target = targets[Start + k] /\ results[k].status \in Status
  <2>1. \A k \in 1 .. Len(results) : results[k] \in Result
    BY DEF PlaceInv
  <2>2. \A x \in Result : x.status \in Status
    BY DEF Result
  <2>3. QED
    BY Zenon, <2>1, <2>2 DEF PlaceInv
<1>0. Slice(t) = Between(t, Start + 1, WaveEnd)
  BY Zenon DEF Slice, Start
<1>4. Slice(t) = IF \E k \in Start + 1 .. WaveEnd : targets[k] = t THEN 1 ELSE 0
  <2>1. Start + 1 \in Nat /\ Start + 1 > 0
    BY <1>1
  <2>2. QED
    BY <2>1, <1>0, <1>1, BetweenFacts
<1> DEFINE Ts == {"succeeded", "failed", "unknown"}
           Us == {"skipped"}
<1>5. /\ TouchedInWave(t) =
           IF \E k \in 1 .. Len(results) :
                results[k].target = t /\ results[k].status \in Ts THEN 1 ELSE 0
      /\ SettledAt(t, Us) =
           IF \E k \in 1 .. Len(results) :
                results[k].target = t /\ results[k].status \in Us THEN 1 ELSE 0
  BY Zenon, SettledFacts DEF TouchedInWave
<1>6. UntouchedInWave(t) = SettledAt(t, Us) + (IF t \in Reported THEN 0 ELSE Slice(t))
  BY Zenon DEF UntouchedInWave
<1>7. CASE t \in Reported
  <2>1. PICK k \in 1 .. Len(results) : results[k].target = t
    BY Zenon, <1>7 DEF Reported
  <2>2. \A j \in 1 .. Len(results) : results[j].target = t => j = k
    <3> SUFFICES ASSUME NEW j \in 1 .. Len(results), results[j].target = t
                 PROVE  j = k
      OBVIOUS
    <3>1. Start + j \in 1 .. Len(targets) /\ Start + k \in 1 .. Len(targets)
      BY <1>1, <1>2
    <3>2. targets[Start + j] = targets[Start + k]
      BY Zenon, <2>1, <1>3
    <3>3. Start + j = Start + k
      BY Zenon, <3>1, <3>2, PlanFacts
    <3>4. QED
      BY <3>3, <1>1, <1>2
  <2>3. Start + k \in Start + 1 .. WaveEnd /\ targets[Start + k] = t
    BY <2>1, <1>1, <1>2, <1>3
  <2>4. Slice(t) = 1 /\ \E j \in Start + 1 .. WaveEnd : targets[j] = t
    BY Zenon, <2>3, <1>4
  <2>5. UntouchedInWave(t) = SettledAt(t, Us) + 0
    BY Zenon, <1>6, <1>7
  <2>6. CASE results[k].status = "skipped"
    <3>1. TouchedInWave(t) = 0 /\ SettledAt(t, Us) = 1
      <4>1. results[k].status \notin Ts /\ results[k].status \in Us
        BY <2>6
      <4>2. QED
        BY Zenon, <4>1, <2>1, <2>2, <1>5
    <3>2. stop # "not-started" => ~Ran(t, RanNow)
      BY Zenon, <2>1, <2>6 DEF RanInv
    <3>3. TouchedInWave(t) = 0 /\ UntouchedInWave(t) = 1
      BY <3>1, <2>5
    <3>4. QED
      BY <3>2, <3>3, <2>4, <1>0
  <2>7. CASE results[k].status # "skipped"
    <3>1. TouchedInWave(t) = 1 /\ SettledAt(t, Us) = 0
      <4>1. results[k].status \in Ts /\ results[k].status \notin Us
        BY <2>7, <1>3 DEF Status
      <4>2. QED
        BY Zenon, <4>1, <2>1, <2>2, <1>5
    <3>2. Ran(t, RanNow \cup prior)
      BY Zenon, <2>1, <2>7 DEF RanInv
    <3>3. TouchedInWave(t) = 1 /\ UntouchedInWave(t) = 0
      BY <3>1, <2>5
    <3>4. QED
      BY <3>2, <3>3, <2>4, <1>0
  <2>8. QED
    BY Zenon, <2>6, <2>7
<1>8. CASE t \notin Reported
  <2>1. \A k \in 1 .. Len(results) : results[k].target # t
    BY Zenon, <1>8 DEF Reported
  <2>2. TouchedInWave(t) = 0 /\ SettledAt(t, Us) = 0
    BY Zenon, <2>1, <1>5
  <2>3. UntouchedInWave(t) = 0 + Slice(t)
    BY Zenon, <2>2, <1>6, <1>8
  <2>4. CASE \E k \in Start + 1 .. WaveEnd : targets[k] = t
    <3>1. PICK k \in Start + 1 .. WaveEnd : targets[k] = t
      BY Zenon, <2>4
    <3>2. Slice(t) = 1
      BY Zenon, <2>4, <1>4
    <3>3. ASSUME stop # "not-started" PROVE ~Ran(t, RanNow)
      <4>1. Len(results) = at - Start
        BY Zenon, <3>3 DEF PlaceInv
      <4>2. k > at
        <5> SUFFICES ASSUME k <= at PROVE FALSE
          BY <1>1
        <5>1. k - Start \in 1 .. Len(results) /\ Start + (k - Start) = k
          BY <4>1, <1>1
        <5>2. results[k - Start].target = t
          BY Zenon, <5>1, <3>1, <1>3
        <5>3. QED
          BY Zenon, <5>1, <5>2, <2>1
      <4>3. k \in 1 .. Len(targets)
        BY <1>1
      <4>4. QED
        BY Zenon, <4>2, <4>3, <3>1, LaterIdle
    <3>4. TouchedInWave(t) = 0 /\ UntouchedInWave(t) = 1
      BY <3>2, <2>2, <2>3
    <3>5. QED
      BY <3>2, <3>3, <3>4, <1>0
  <2>5. CASE ~\E k \in Start + 1 .. WaveEnd : targets[k] = t
    <3>1. Slice(t) = 0
      BY Zenon, <2>5, <1>4
    <3>2. TouchedInWave(t) = 0 /\ UntouchedInWave(t) = 0
      BY <3>1, <2>2, <2>3
    <3>3. QED
      BY <3>1, <3>2, <1>0
  <2>6. QED
    BY Zenon, <2>4, <2>5
<1>9. QED
  BY Zenon, <1>7, <1>8

\* The targets of the later waves are ones nothing ran against.
LEMMA RestAccount ==
  ASSUME PlanInv, TypeOK, LogInv, NEW t \in Objects
  PROVE  /\ Rest(t) \in Nat
         /\ Rest(t) > 0 => ~Ran(t, RanNow)
<1>1. /\ WaveEnd \in Nat /\ WaveEnd <= Len(targets) /\ Len(targets) \in Nat
      /\ at \in Nat /\ at <= WaveEnd
  BY Zenon, InHandFacts, PlanFacts
<1>2. WaveEnd + 1 \in Nat /\ WaveEnd + 1 > 0 /\ Len(targets) <= Len(targets)
  BY <1>1
<1>3. Rest(t) = IF \E k \in WaveEnd + 1 .. Len(targets) : targets[k] = t THEN 1 ELSE 0
  BY Zenon, <1>1, <1>2, BetweenFacts DEF Rest
<1>4. CASE \E k \in WaveEnd + 1 .. Len(targets) : targets[k] = t
  <2>1. PICK k \in WaveEnd + 1 .. Len(targets) : targets[k] = t
    BY Zenon, <1>4
  <2>2. k \in 1 .. Len(targets) /\ k > at
    BY <1>1
  <2>3. ~Ran(t, RanNow)
    BY Zenon, <2>1, <2>2, LaterIdle
  <2>4. Rest(t) = 1
    BY Zenon, <1>3, <1>4
  <2>5. QED
    BY <2>3, <2>4
<1>5. CASE ~\E k \in WaveEnd + 1 .. Len(targets) : targets[k] = t
  <2>1. Rest(t) = 0
    BY Zenon, <1>3, <1>5
  <2>2. QED
    BY <2>1
<1>6. QED
  BY Zenon, <1>4, <1>5

\* The targets up to an index and those between it and another.
LEMMA Adjacent ==
  ASSUME PlanInv, NEW m \in Nat, NEW n \in Nat, m <= n, n <= Len(targets), NEW t
  PROVE  /\ Between(t, 1, m) \in Nat /\ Between(t, m + 1, n) \in Nat
         /\ Between(t, 1, m) + Between(t, m + 1, n) = Between(t, 1, n)
<1>0. Len(targets) \in Nat
  BY Zenon, PlanFacts
<1>1. 1 \in Nat /\ 1 > 0 /\ m + 1 \in Nat /\ m + 1 > 0 /\ m <= Len(targets)
  BY <1>0
<1>2. /\ Between(t, 1, m) = IF \E k \in 1 .. m : targets[k] = t THEN 1 ELSE 0
      /\ Between(t, m + 1, n) = IF \E k \in m + 1 .. n : targets[k] = t THEN 1 ELSE 0
      /\ Between(t, 1, n) = IF \E k \in 1 .. n : targets[k] = t THEN 1 ELSE 0
  BY Zenon, <1>1, BetweenFacts
<1>3. \A k \in 1 .. n : k \in 1 .. m \/ k \in m + 1 .. n
  OBVIOUS
<1>4. \A k \in 1 .. m : k \in 1 .. n
  OBVIOUS
<1>5. \A k \in m + 1 .. n : k \in 1 .. n
  OBVIOUS
<1>6. \A i \in 1 .. m, j \in m + 1 .. n : targets[i] # targets[j]
  <2> TAKE i \in 1 .. m, j \in m + 1 .. n
  <2>1. i \in 1 .. Len(targets) /\ j \in 1 .. Len(targets) /\ i # j
    BY <1>0
  <2>2. QED
    BY Zenon, <2>1, ApartFrom
<1>7. \/ Between(t, 1, m) = 1 /\ Between(t, m + 1, n) = 0 /\ Between(t, 1, n) = 1
      \/ Between(t, 1, m) = 0 /\ Between(t, m + 1, n) = 1 /\ Between(t, 1, n) = 1
      \/ Between(t, 1, m) = 0 /\ Between(t, m + 1, n) = 0 /\ Between(t, 1, n) = 0
  BY Zenon, <1>2, <1>3, <1>4, <1>5, <1>6
<1>8. QED
  BY <1>7

\* What the account says once the wave has been added to it.
Added(t) == touched[t] + TouchedInWave(t)
Passed(t) == untouched[t] + UntouchedInWave(t)

LEMMA AddedFacts ==
  ASSUME RunInv, phase = "wave", NEW t \in Objects
  PROVE  /\ Added(t) \in Nat /\ Passed(t) \in Nat
         /\ Added(t) + Passed(t) = Between(t, 1, WaveEnd)
         /\ Added(t) > 0 => Ran(t, RanNow \cup prior)
         /\ stop # "not-started" /\ Passed(t) > 0 => ~Ran(t, RanNow)
<1>1. PlanInv /\ TypeOK /\ PlaceInv /\ LogInv /\ AccountInv /\ RanInv
  BY Zenon DEF RunInv
<1>2. touched[t] \in Nat /\ untouched[t] \in Nat
  BY <1>1 DEF TypeOK
<1>3. /\ TouchedInWave(t) \in Nat /\ UntouchedInWave(t) \in Nat
      /\ TouchedInWave(t) + UntouchedInWave(t) = Between(t, Start + 1, WaveEnd)
      /\ TouchedInWave(t) > 0 => Ran(t, RanNow \cup prior)
      /\ stop # "not-started" /\ UntouchedInWave(t) > 0 => ~Ran(t, RanNow)
  BY Zenon, <1>1, WaveAccount
<1>4. /\ Start \in Nat /\ WaveEnd \in Nat /\ WaveEnd > Start /\ WaveEnd <= Len(targets)
  BY Zenon, <1>1, InHandFacts
<1>5. touched[t] + untouched[t] = Between(t, 1, Start)
  <2>1. Accounted = Start
    BY Zenon DEF Accounted
  <2>2. QED
    BY Zenon, <2>1, <1>1 DEF AccountInv
<1>6. Added(t) \in Nat /\ Passed(t) \in Nat
  BY <1>2, <1>3 DEF Added, Passed
<1>7. Added(t) + Passed(t) =
        (touched[t] + untouched[t]) + (TouchedInWave(t) + UntouchedInWave(t))
  BY <1>2, <1>3 DEF Added, Passed
<1>8. Added(t) + Passed(t) = Between(t, 1, WaveEnd)
  <2>1. Start <= WaveEnd
    BY <1>4
  <2>2. Between(t, 1, Start) + Between(t, Start + 1, WaveEnd) = Between(t, 1, WaveEnd)
    BY Zenon, <2>1, <1>1, <1>4, Adjacent
  <2>3. QED
    BY Zenon, <2>2, <1>3, <1>5, <1>7
<1>9. Added(t) > 0 => touched[t] > 0 \/ TouchedInWave(t) > 0
  BY <1>2, <1>3 DEF Added
<1>10. Passed(t) > 0 => untouched[t] > 0 \/ UntouchedInWave(t) > 0
  BY <1>2, <1>3 DEF Passed
<1>11. QED
  BY Zenon, <1>1, <1>3, <1>6, <1>8, <1>9, <1>10 DEF RanInv

-----------------------------------------------------------------------------
(* The steps between the waves.                                            *)

\* A step that changes the account alone, and asks the gate or ends the run.
LEMMA Concluded ==
  ASSUME RunInv,
         UNCHANGED <<planVars, log, wave, at, next, status, stop, results>>,
         touched' \in [Objects -> Nat], untouched' \in [Objects -> Nat],
         verdict' \in {"none", "verified", "degraded", "failed"},
         \/ phase' = "gate" /\ stop \notin {"failed", "unknown"} /\ wave = 1
         \/ phase' = "done",
         strategy.kind = "canary" /\ verdict' # "verified" => wave = 1,
         \A t \in Objects :
           /\ touched'[t] + untouched'[t] =
                Between(t, 1, IF phase' = "gate" THEN WaveEnd ELSE Len(targets))
           /\ touched'[t] > 0 => Ran(t, RanNow \cup prior)
           /\ stop # "not-started" /\ untouched'[t] > 0 => ~Ran(t, RanNow)
  PROVE  RunInv'
<1>1. PlanInv /\ TypeOK /\ PlaceInv /\ StopInv /\ LogInv /\ RanInv
  BY Zenon DEF RunInv
<1>2. /\ block' = block /\ strategy' = strategy /\ targets' = targets
      /\ waves' = waves /\ prior' = prior /\ log' = log /\ wave' = wave
      /\ at' = at /\ next' = next /\ status' = status /\ stop' = stop
      /\ results' = results
  BY Zenon DEF planVars
<1>3. UNCHANGED planVars
  BY Zenon
<1>4. PlanInv'
  BY Zenon, <1>1, <1>3, PlanKept
<1>5. Start' = Start /\ WaveEnd' = WaveEnd /\ RanNow' = RanNow
  BY Zenon, <1>2 DEF Start, WaveEnd, RanNow
<1>6. phase' \in {"target", "wave", "gate", "done"} /\ phase' # "target" /\ phase' # "wave"
  OBVIOUS
<1>7. TypeOK'
  BY Zenon, <1>1, <1>2, <1>5, <1>6 DEF TypeOK
<1>8. PlaceInv'
  BY Zenon, <1>1, <1>2, <1>5, <1>6 DEF PlaceInv
<1>9. StopInv'
  <2>1. phase' = "gate" => stop' \notin {"failed", "unknown"} /\ wave' = 1
    BY <1>2
  <2>2. QED
    BY Zenon, <2>1, <1>6 DEF StopInv
<1>10. LogInv' /\ GateInv'
  BY Zenon, <1>1, <1>2 DEF LogInv, StopsAtOnce, GateInv
<1>11. AccountInv'
  <2>1. Accounted' = IF phase' = "gate" THEN WaveEnd ELSE Len(targets)
    <3>1. CASE phase' = "gate"
      BY Zenon, <3>1, <1>5 DEF Accounted
    <3>2. CASE phase' = "done"
      <4>1. phase' # "gate"
        BY <3>2
      <4>2. QED
        BY Zenon, <3>2, <4>1, <1>2 DEF Accounted
    <3>3. QED
      BY Zenon, <3>1, <3>2
  <2>2. \A t, m, n : Between(t, m, n)' = Between(t', m', n')
    BY Zenon, <1>2 DEF Between
  <2>3. QED
    BY Zenon, <2>1, <2>2 DEF AccountInv
<1>12. RanInv'
  <2>1. \A t, S : Ran(t, S)' <=> Ran(t', S')
    BY Zenon, <1>2 DEF Ran
  <2>2. QED
    BY Zenon, <2>1, <1>1, <1>2, <1>5, <1>6 DEF RanInv
<1>13. QED
  BY Zenon, <1>4, <1>7, <1>8, <1>9, <1>10, <1>11, <1>12 DEF RunInv

\* A wave that stops the run.
LEMMA StopAtWaveStep == RunInv /\ StopAtWave => RunInv'
<1> SUFFICES ASSUME RunInv, StopAtWave PROVE RunInv'
  OBVIOUS
<1>1. PlanInv /\ TypeOK /\ LogInv /\ GateInv
  BY Zenon DEF RunInv
<1>2. /\ phase = "wave" /\ phase' = "done"
      /\ touched' = [t \in Objects |-> Added(t)]
      /\ untouched' = [t \in Objects |-> Passed(t) + Rest(t)]
      /\ UNCHANGED <<planVars, log, wave, at, next, status, stop, results, verdict>>
  BY Zenon DEF StopAtWave, Added, Passed
<1>3. ASSUME NEW t \in Objects
      PROVE  /\ Added(t) \in Nat /\ Passed(t) + Rest(t) \in Nat
             /\ Added(t) + (Passed(t) + Rest(t)) = Between(t, 1, Len(targets))
             /\ Added(t) > 0 => Ran(t, RanNow \cup prior)
             /\ stop # "not-started" /\ Passed(t) + Rest(t) > 0 => ~Ran(t, RanNow)
  <2>1. /\ Added(t) \in Nat /\ Passed(t) \in Nat
        /\ Added(t) + Passed(t) = Between(t, 1, WaveEnd)
        /\ Added(t) > 0 => Ran(t, RanNow \cup prior)
        /\ stop # "not-started" /\ Passed(t) > 0 => ~Ran(t, RanNow)
    BY Zenon, <1>2, AddedFacts
  <2>2. Rest(t) \in Nat /\ (Rest(t) > 0 => ~Ran(t, RanNow))
    BY Zenon, <1>1, RestAccount
  <2>3. Rest(t) = Between(t, WaveEnd + 1, Len(targets))
    BY Zenon DEF Rest
  <2>4. WaveEnd \in Nat /\ Len(targets) \in Nat /\ WaveEnd <= Len(targets)
    BY Zenon, <1>1, InHandFacts, PlanFacts
  <2>5. Len(targets) <= Len(targets)
    BY <2>4
  <2>6. Between(t, 1, WaveEnd) + Between(t, WaveEnd + 1, Len(targets))
          = Between(t, 1, Len(targets))
    BY Zenon, <1>1, <2>4, <2>5, Adjacent
  <2>7. Added(t) + (Passed(t) + Rest(t)) = (Added(t) + Passed(t)) + Rest(t)
    BY <2>1, <2>2
  <2>8. Passed(t) + Rest(t) \in Nat /\ (Passed(t) + Rest(t) > 0 => Passed(t) > 0 \/ Rest(t) > 0)
    BY <2>1, <2>2
  <2>9. QED
    BY Zenon, <2>1, <2>2, <2>3, <2>6, <2>7, <2>8
<1>4. touched' \in [Objects -> Nat] /\ untouched' \in [Objects -> Nat]
  BY Zenon, <1>2, <1>3
<1>5. \A t \in Objects : touched'[t] = Added(t) /\ untouched'[t] = Passed(t) + Rest(t)
  BY Zenon, <1>2
<1>6. /\ verdict' = verdict /\ verdict' \in {"none", "verified", "degraded", "failed"}
      /\ phase' # "gate"
  BY <1>1, <1>2 DEF TypeOK
<1>7. \A t \in Objects :
        /\ touched'[t] + untouched'[t] =
             Between(t, 1, IF phase' = "gate" THEN WaveEnd ELSE Len(targets))
        /\ touched'[t] > 0 => Ran(t, RanNow \cup prior)
        /\ stop # "not-started" /\ untouched'[t] > 0 => ~Ran(t, RanNow)
  BY Zenon, <1>3, <1>5, <1>6
<1>8. strategy.kind = "canary" /\ verdict' # "verified" => wave = 1
  BY Zenon, <1>1, <1>6 DEF GateInv
<1>9. UNCHANGED <<planVars, log, wave, at, next, status, stop, results>>
  BY Zenon, <1>2
<1>10. QED
  BY Zenon, <1>2, <1>4, <1>6, <1>7, <1>8, <1>9, Concluded

\* A canary wave asks for its gate.
LEMMA AskGateStep == RunInv /\ AskGate => RunInv'
<1> SUFFICES ASSUME RunInv, AskGate PROVE RunInv'
  OBVIOUS
<1>1. PlanInv /\ TypeOK /\ StopInv /\ GateInv
  BY Zenon DEF RunInv
<1>2. /\ phase = "wave" /\ phase' = "gate" /\ ~WaveStops /\ waves[wave].gated
      /\ touched' = [t \in Objects |-> Added(t)]
      /\ untouched' = [t \in Objects |-> Passed(t)]
      /\ UNCHANGED <<planVars, log, wave, at, next, status, stop, results, verdict>>
  BY Zenon DEF AskGate, Account, Added, Passed
<1>3. ASSUME NEW t \in Objects
      PROVE  /\ Added(t) \in Nat /\ Passed(t) \in Nat
             /\ Added(t) + Passed(t) = Between(t, 1, WaveEnd)
             /\ Added(t) > 0 => Ran(t, RanNow \cup prior)
             /\ stop # "not-started" /\ Passed(t) > 0 => ~Ran(t, RanNow)
  BY Zenon, <1>2, AddedFacts
<1>4. touched' \in [Objects -> Nat] /\ untouched' \in [Objects -> Nat]
  BY Zenon, <1>2, <1>3
<1>5. \A t \in Objects : touched'[t] = Added(t) /\ untouched'[t] = Passed(t)
  BY Zenon, <1>2, <1>3
<1>6. verdict' = verdict /\ verdict' \in {"none", "verified", "degraded", "failed"}
  BY <1>1, <1>2 DEF TypeOK
<1>7. \A t \in Objects :
        /\ touched'[t] + untouched'[t] =
             Between(t, 1, IF phase' = "gate" THEN WaveEnd ELSE Len(targets))
        /\ touched'[t] > 0 => Ran(t, RanNow \cup prior)
        /\ stop # "not-started" /\ untouched'[t] > 0 => ~Ran(t, RanNow)
  BY Zenon, <1>2, <1>3, <1>5
<1>8. strategy.kind = "canary" /\ verdict' # "verified" => wave = 1
  BY Zenon, <1>1, <1>6 DEF GateInv
<1>9. wave = 1
  <2>1. wave = 1 \/ wave \in 2 .. Len(waves)
    BY <1>1, InHandFacts, PlanFacts
  <2>2. wave \notin 2 .. Len(waves)
    BY Zenon, <1>1, <1>2 DEF PlanInv
  <2>3. QED
    BY Zenon, <2>1, <2>2
<1>10. stop \notin {"failed", "unknown"}
  BY Zenon, <1>1, <1>2 DEF StopInv
<1>11. UNCHANGED <<planVars, log, wave, at, next, status, stop, results>>
  BY Zenon, <1>2
<1>12. QED
  BY Zenon, <1>2, <1>4, <1>6, <1>7, <1>8, <1>9, <1>10, <1>11, Concluded

\* The gate's verdict ends the run.
LEMMA GateStopsStep == RunInv /\ GateStops => RunInv'
<1> SUFFICES ASSUME RunInv, GateStops PROVE RunInv'
  OBVIOUS
<1>1. PlanInv /\ TypeOK /\ StopInv /\ LogInv /\ AccountInv /\ RanInv
  BY Zenon DEF RunInv
<1>2. /\ phase = "gate" /\ phase' = "done" /\ verdict' \in {"degraded", "failed"}
      /\ untouched' = [t \in Objects |-> untouched[t] + Rest(t)]
      /\ touched' = touched
      /\ UNCHANGED <<planVars, log, wave, at, next, status, stop, results>>
  BY Zenon DEF GateStops
<1>3. touched \in [Objects -> Nat] /\ untouched \in [Objects -> Nat]
  BY Zenon, <1>1 DEF TypeOK
<1>4. ASSUME NEW t \in Objects
      PROVE  /\ untouched[t] + Rest(t) \in Nat
             /\ touched[t] + (untouched[t] + Rest(t)) = Between(t, 1, Len(targets))
             /\ touched[t] > 0 => Ran(t, RanNow \cup prior)
             /\ stop # "not-started" /\ untouched[t] + Rest(t) > 0 => ~Ran(t, RanNow)
  <2>1. touched[t] \in Nat /\ untouched[t] \in Nat
    BY Zenon, <1>3
  <2>2. Accounted = WaveEnd
    BY Zenon, <1>2 DEF Accounted
  <2>3. /\ touched[t] + untouched[t] = Between(t, 1, WaveEnd)
        /\ touched[t] > 0 => Ran(t, RanNow \cup prior)
        /\ stop # "not-started" /\ untouched[t] > 0 => ~Ran(t, RanNow)
    BY Zenon, <2>2, <1>1 DEF AccountInv, RanInv
  <2>4. Rest(t) \in Nat /\ (Rest(t) > 0 => ~Ran(t, RanNow))
    BY Zenon, <1>1, RestAccount
  <2>5. Rest(t) = Between(t, WaveEnd + 1, Len(targets))
    BY Zenon DEF Rest
  <2>6. WaveEnd \in Nat /\ Len(targets) \in Nat /\ WaveEnd <= Len(targets)
    BY Zenon, <1>1, InHandFacts, PlanFacts
  <2>7. Len(targets) <= Len(targets)
    BY <2>6
  <2>8. Between(t, 1, WaveEnd) + Between(t, WaveEnd + 1, Len(targets))
          = Between(t, 1, Len(targets))
    BY Zenon, <1>1, <2>6, <2>7, Adjacent
  <2>9. touched[t] + (untouched[t] + Rest(t)) = (touched[t] + untouched[t]) + Rest(t)
    BY <2>1, <2>4
  <2>10. /\ untouched[t] + Rest(t) \in Nat
         /\ untouched[t] + Rest(t) > 0 => untouched[t] > 0 \/ Rest(t) > 0
    BY <2>1, <2>4
  <2>11. QED
    BY Zenon, <2>3, <2>4, <2>5, <2>8, <2>9, <2>10
<1>5. touched' \in [Objects -> Nat] /\ untouched' \in [Objects -> Nat]
  BY Zenon, <1>2, <1>3, <1>4
<1>6. \A t \in Objects : touched'[t] = touched[t] /\ untouched'[t] = untouched[t] + Rest(t)
  BY Zenon, <1>2
<1>7. verdict' \in {"none", "verified", "degraded", "failed"} /\ phase' # "gate"
  BY <1>2
<1>8. \A t \in Objects :
        /\ touched'[t] + untouched'[t] =
             Between(t, 1, IF phase' = "gate" THEN WaveEnd ELSE Len(targets))
        /\ touched'[t] > 0 => Ran(t, RanNow \cup prior)
        /\ stop # "not-started" /\ untouched'[t] > 0 => ~Ran(t, RanNow)
  BY Zenon, <1>4, <1>6, <1>7
<1>9. wave = 1
  BY Zenon, <1>1, <1>2 DEF StopInv
<1>10. QED
  BY Zenon, <1>2, <1>5, <1>7, <1>8, <1>9, Concluded

\* The next wave begins, or there is none.
LEMMA Begun ==
  ASSUME RunInv, BeginWave(wave + 1), UNCHANGED <<planVars, log, stop>>,
         stop \notin {"failed", "unknown"},
         touched' \in [Objects -> Nat], untouched' \in [Objects -> Nat],
         verdict' \in {"none", "verified", "degraded", "failed"},
         strategy.kind = "canary" => verdict' = "verified",
         \A t \in Objects :
           /\ touched'[t] + untouched'[t] = Between(t, 1, WaveEnd)
           /\ touched'[t] > 0 => Ran(t, RanNow \cup prior)
           /\ stop # "not-started" /\ untouched'[t] > 0 => ~Ran(t, RanNow)
  PROVE  RunInv'
<1>1. PlanInv /\ TypeOK /\ LogInv
  BY Zenon DEF RunInv
<1>2. /\ block' = block /\ strategy' = strategy /\ targets' = targets
      /\ waves' = waves /\ prior' = prior /\ log' = log /\ stop' = stop
  BY Zenon DEF planVars
<1>3. UNCHANGED planVars
  BY Zenon
<1>4. PlanInv'
  BY Zenon, <1>1, <1>3, PlanKept
<1>5. results' = <<>> /\ results' \in Seq(Result) /\ Len(results') = 0
  BY DEF BeginWave
<1>6. (1 .. Len(results')) = {}
  BY <1>5
<1>7. /\ wave \in 1 .. Len(waves) /\ wave \in Nat /\ Len(waves) \in Nat
      /\ WaveEnd \in Nat /\ WaveEnd > Start /\ Start \in Nat
      /\ at \in Nat /\ at <= WaveEnd /\ WaveEnd <= Len(targets)
      /\ WaveEnd = waves[wave].start + waves[wave].len
      /\ Len(block) \in Nat /\ Len(targets) \in Nat
  BY Zenon, <1>1, InHandFacts, PlanFacts DEF WaveEnd
<1>8. RanNow' = RanNow
  BY Zenon, <1>2 DEF RanNow
<1>9. GateInv'
  BY Zenon, <1>2 DEF GateInv
<1>10. \A t, S : Ran(t, S)' <=> Ran(t', S')
  BY Zenon, <1>2 DEF Ran
<1>11. \A t, m, n : Between(t, m, n)' = Between(t', m', n')
  BY Zenon, <1>2 DEF Between
<1>12. stop' \notin {"failed", "unknown"}
  BY Zenon, <1>2
<1>13. CASE wave + 1 > Len(waves)
  <2>1. /\ phase' = "done" /\ wave' = wave /\ at' = at /\ next' = next /\ status' = status
    BY Zenon, <1>13 DEF BeginWave
  <2>2. phase' # "target" /\ phase' # "wave" /\ phase' # "gate"
    BY <2>1
  <2>3. WaveEnd' = WaveEnd /\ Start' = Start
    BY Zenon, <1>2, <2>1 DEF WaveEnd, Start
  <2>4. TypeOK'
    BY Zenon, <1>1, <1>2, <2>1, <2>3 DEF TypeOK
  <2>5. PlaceInv'
    <3>1. Len(results') <= waves[wave].len
      BY <1>1, <1>5, InHandFacts
    <3>2. QED
      BY Zenon, <3>1, <1>2, <1>5, <1>6, <2>1, <2>2 DEF PlaceInv
  <2>6. StopInv'
    BY Zenon, <2>2 DEF StopInv
  <2>7. LogInv'
    BY Zenon, <1>1, <1>2, <2>1 DEF LogInv, StopsAtOnce
  <2>8. AccountInv'
    <3>1. WaveEnd = Len(targets)
      <4>1. ~(wave < Len(waves))
        BY <1>7, <1>13
      <4>2. QED
        BY Zenon, <4>1, <1>1, <1>7, WaveFacts
    <3>2. Accounted' = Len(targets)
      BY Zenon, <2>1, <2>2, <1>2 DEF Accounted
    <3>3. QED
      BY Zenon, <3>1, <3>2, <1>11 DEF AccountInv
  <2>9. RanInv'
    BY Zenon, <2>2, <1>2, <1>6, <1>8, <1>10 DEF RanInv
  <2>10. QED
    BY Zenon, <1>4, <1>9, <2>4, <2>5, <2>6, <2>7, <2>8, <2>9 DEF RunInv
<1>14. CASE ~(wave + 1 > Len(waves))
  <2>1. /\ wave' = wave + 1 /\ at' = waves[wave + 1].start + 1 /\ next' = 1
        /\ status' = "skipped"
        /\ phase' = IF stop = "none" THEN "target" ELSE "wave"
    BY Zenon, <1>14 DEF BeginWave
  <2>2. wave + 1 \in 1 .. Len(waves) /\ wave < Len(waves)
    BY <1>7, <1>14
  <2>3. /\ waves[wave + 1].start \in Nat /\ waves[wave + 1].len \in Nat
        /\ waves[wave + 1].len > 0
    BY Zenon, <1>1, <2>2, WaveFacts
  <2>4. waves[wave + 1].start = WaveEnd
    BY Zenon, <1>1, <1>7, <2>2, WaveFacts
  <2>5. Start' = WaveEnd /\ at' = WaveEnd + 1
    BY Zenon, <1>2, <2>1, <2>4 DEF Start
  <2>6. WaveEnd' = waves[wave + 1].start + waves[wave + 1].len
    BY Zenon, <1>2, <2>1 DEF WaveEnd
  <2>7. TypeOK'
    <3>1. at' \in waves'[wave'].start + 1 .. WaveEnd'
      BY <1>2, <2>1, <2>3, <2>6
    <3>2. next' \in 1 .. Len(block') + 1
      BY <1>2, <1>7, <2>1
    <3>3. status' \in {"skipped", "succeeded", "failed", "unknown"}
      BY <2>1
    <3>4. phase' \in {"target", "wave", "gate", "done"}
      BY <2>1
    <3>5. wave' \in 1 .. Len(waves')
      BY Zenon, <1>2, <2>1, <2>2
    <3>6. QED
      BY Zenon, <3>1, <3>2, <3>3, <3>4, <3>5, <1>1, <1>2 DEF TypeOK
  <2>8. PlaceInv'
    <3>1. Len(results') <= waves'[wave'].len
      BY <1>2, <1>5, <2>1, <2>3
    <3>2. Len(results') = (at' - Start') - 1
      BY <1>5, <1>7, <2>5
    <3>3. phase' = "wave" => stop' = "not-started"
      BY <1>1, <1>2, <1>12, <2>1 DEF TypeOK
    <3>4. QED
      BY Zenon, <3>1, <3>2, <3>3, <1>5, <1>6 DEF PlaceInv
  <2>9. StopInv'
    <3>1. phase' = "target" => stop' = "none"
      BY <1>2, <2>1
    <3>2. phase' # "gate" /\ status' = "skipped"
      BY <2>1
    <3>3. QED
      BY <3>1, <3>2, <1>12 DEF StopInv
  <2>10. LogInv'
    <3>1. 1 .. at \subseteq 1 .. at'
      BY <1>7, <2>5
    <3>2. QED
      BY Zenon, <3>1, <1>1, <1>2 DEF LogInv, StopsAtOnce
  <2>11. AccountInv'
    <3>1. phase' # "gate" /\ phase' # "done"
      BY <2>1
    <3>2. Accounted' = WaveEnd
      BY Zenon, <3>1, <2>5 DEF Accounted
    <3>3. QED
      BY Zenon, <3>2, <1>11 DEF AccountInv
  <2>12. RanInv'
    <3>1. Target' = targets[WaveEnd + 1]
      BY Zenon, <1>2, <2>5 DEF Target
    <3>2. WaveEnd + 1 \in 1 .. Len(targets) /\ WaveEnd + 1 > at
      <4>1. waves[wave + 1].start + waves[wave + 1].len <= Len(targets)
        BY Zenon, <1>1, <2>2, WaveFacts
      <4>2. QED
        BY <4>1, <1>7, <2>3, <2>4
    <3>3. ~Ran(Target', RanNow)
      BY Zenon, <3>1, <3>2, <1>1, LaterIdle
    <3>4. status' = "skipped"
      BY <2>1
    <3>5. QED
      BY Zenon, <3>3, <3>4, <1>2, <1>6, <1>8, <1>10 DEF RanInv
  <2>13. QED
    BY Zenon, <1>4, <1>9, <2>7, <2>8, <2>9, <2>10, <2>11, <2>12 DEF RunInv
<1>15. QED
  BY Zenon, <1>13, <1>14

\* A wave that is not gated is over.
LEMMA NextWaveStep == RunInv /\ NextWave => RunInv'
<1> SUFFICES ASSUME RunInv, NextWave PROVE RunInv'
  OBVIOUS
<1>1. PlanInv /\ TypeOK /\ StopInv /\ GateInv
  BY Zenon DEF RunInv
<1>2. /\ phase = "wave" /\ ~WaveStops /\ ~waves[wave].gated
      /\ touched' = [t \in Objects |-> Added(t)]
      /\ untouched' = [t \in Objects |-> Passed(t)]
      /\ BeginWave(wave + 1)
      /\ UNCHANGED <<planVars, log, stop>> /\ verdict' = verdict
  BY Zenon DEF NextWave, Account, Added, Passed
<1>3. ASSUME NEW t \in Objects
      PROVE  /\ Added(t) \in Nat /\ Passed(t) \in Nat
             /\ Added(t) + Passed(t) = Between(t, 1, WaveEnd)
             /\ Added(t) > 0 => Ran(t, RanNow \cup prior)
             /\ stop # "not-started" /\ Passed(t) > 0 => ~Ran(t, RanNow)
  BY Zenon, <1>2, AddedFacts
<1>4. touched' \in [Objects -> Nat] /\ untouched' \in [Objects -> Nat]
  BY Zenon, <1>2, <1>3
<1>5. \A t \in Objects : touched'[t] = Added(t) /\ untouched'[t] = Passed(t)
  BY Zenon, <1>2, <1>3
<1>6. \A t \in Objects :
        /\ touched'[t] + untouched'[t] = Between(t, 1, WaveEnd)
        /\ touched'[t] > 0 => Ran(t, RanNow \cup prior)
        /\ stop # "not-started" /\ untouched'[t] > 0 => ~Ran(t, RanNow)
  BY Zenon, <1>3, <1>5
<1>7. stop \notin {"failed", "unknown"}
  BY Zenon, <1>1, <1>2 DEF StopInv
<1>8. verdict' \in {"none", "verified", "degraded", "failed"}
  BY Zenon, <1>1, <1>2 DEF TypeOK
<1>9. strategy.kind = "canary" => verdict' = "verified"
  <2>1. strategy.kind = "canary" => wave # 1
    BY Zenon, <1>1, <1>2 DEF PlanInv
  <2>2. QED
    BY Zenon, <2>1, <1>1, <1>2 DEF GateInv
<1>10. QED
  BY Zenon, <1>2, <1>4, <1>6, <1>7, <1>8, <1>9, Begun

\* The gate lets the run go on.
LEMMA GatePassesStep == RunInv /\ GatePasses => RunInv'
<1> SUFFICES ASSUME RunInv, GatePasses PROVE RunInv'
  OBVIOUS
<1>1. TypeOK /\ StopInv /\ AccountInv /\ RanInv
  BY Zenon DEF RunInv
<1>2. /\ phase = "gate" /\ verdict' = "verified" /\ BeginWave(wave + 1)
      /\ UNCHANGED <<planVars, log, stop>>
      /\ touched' = touched /\ untouched' = untouched
  BY Zenon DEF GatePasses
<1>3. touched' \in [Objects -> Nat] /\ untouched' \in [Objects -> Nat]
  BY Zenon, <1>1, <1>2 DEF TypeOK
<1>4. Accounted = WaveEnd
  BY Zenon, <1>2 DEF Accounted
<1>5. \A t \in Objects :
        /\ touched'[t] + untouched'[t] = Between(t, 1, WaveEnd)
        /\ touched'[t] > 0 => Ran(t, RanNow \cup prior)
        /\ stop # "not-started" /\ untouched'[t] > 0 => ~Ran(t, RanNow)
  BY Zenon, <1>1, <1>2, <1>4 DEF AccountInv, RanInv
<1>6. stop \notin {"failed", "unknown"}
  BY Zenon, <1>1, <1>2 DEF StopInv
<1>7. verdict' \in {"none", "verified", "degraded", "failed"}
  BY Zenon, <1>2
<1>8. QED
  BY Zenon, <1>2, <1>3, <1>5, <1>6, <1>7, Begun

\* A plan as it is made is the partition its strategy gives.
LEMMA PlanInit == Init => PlanInv
<1> SUFFICES ASSUME Init PROVE PlanInv
  OBVIOUS
<1>1. /\ block \in Seq(Objects) /\ block # <<>> /\ strategy \in Strategy
  BY Zenon, RolloutAssumption DEF Init, Strategy
<1>2. targets = Frozen(block) /\ waves = Waves(strategy, Len(targets))
  BY Zenon DEF Init
<1>3. prior \subseteq 1 .. Len(block)
  BY Zenon DEF Init, CarriedOut
<1>4. Distinct(targets, Len(block), block)
  BY Zenon, <1>1, <1>2, FrozenDistinct
<1>5. Len(targets) \in Nat /\ Len(targets) > 0
  <2>1. /\ targets \in Seq(Objects)
        /\ \A k \in 1 .. Len(block) : \E i \in 1 .. Len(targets) : targets[i] = block[k]
    BY Zenon, <1>4 DEF Distinct
  <2>2. 1 \in 1 .. Len(block)
    BY <1>1
  <2>3. PICK i \in 1 .. Len(targets) : targets[i] = block[1]
    BY Zenon, <2>1, <2>2
  <2>4. QED
    BY <2>1, <2>3
<1>6. /\ Tiling(waves, 0, Len(targets))
      /\ \A i \in 1 .. Len(waves) : waves[i].len <= Width(strategy, i)
      /\ strategy.kind = "canary" => waves[1].gated = TRUE
      /\ \A i \in 2 .. Len(waves) : waves[i].gated = FALSE
  BY Zenon, <1>1, <1>2, <1>5, WavesTile
<1>7. QED
  BY Zenon, <1>1, <1>3, <1>4, <1>6 DEF PlanInv

LEMMA RunInit == Init => RunInv
<1> SUFFICES ASSUME Init PROVE RunInv
  OBVIOUS
<1>1. PlanInv
  BY Zenon, PlanInit
<1>2. /\ log = <<>> /\ wave = 1 /\ at = 1 /\ next = 1 /\ status = "skipped" /\ stop = "none"
      /\ results = <<>> /\ touched = [t \in Objects |-> 0]
      /\ untouched = [t \in Objects |-> 0] /\ verdict = "none" /\ phase = "target"
  BY Zenon DEF Init
<1>3. /\ Len(waves) \in Nat /\ Len(waves) > 0 /\ waves[1].start = 0
      /\ Len(block) \in Nat /\ Len(targets) \in Nat
  BY Zenon, <1>1, PlanFacts
<1>4. 1 \in 1 .. Len(waves)
  BY <1>3
<1>5. waves[1].len \in Nat /\ waves[1].len > 0
  BY Zenon, <1>1, <1>4, WaveFacts
<1>6. WaveEnd = 0 + waves[1].len /\ Start = 0
  BY Zenon, <1>2, <1>3 DEF WaveEnd, Start
<1>7. 1 .. Len(log) = {} /\ 1 .. Len(results) = {} /\ Len(results) = 0
  BY <1>2
<1>8. TypeOK
  <2>1. prior \subseteq 1 .. Len(block)
    BY Zenon, <1>1 DEF PlanInv
  <2>2. log \in Seq([action : 1 .. Len(block), outcome : {"succeeded", "failed", "unknown"}])
    BY <1>2
  <2>3. wave \in 1 .. Len(waves) /\ at \in waves[wave].start + 1 .. WaveEnd
    BY <1>2, <1>3, <1>4, <1>5, <1>6
  <2>4. next \in 1 .. Len(block) + 1
    BY <1>2, <1>3
  <2>5. touched \in [Objects -> Nat] /\ untouched \in [Objects -> Nat]
    BY <1>2
  <2>6. QED
    BY Zenon, <2>1, <2>2, <2>3, <2>4, <2>5, <1>2 DEF TypeOK
<1>9. PlaceInv
  <2>1. results \in Seq(Result)
    BY <1>2
  <2>2. Len(results) <= waves[wave].len
    BY <1>2, <1>5, <1>7
  <2>3. Len(results) = (at - Start) - 1
    BY <1>2, <1>6, <1>7
  <2>4. QED
    BY Zenon, <2>1, <2>2, <2>3, <1>2, <1>7 DEF PlaceInv
<1>10. StopInv
  BY <1>2 DEF StopInv
<1>11. LogInv
  BY Zenon, <1>7 DEF LogInv, StopsAtOnce
<1>12. GateInv
  BY Zenon, <1>2 DEF GateInv
<1>13. RanNow = {} /\ \A t : ~Ran(t, RanNow)
  BY Zenon, <1>7 DEF RanNow, Ran
<1>14. \A t \in Objects : touched[t] = 0 /\ untouched[t] = 0
  BY Zenon, <1>2
<1>15. AccountInv
  <2>1. Accounted = 0
    BY <1>2, <1>6 DEF Accounted
  <2>2. \A t : Between(t, 1, 0) = 0
    <3>1. 1 .. 0 = {}
      OBVIOUS
    <3>2. \A t : {k \in 1 .. 0 : targets[k] = t} = {}
      BY Zenon, <3>1
    <3>3. QED
      BY Zenon, <3>2, FS_EmptySet DEF Between
  <2>3. 0 + 0 = 0
    OBVIOUS
  <2>4. QED
    BY Zenon, <2>1, <2>2, <2>3, <1>14 DEF AccountInv
<1>16. RanInv
  <2>1. ~(0 > 0)
    OBVIOUS
  <2>2. QED
    BY Zenon, <2>1, <1>2, <1>7, <1>13, <1>14 DEF RanInv
<1>17. QED
  BY Zenon, <1>1, <1>8, <1>9, <1>10, <1>11, <1>12, <1>15, <1>16 DEF RunInv

LEMMA RunStep == RunInv /\ [Next]_vars => RunInv'
<1> SUFFICES ASSUME RunInv, [Next]_vars PROVE RunInv'
  OBVIOUS
<1>1. CASE UNCHANGED vars
  <2>1. /\ block' = block /\ strategy' = strategy /\ targets' = targets
        /\ waves' = waves /\ prior' = prior /\ log' = log /\ wave' = wave /\ at' = at
        /\ next' = next /\ status' = status /\ stop' = stop /\ results' = results
        /\ touched' = touched /\ untouched' = untouched /\ verdict' = verdict
        /\ phase' = phase
    BY Zenon, <1>1 DEF vars, planVars
  <2>2. /\ WaveEnd' = WaveEnd /\ Start' = Start /\ Target' = Target /\ RanNow' = RanNow
        /\ \A t, S : Ran(t, S)' <=> Ran(t', S')
    BY Zenon, <2>1 DEF WaveEnd, Start, Target, RanNow, Ran
  <2>3. Accounted' = Accounted /\ \A t, m, n : Between(t, m, n)' = Between(t', m', n')
    BY Zenon, <2>1, <2>2 DEF Accounted, Between
  <2>4. PlanInv'
    BY Zenon, <2>1, PlanKept DEF planVars, RunInv
  <2>5. TypeOK'
    BY Zenon, <2>1, <2>2 DEF RunInv, TypeOK
  <2>6. PlaceInv' /\ GateInv'
    BY Zenon, <2>1, <2>2 DEF RunInv, PlaceInv, GateInv
  <2>7. StopInv'
    BY Zenon, <2>1 DEF RunInv, StopInv, WaveStops
  <2>8. LogInv'
    BY Zenon, <2>1 DEF RunInv, LogInv, StopsAtOnce
  <2>9. AccountInv'
    BY Zenon, <2>1, <2>3 DEF RunInv, AccountInv
  <2>10. RanInv'
    BY Zenon, <2>1, <2>2 DEF RunInv, RanInv
  <2>11. QED
    BY Zenon, <2>4, <2>5, <2>6, <2>7, <2>8, <2>9, <2>10 DEF RunInv
<1>2. CASE Next
  BY Zenon, <1>2, PassStep, CarryOutStep, NotStartedStep, EndTargetStep, StopAtWaveStep,
     AskGateStep, NextWaveStep, GatePassesStep, GateStopsStep DEF Next
<1>3. QED
  BY Zenon, <1>1, <1>2

LEMMA RunInvariant == Spec => []RunInv
<1>1. QED
  BY RunInit, RunStep, PTL DEF Spec

-----------------------------------------------------------------------------
(* Theorems *)

\* Every state of a run is well typed: the wave in hand is one of the plan's, and
\* the target in hand one of the wave's, wherever run_waves has got to.
THEOREM RunIsTyped == Spec => []TypeOK
<1>1. RunInv => TypeOK
  BY Zenon DEF RunInv
<1>2. QED
  BY <1>1, RunInvariant, PTL

\* Strategy::waves cuts the targets of every plan into contiguous waves that
\* cover each target once, none empty and none wider than the strategy allows,
\* for every strategy and every number of targets.
THEOREM WavesAreTilings == Spec => []IsTiling
<1>1. RunInv => IsTiling
  <2> SUFFICES ASSUME RunInv PROVE IsTiling
    OBVIOUS
  <2>1. PlanInv
    BY Zenon DEF RunInv
  <2> DEFINE width(i) ==
               AtLeastOne(IF strategy.kind = "canary" /\ i = 1
                          THEN strategy.canary ELSE strategy.size)
             covers(i) == waves[i].start + 1 .. waves[i].start + waves[i].len
  <2>2. \A i \in 1 .. Len(waves) : waves[i].len \in 1 .. width(i)
    <3> SUFFICES ASSUME NEW i \in 1 .. Len(waves) PROVE waves[i].len \in 1 .. width(i)
      OBVIOUS
    <3>1. waves[i].len \in Nat /\ waves[i].len > 0
      BY Zenon, <2>1, WaveFacts
    <3>2. waves[i].len <= width(i)
      BY Zenon, <2>1 DEF PlanInv, Width
    <3>3. strategy.size \in Nat /\ strategy.canary \in Nat
      BY <2>1 DEF PlanInv, Strategy
    <3>4. width(i) \in Nat
      <4>1. AtLeastOne(strategy.size) \in Nat /\ AtLeastOne(strategy.canary) \in Nat
        BY Zenon, <3>3, PositiveWidth
      <4>2. QED
        BY Zenon, <4>1
    <3> HIDE DEF width
    <3>5. QED
      BY <3>1, <3>2, <3>4
  <2>3. UNION {covers(i) : i \in 1 .. Len(waves)} = 1 .. Len(targets)
    <3>1. ASSUME NEW i \in 1 .. Len(waves), NEW x \in covers(i)
          PROVE  x \in 1 .. Len(targets)
      <4>1. /\ waves[i].start \in Nat /\ waves[i].len \in Nat
            /\ waves[i].start + waves[i].len <= Len(targets) /\ Len(targets) \in Nat
        BY Zenon, <2>1, WaveFacts, PlanFacts
      <4>2. QED
        BY <3>1, <4>1
    <3>2. ASSUME NEW x \in 1 .. Len(targets)
          PROVE  \E i \in 1 .. Len(waves) : x \in covers(i)
      <4>1. Tiling(waves, 0, Len(targets)) /\ Len(targets) \in Nat
        BY Zenon, <2>1, PlanFacts DEF PlanInv
      <4>2. x \in 0 + 1 .. Len(targets)
        BY <4>1
      <4>3. QED
        BY Zenon, <4>1, <4>2 DEF Tiling, Covers
    <3> HIDE DEF covers
    <3>3. QED
      BY Zenon, <3>1, <3>2
  <2>4. \A i, j \in 1 .. Len(waves) :
          i < j => waves[i].start + waves[i].len <= waves[j].start
    BY Zenon, <2>1 DEF PlanInv, Tiling
  <2>5. QED
    BY Zenon, <2>2, <2>3, <2>4 DEF IsTiling
<1>2. QED
  BY <1>1, RunInvariant, PTL

\* However a run ends (every wave submitted, a wave that stopped, a gate that
\* refused), run_waves' account names each target of the plan exactly once, none
\* that nothing ran against as touched, and none this run changed as untouched
\* unless it stopped at an action it could not start.
THEOREM AccountIsHonest == Spec => []HonestAccount
<1>1. RunInv => HonestAccount
  <2> SUFFICES ASSUME RunInv, phase = "done", NEW t \in Objects
               PROVE  /\ touched[t] + untouched[t] = IF t \in Range(block) THEN 1 ELSE 0
                      /\ touched[t] > 0 => Ran(t, RanNow \cup prior)
                      /\ stop # "not-started" /\ untouched[t] > 0 => ~Ran(t, RanNow)
    BY Zenon DEF HonestAccount
  <2>1. PlanInv /\ AccountInv /\ RanInv
    BY Zenon DEF RunInv
  <2>2. Accounted = Len(targets)
    BY DEF Accounted
  <2>3. touched[t] + untouched[t] = Between(t, 1, Len(targets))
    BY Zenon, <2>1, <2>2 DEF AccountInv
  <2>4. 1 \in Nat /\ 1 > 0 /\ Len(targets) \in Nat /\ Len(targets) <= Len(targets)
    BY <2>1, PlanFacts
  <2>5. Between(t, 1, Len(targets)) =
          IF \E k \in 1 .. Len(targets) : targets[k] = t THEN 1 ELSE 0
    BY Zenon, <2>1, <2>4, BetweenFacts
  <2>6. DOMAIN block = 1 .. Len(block)
    BY <2>1, PlanFacts
  <2>7. t \in Range(block) <=> \E k \in 1 .. Len(block) : block[k] = t
    BY Zenon, <2>6 DEF Range
  <2>8. (\E k \in 1 .. Len(targets) : targets[k] = t) <=> t \in Range(block)
    <3>1. /\ \A i \in 1 .. Len(targets) : \E k \in 1 .. Len(block) : targets[i] = block[k]
          /\ \A k \in 1 .. Len(block) : \E i \in 1 .. Len(targets) : targets[i] = block[k]
      BY Zenon, <2>1 DEF PlanInv, Distinct
    <3>2. ASSUME NEW i \in 1 .. Len(targets), targets[i] = t PROVE t \in Range(block)
      <4>1. PICK k \in 1 .. Len(block) : targets[i] = block[k]
        BY Zenon, <3>1
      <4>2. block[k] = t
        BY Zenon, <4>1, <3>2
      <4>3. QED
        BY Zenon, <4>2, <2>7
    <3>3. ASSUME NEW k \in 1 .. Len(block), block[k] = t
          PROVE  \E i \in 1 .. Len(targets) : targets[i] = t
      BY Zenon, <3>1, <3>3
    <3>4. QED
      BY Zenon, <3>2, <3>3, <2>7
  <2>9. QED
    BY Zenon, <2>1, <2>3, <2>5, <2>8 DEF RanInv
<1>2. QED
  BY <1>1, RunInvariant, PTL

\* Under the canary strategy, until the gate of run_waves has answered
\* "verified", every action carried out is one against a target of the canary wave.
THEOREM CanaryGoesFirst == Spec => []CanaryFirst
<1>1. RunInv => CanaryFirst
  <2> SUFFICES ASSUME RunInv, strategy.kind = "canary", verdict # "verified",
                      NEW n \in 1 .. Len(log)
               PROVE  \E k \in 1 .. waves[1].len : targets[k] = block[log[n].action]
    BY Zenon DEF CanaryFirst, RanNow
  <2>1. PlanInv /\ TypeOK /\ LogInv /\ GateInv
    BY Zenon DEF RunInv
  <2>2. wave = 1
    BY Zenon, <2>1 DEF GateInv
  <2>3. PICK k \in 1 .. at : targets[k] = block[log[n].action]
    BY Zenon, <2>1 DEF LogInv
  <2>4. at \in Nat /\ at <= 0 + waves[1].len /\ waves[1].len \in Nat
    <3>1. Start = 0
      BY Zenon, <2>1, <2>2, PlanFacts DEF Start
    <3>2. /\ at \in Nat /\ at <= WaveEnd /\ waves[wave].len \in Nat
          /\ WaveEnd = Start + waves[wave].len
      BY Zenon, <2>1, InHandFacts
    <3>3. QED
      BY Zenon, <3>1, <3>2, <2>2
  <2>5. k \in 1 .. waves[1].len
    BY <2>4
  <2>6. QED
    BY Zenon, <2>3, <2>5
<1>2. QED
  BY <1>1, RunInvariant, PTL

\* Once an action has failed, or its outcome could not be established, the run
\* carries out no other: neither on the same target, nor on a later one of the
\* wave, nor in a later wave.
THEOREM FailureStopsTheRun == Spec => []StopsAtOnce
<1>1. RunInv => StopsAtOnce
  BY Zenon DEF RunInv, LogInv
<1>2. QED
  BY <1>1, RunInvariant, PTL
=============================================================================
