------------------------ MODULE TemporalRecorderProofs ------------------------
(***************************************************************************)
(* Theorems about TemporalRecorder, for any number of events, instants and *)
(* boots, any intake, any retention, and a crash between any two           *)
(* transactions.                                                           *)
(***************************************************************************)
EXTENDS TemporalRecorder, FiniteSetTheorems, WellFoundedInduction, TLAPS

-----------------------------------------------------------------------------
(* Instants, numbers and queues *)

\* A non-empty set of naturals has a least member.
LEMMA LeastOne ==
  ASSUME NEW T \in SUBSET Nat, T # {}
  PROVE  \E x \in T : \A y \in T : x <= y
<1> DEFINE R == OpToRel(<, Nat)
<1>1. IsWellFoundedOn(R, Nat)
  BY Zenon, NatLessThanWellFounded
<1> HIDE DEF R
<1>2. PICK x \in T : \A y \in T : ~ (<<y, x>> \in R)
  BY Zenon, <1>1, WFMin
<1>3. \A y \in T : ~ (y < x)
  BY Zenon, <1>2 DEF R, OpToRel
<1>4. QED
  BY <1>3

\* Min of a set of naturals, and Max of a bounded one, are what they say.
LEMMA MinOf ==
  ASSUME NEW T \in SUBSET Nat, T # {}
  PROVE  Min(T) \in T /\ \A y \in T : Min(T) <= y
<1>1. \E x \in T : \A y \in T : x =< y
  BY LeastOne
<1>2. QED
  BY Zenon, <1>1 DEF Min

LEMMA MaxOf ==
  ASSUME NEW n \in Nat, NEW T \in SUBSET (0 .. n), T # {}
  PROVE  Max(T) \in T /\ \A y \in T : y <= Max(T)
<1> DEFINE U == {n - x : x \in T}
<1>1. U \in SUBSET Nat /\ U # {}
  OBVIOUS
<1>2. PICK u \in U : \A v \in U : u <= v
  BY Zenon, <1>1, LeastOne
<1>3. PICK x \in T : u = n - x
  OBVIOUS
<1>4. \A y \in T : n - y \in U
  OBVIOUS
<1> HIDE DEF U
<1>5. \A y \in T : x >= y
  BY <1>2, <1>3, <1>4
<1>6. Max(T) \in T /\ \A y \in T : Max(T) >= y
  BY Zenon, <1>3, <1>5 DEF Max
<1>7. QED
  BY <1>6

\* The largest member is Max, whatever else is in the set.
LEMMA MaxIs ==
  ASSUME NEW T \in SUBSET Int, NEW x \in T, \A y \in T : y <= x
  PROVE  Max(T) = x
<1>1. \A y \in T : x >= y
  OBVIOUS
<1>2. Max(T) \in T /\ \A y \in T : Max(T) >= y
  BY Zenon, <1>1 DEF Max
<1>3. Max(T) \in Int /\ x \in Int /\ x >= Max(T) /\ Max(T) >= x
  BY Zenon, <1>1, <1>2
<1>4. QED
  BY <1>3

LEMMA Pair ==
  ASSUME NEW n \in Nat, NEW a \in 0 .. n, NEW b \in 0 .. n
  PROVE  /\ Min({a, b}) \in {a, b} /\ Min({a, b}) <= a /\ Min({a, b}) <= b
         /\ Max({a, b}) \in {a, b} /\ a <= Max({a, b}) /\ b <= Max({a, b})
<1> DEFINE T == {a, b}
<1>1. T \in SUBSET Nat /\ T \in SUBSET (0 .. n) /\ T # {} /\ a \in T /\ b \in T
  OBVIOUS
<1> HIDE DEF T
<1>2. /\ Min(T) \in T /\ \A y \in T : Min(T) <= y
      /\ Max(T) \in T /\ \A y \in T : y <= Max(T)
  BY Zenon, <1>1, MinOf, MaxOf
<1>3. QED
  BY Zenon, <1>1, <1>2 DEF T

LEMMA Larger ==
  ASSUME NEW S, NEW U, S \subseteq U, NEW q \in Seq(S)
  PROVE  q \in Seq(U)
  OBVIOUS

\* What is in a queue after an event came or went.
LEMMA Queued ==
  ASSUME NEW S, NEW q \in Seq(S), NEW e \in S
  PROVE  /\ Append(q, e) \in Seq(S) /\ Len(Append(q, e)) = Len(q) + 1
         /\ Range(Append(q, e)) = Range(q) \cup {e}
<1>1. /\ Append(q, e) \in Seq(S) /\ Len(q) \in Nat /\ Len(Append(q, e)) = Len(q) + 1
      /\ DOMAIN q = 1 .. Len(q) /\ DOMAIN Append(q, e) = 1 .. Len(q) + 1
      /\ \A i \in 1 .. Len(q) : Append(q, e)[i] = q[i]
      /\ Append(q, e)[Len(q) + 1] = e
  OBVIOUS
<1>2. 1 .. Len(q) + 1 = (1 .. Len(q)) \cup {Len(q) + 1}
  BY <1>1
<1>3. Range(Append(q, e)) = {Append(q, e)[i] : i \in (1 .. Len(q)) \cup {Len(q) + 1}}
  BY Zenon, <1>1, <1>2 DEF Range
<1>4. Range(q) = {q[i] : i \in 1 .. Len(q)}
  BY Zenon, <1>1 DEF Range
<1>5. QED
  BY <1>1, <1>3, <1>4

LEMMA Unqueued ==
  ASSUME NEW S, NEW q \in Seq(S), q # <<>>
  PROVE  /\ Tail(q) \in Seq(S) /\ Len(Tail(q)) = Len(q) - 1 /\ Head(q) \in S
         /\ Range(q) = Range(Tail(q)) \cup {Head(q)}
<1>1. /\ Tail(q) \in Seq(S) /\ Len(q) \in Nat /\ Len(q) >= 1 /\ Len(Tail(q)) = Len(q) - 1
      /\ Head(q) = q[1] /\ Head(q) \in S
      /\ DOMAIN q = 1 .. Len(q) /\ DOMAIN Tail(q) = 1 .. Len(q) - 1
      /\ \A i \in 1 .. Len(q) - 1 : Tail(q)[i] = q[i + 1]
  OBVIOUS
<1>2. Range(Tail(q)) = {q[i + 1] : i \in 1 .. Len(q) - 1}
  BY Zenon, <1>1 DEF Range
<1>3. Range(q) = {q[i] : i \in 1 .. Len(q)}
  BY Zenon, <1>1 DEF Range
<1>4. \A i \in 1 .. Len(q) : i = 1 \/ (i - 1 \in 1 .. Len(q) - 1 /\ (i - 1) + 1 = i)
  BY <1>1
<1>5. \A i \in 1 .. Len(q) - 1 : i + 1 \in 1 .. Len(q)
  BY <1>1
<1>6. 1 \in 1 .. Len(q)
  BY <1>1
<1>7. Range(q) \subseteq Range(Tail(q)) \cup {Head(q)}
  <2> SUFFICES ASSUME NEW i \in 1 .. Len(q) PROVE q[i] \in Range(Tail(q)) \cup {Head(q)}
    BY <1>3
  <2>1. CASE i = 1
    BY <1>1, <2>1
  <2>2. CASE i # 1
    BY Zenon, <1>2, <1>4, <2>2
  <2>3. QED
    BY Zenon, <2>1, <2>2
<1>8. Range(Tail(q)) \cup {Head(q)} \subseteq Range(q)
  BY <1>1, <1>2, <1>3, <1>5, <1>6
<1>9. QED
  BY Zenon, <1>1, <1>7, <1>8

LEMMA NoneQueued == Range(<<>>) = {}
  BY DEF Range

-----------------------------------------------------------------------------
(* The inductive invariant *)

\* Whatever carries an instant carries one that is past, and a note is about the
\* beginning of the interval the intake remembers.
Clock ==
  /\ \A e \in DOMAIN at : at[e] < now
  /\ \A m \in marks : m < now
  /\ overflow # Nothing => overflow[1] <= overflow[2] /\ overflow[2] < now
  /\ note # Nothing =>
       /\ note[3] < now
       /\ overflow # Nothing /\ overflow[1] = note[1][1] /\ note[1][2] <= overflow[2]
  /\ phase # "off" => since < now

\* Nothing older than the start goes into the store, and while a start is at
\* work nothing but the start does.
Phases ==
  /\ phase # "off" =>
       /\ note # Nothing => On /\ since <= note[3]
       /\ \A e \in Range(queue) : since <= at[e]
  /\ ~On => sweep = Nothing

\* The events nobody answers for by holding them, and that no loss the recorder
\* cannot know of explains.
Missing == DOMAIN at \ (held \cup Range(queue) \cup raced \cup forgotten)

\* An event the intake dropped, and whose interval is yet to become coverage.
Awaited(e) ==
  /\ e \in lost
  /\ IF note = Nothing THEN overflow # Nothing /\ Within(at[e], overflow)
                       ELSE note[2] = "read" /\ Within(at[e], note[1])

\* An event from before all that the store holds or may come to hold.
Early(e) ==
  /\ \A t \in Stamps : at[e] < t
  /\ note # Nothing => at[e] < note[3]
  /\ phase # "off" => at[e] < since

\* An event from after all that the store holds: nobody watched, and the next
\* start will say so, or is about to.
Late(e) ==
  /\ phase \in {"off", "gaps"}
  /\ \A t \in Stamps : t <= at[e]
  /\ note # Nothing => note[3] <= at[e]
  /\ phase = "gaps" => \E c \in plan : c[3] = "unavailable" /\ Within(at[e], c)

Explained(e) ==
  \/ at[e] \in expired
  \/ Unavailable(at[e])
  \/ Awaited(e)
  \/ Early(e)
  \/ Late(e)

LossInv == \A e \in Missing : Explained(e)

\* A row is about the numbers that arrived in its boot: the least, the greatest,
\* and how many, where none was counted twice.
RowInv ==
  \A b \in Boots :
    /\ rows[b].seen = 0 => arrived[b] = {}
    /\ rows[b].seen > 0 => /\ rows[b].lowest \in arrived[b] /\ rows[b].highest \in arrived[b]
                           /\ \A n \in arrived[b] : rows[b].lowest <= n /\ n <= rows[b].highest
    /\ ~recounted => rows[b].seen = Cardinality(arrived[b])

\* The source numbers the events of a boot without a hole.
NumberInv == \A b \in Boots : Numbers(b) = 1 .. Cardinality(Numbers(b))

RecInv == TypeOK /\ NumberInv /\ Clock /\ Phases /\ LossInv /\ RowInv

-----------------------------------------------------------------------------
(* Types *)

LEMMA NumbersFinite ==
  ASSUME TypeOK, NEW b \in Boots
  PROVE  /\ Numbers(b) \subseteq 1 .. MaxSeq
         /\ IsFiniteSet(Numbers(b)) /\ Cardinality(Numbers(b)) \in Nat
<1>1. Numbers(b) \subseteq 1 .. MaxSeq
  BY Zenon DEF TypeOK, Numbers, Event
<1>2. IsFiniteSet(1 .. MaxSeq)
  BY FS_Interval, RecorderAssumption
<1>3. IsFiniteSet(Numbers(b))
  BY Zenon, <1>1, <1>2, FS_Subset
<1>4. QED
  BY <1>1, <1>3, FS_CardinalityType

\* The event that happens next is a new one.
LEMMA NewEvent ==
  ASSUME TypeOK, NumberInv, NEW e, e = <<boot, Cardinality(Numbers(boot)) + 1>>,
         Cardinality(Numbers(boot)) + 1 <= MaxSeq
  PROVE  e \in Event /\ e \notin DOMAIN at
<1> DEFINE n == Cardinality(Numbers(boot))
<1>1. boot \in Boots
  BY Zenon DEF TypeOK
<1>2. n \in Nat /\ Numbers(boot) = 1 .. n
  BY Zenon, <1>1, NumbersFinite DEF NumberInv
<1>3. e \in Event
  BY <1>1, <1>2 DEF Event
<1>4. ASSUME e \in DOMAIN at PROVE FALSE
  <2>1. e[1] = boot /\ e[2] = n + 1
    OBVIOUS
  <2>2. n + 1 \in Numbers(boot)
    BY Zenon, <1>4, <2>1 DEF Numbers
  <2>3. QED
    BY <1>2, <2>2
<1>5. QED
  BY Zenon, <1>3, <1>4

LEMMA Tick ==
  ASSUME TypeOK, Stamp
  PROVE  now \in Instant /\ now' \in Instant /\ now' = now + 1
<1>1. now \in Instant /\ MaxTime \in Nat
  BY Zenon, RecorderAssumption DEF TypeOK
<1>2. QED
  BY <1>1 DEF Stamp, Instant

\* What offering an event leaves of the types.
LEMMA OfferTypes ==
  ASSUME TypeOK, NEW D, DOMAIN at \subseteq D, NEW e \in D, Offer(e)
  PROVE  /\ queue' \in Seq(D) /\ Len(queue') <= Capacity
         /\ overflow' = Nothing \/ overflow' \in Instant \X Instant
         /\ drops' \in Nat /\ lost' \subseteq D /\ raced' \subseteq D
<1>1. queue \in Seq(D)
  BY Larger, Zenon DEF TypeOK
<1>2. now \in Instant /\ Len(queue) <= Capacity /\ drops \in Nat /\ lost \subseteq D /\ raced \subseteq D
      /\ (overflow = Nothing \/ overflow \in Instant \X Instant)
  BY Zenon DEF TypeOK
<1>3. CASE Len(queue) < Capacity
  <2>1. queue' = Append(queue, e) /\ UNCHANGED <<overflow, drops, lost, raced>>
    BY Zenon, <1>3 DEF Offer
  <2>2. Append(queue, e) \in Seq(D) /\ Len(Append(queue, e)) = Len(queue) + 1
    BY Zenon, <1>1, Queued
  <2>3. Len(Append(queue, e)) <= Capacity
    BY <1>1, <1>3, <2>2, RecorderAssumption
  <2>4. QED
    BY Zenon, <1>2, <2>1, <2>2, <2>3
<1>4. CASE ~(Len(queue) < Capacity)
  <2>1. /\ drops' = drops + 1 /\ lost' = lost \cup {e} /\ queue' = queue
        /\ overflow' = IF overflow = Nothing THEN <<now, now>> ELSE <<overflow[1], now>>
        /\ raced' = IF note = Nothing THEN raced ELSE raced \cup {e}
    BY Zenon, <1>4 DEF Offer
  <2>2. overflow' \in Instant \X Instant
    BY <1>2, <2>1
  <2>3. QED
    BY <1>1, <1>2, <2>1, <2>2
<1>5. QED
  BY Zenon, <1>3, <1>4

LEMMA EmitTypes ==
  ASSUME TypeOK, NumberInv, Emit
  PROVE  TypeOK'
<1> DEFINE n == Cardinality(Numbers(boot)) + 1
           e == <<boot, n>>
<1>1. /\ Stamp /\ n <= MaxSeq
      /\ at' = [x \in DOMAIN at \cup {e} |-> IF x = e THEN now ELSE at[x]]
      /\ IF phase # "off" THEN Offer(e) ELSE UNCHANGED <<intakeVars, lost, raced>>
      /\ UNCHANGED <<boot, recVars, storeVars, forgotten, arrived, recounted, expired>>
  BY Zenon DEF Emit
<1>2. e \in Event
  BY Zenon, <1>1, NewEvent
<1> HIDE DEF e, n
<1>3. now \in Instant /\ now' \in Instant
  BY Zenon, <1>1, Tick
<1>4. DOMAIN at' = DOMAIN at \cup {e} /\ DOMAIN at \subseteq DOMAIN at' /\ e \in DOMAIN at'
  BY Zenon, <1>1
<1>5. DOMAIN at' \subseteq Event /\ \A x \in DOMAIN at' : at'[x] \in Instant
  BY Zenon, <1>1, <1>2, <1>3, <1>4 DEF TypeOK
<1>6. /\ queue' \in Seq(DOMAIN at') /\ Len(queue') <= Capacity
      /\ overflow' = Nothing \/ overflow' \in Instant \X Instant
      /\ drops' \in Nat /\ lost' \subseteq DOMAIN at' /\ raced' \subseteq DOMAIN at'
  <2>1. CASE phase # "off"
    BY Zenon, <1>1, <1>4, <2>1, OfferTypes
  <2>2. CASE phase = "off"
    <3>1. UNCHANGED <<queue, overflow, drops, lost, raced>>
      BY Zenon, <1>1, <2>2 DEF intakeVars
    <3>2. queue' \in Seq(DOMAIN at')
      BY Zenon, <1>4, <3>1, Larger DEF TypeOK
    <3>3. QED
      BY Zenon, <1>4, <3>1, <3>2 DEF TypeOK
  <2>3. QED
    BY Zenon, <2>1, <2>2
<1>7. UNCHANGED <<boot, phase, plan, since, dropped, note, sweep, held, marks, cover, rows,
                  points, forgotten, arrived, recounted, expired>>
  BY Zenon, <1>1 DEF recVars, storeVars
<1>8. held' \subseteq DOMAIN at' /\ forgotten' \subseteq DOMAIN at'
  BY Zenon, <1>4, <1>7 DEF TypeOK
<1>9. QED
  BY Zenon, <1>3, <1>5, <1>6, <1>7, <1>8 DEF TypeOK

LEMMA ResendTypes ==
  ASSUME TypeOK, NEW e \in Event, Resend(e)
  PROVE  TypeOK'
<1>1. /\ Stamp /\ e \in DOMAIN at /\ Offer(e)
      /\ UNCHANGED <<boot, at, recVars, storeVars, forgotten, arrived, recounted, expired>>
  BY Zenon DEF Resend
<1>2. now' \in Instant
  BY Zenon, <1>1, Tick
<1>3. /\ queue' \in Seq(DOMAIN at) /\ Len(queue') <= Capacity
      /\ overflow' = Nothing \/ overflow' \in Instant \X Instant
      /\ drops' \in Nat /\ lost' \subseteq DOMAIN at /\ raced' \subseteq DOMAIN at
  BY Zenon, <1>1, OfferTypes
<1>4. UNCHANGED <<boot, at, phase, plan, since, dropped, note, sweep, held, marks, cover, rows,
                  points, forgotten, arrived, recounted, expired>>
  BY Zenon, <1>1 DEF recVars, storeVars
<1>5. QED
  BY Zenon, <1>2, <1>3, <1>4 DEF TypeOK

\* What a row holds after one more event.
LEMMA CountedRow ==
  ASSUME NEW r \in Row, NEW n \in 1 .. MaxSeq, NEW e, e[2] = n, at[e] \in Instant
  PROVE  /\ Counted(r, e) \in Row
         /\ Counted(r, e).seen = r.seen + 1
         /\ r.seen = 0 => Counted(r, e).lowest = n /\ Counted(r, e).highest = n
         /\ r.seen # 0 =>
              /\ Counted(r, e).lowest \in {r.lowest, n} /\ Counted(r, e).highest \in {r.highest, n}
              /\ Counted(r, e).lowest <= r.lowest /\ Counted(r, e).lowest <= n
              /\ r.highest <= Counted(r, e).highest /\ n <= Counted(r, e).highest
<1>1. /\ r.lowest \in 0 .. MaxSeq /\ r.highest \in 0 .. MaxSeq /\ r.seen \in Nat
      /\ r.declared \in BOOLEAN /\ r.last \in Instant /\ n \in 0 .. MaxSeq
      /\ MaxSeq \in Nat /\ MaxTime \in Nat
  BY RecorderAssumption DEF Row
<1>2. /\ Min({r.lowest, n}) \in {r.lowest, n} /\ Min({r.lowest, n}) <= r.lowest
      /\ Min({r.lowest, n}) <= n
  BY Zenon, <1>1, Pair
<1>3. /\ Max({r.highest, n}) \in {r.highest, n} /\ r.highest <= Max({r.highest, n})
      /\ n <= Max({r.highest, n})
  BY Zenon, <1>1, Pair
<1>4. Max({r.last, at[e]}) \in {r.last, at[e]}
  BY Zenon, <1>1, Pair DEF Instant
<1> DEFINE lo == IF r.seen = 0 THEN n ELSE Min({r.lowest, n})
           hi == IF r.seen = 0 THEN n ELSE Max({r.highest, n})
           la == Max({r.last, at[e]})
<1>5. lo \in 0 .. MaxSeq /\ hi \in 0 .. MaxSeq /\ la \in Instant /\ r.seen + 1 \in Nat
  BY <1>1, <1>2, <1>3, <1>4
<1>6. Counted(r, e) = [r EXCEPT !.lowest = lo, !.highest = hi, !.seen = r.seen + 1, !.last = la]
  BY Zenon DEF Counted
<1> HIDE DEF lo, hi, la
<1>7. /\ Counted(r, e).lowest = lo /\ Counted(r, e).highest = hi
      /\ Counted(r, e).seen = r.seen + 1
  BY <1>6 DEF Row
<1>8. Counted(r, e) \in Row
  BY Zenon, <1>1, <1>5, <1>6 DEF Row
<1>9. QED
  BY Zenon, <1>2, <1>3, <1>7, <1>8 DEF lo, hi

\* The next event is recorded and counted, or left to the session.
LEMMA RecordTypes ==
  ASSUME TypeOK, Record
  PROVE  TypeOK'
<1> DEFINE e == Head(queue)
<1>1. /\ queue # <<>> /\ queue' = Tail(queue)
      /\ IF ~On \/ e \in held
           THEN UNCHANGED <<held, rows, arrived, recounted>>
           ELSE /\ held' = held \cup {e}
                /\ rows' = [rows EXCEPT ![e[1]] = Counted(@, e)]
                /\ arrived' = [arrived EXCEPT ![e[1]] = @ \cup {e[2]}]
                /\ recounted' = (recounted \/ e[2] \in arrived[e[1]])
      /\ forgotten' = IF On THEN forgotten ELSE forgotten \cup {e}
      /\ UNCHANGED <<now, boot, at, overflow, drops, recVars, marks, cover, points,
                     lost, raced, expired>>
  BY Zenon DEF Record
<1>2. queue \in Seq(DOMAIN at)
  BY Zenon DEF TypeOK
<1>3. Tail(queue) \in Seq(DOMAIN at) /\ e \in DOMAIN at
  BY Zenon, <1>1, <1>2, Unqueued
<1>4. Len(queue') <= Capacity
  <2>1. Len(Tail(queue)) = Len(queue) - 1
    BY Zenon, <1>1, <1>2, Unqueued
  <2>2. Len(queue) <= Capacity
    BY Zenon DEF TypeOK
  <2>3. Len(queue) \in Nat
    BY <1>2
  <2>4. QED
    BY <1>1, <2>1, <2>2, <2>3, RecorderAssumption
<1>5. e \in Event /\ at[e] \in Instant
  BY Zenon, <1>3 DEF TypeOK
<1> HIDE DEF e
<1>6. e[1] \in Boots /\ e[2] \in 1 .. MaxSeq
  BY <1>5 DEF Event
<1>7. /\ held' \subseteq DOMAIN at /\ rows' \in [Boots -> Row]
      /\ arrived' \in [Boots -> SUBSET (1 .. MaxSeq)] /\ recounted' \in BOOLEAN
  <2>0. /\ held \subseteq DOMAIN at /\ rows \in [Boots -> Row]
        /\ arrived \in [Boots -> SUBSET (1 .. MaxSeq)] /\ recounted \in BOOLEAN
    BY Zenon DEF TypeOK
  <2>1. CASE ~On \/ e \in held
    BY Zenon, <2>0, <1>1, <2>1
  <2>2. CASE ~(~On \/ e \in held)
    <3>1. /\ held' = held \cup {e}
          /\ rows' = [rows EXCEPT ![e[1]] = Counted(rows[e[1]], e)]
          /\ arrived' = [arrived EXCEPT ![e[1]] = arrived[e[1]] \cup {e[2]}]
          /\ recounted' = (recounted \/ e[2] \in arrived[e[1]])
      BY Zenon, <1>1, <2>2
    <3>2. rows[e[1]] \in Row
      BY Zenon, <1>6, <2>0
    <3>3. Counted(rows[e[1]], e) \in Row
      BY Zenon, <1>5, <1>6, <3>2, CountedRow
    <3>4. rows' \in [Boots -> Row]
      BY Zenon, <2>0, <3>1, <3>3
    <3>5. arrived' \in [Boots -> SUBSET (1 .. MaxSeq)]
      BY <1>6, <2>0, <3>1
    <3>6. held' \subseteq DOMAIN at /\ recounted' \in BOOLEAN
      BY Zenon, <1>3, <2>0, <3>1
    <3>7. QED
      BY Zenon, <3>4, <3>5, <3>6
  <2>3. QED
    BY Zenon, <2>1, <2>2
<1>8. forgotten' \subseteq DOMAIN at
  BY Zenon, <1>1, <1>3 DEF TypeOK
<1>9. UNCHANGED <<now, boot, at, overflow, drops, phase, plan, since, dropped, note, sweep,
                  marks, cover, points, lost, raced, expired>>
  BY Zenon, <1>1 DEF recVars
<1>10. QED
  BY Zenon, <1>1, <1>3, <1>4, <1>7, <1>8, <1>9 DEF TypeOK

\* Stamps are instants, and those of a store that holds something have a first
\* and a last.
LEMMA StampTypes ==
  ASSUME TypeOK
  PROVE  /\ Stamps \subseteq Instant
         /\ Stamps # {} => /\ Min(Stamps) \in Stamps /\ \A t \in Stamps : Min(Stamps) <= t
                           /\ Max(Stamps) \in Stamps /\ \A t \in Stamps : t <= Max(Stamps)
<1>1. Stamps \subseteq Instant
  BY Zenon DEF TypeOK, Stamps
<1>2. MaxTime \in Nat /\ Stamps \in SUBSET (0 .. MaxTime)
  BY Zenon, <1>1, RecorderAssumption DEF Instant
<1>3. Stamps \in SUBSET Nat
  BY <1>2
<1>4. QED
  BY Zenon, <1>1, <1>2, <1>3, MinOf, MaxOf

\* Expired coverage gives way to coverage between instants.
LEMMA CoverKeptTypes ==
  ASSUME TypeOK, NEW bound \in Int, bound <= MaxTime
  PROVE  CoverKept(bound) \subseteq Instant \X Instant \X {"complete", "unavailable"}
<1> DEFINE gone == {c \in cover : c[2] < bound}
           firsts == {c[1] : c \in gone}
<1>0. cover \subseteq Instant \X Instant \X {"complete", "unavailable"}
  BY Zenon DEF TypeOK
<1>1. CASE gone = {}
  BY Zenon, <1>0, <1>1 DEF CoverKept
<1>2. CASE gone # {}
  <2>1. PICK d \in gone : TRUE
    BY Zenon, <1>2
  <2>2. d[2] \in Instant /\ d[2] < bound
    BY <1>0
  <2>3. bound \in Instant
    BY <2>2, RecorderAssumption DEF Instant
  <2>4. firsts \in SUBSET Nat /\ firsts # {} /\ firsts \subseteq Instant
    BY <1>0, <2>1 DEF Instant
  <2>5. Min(firsts) \in Instant
    BY Zenon, <2>4, MinOf
  <2>6. CoverKept(bound) = (cover \ gone) \cup {<<Min(firsts), bound, "unavailable">>}
    BY Zenon, <1>2 DEF CoverKept
  <2> HIDE DEF firsts, gone
  <2>7. QED
    BY <1>0, <2>3, <2>5, <2>6
<1>3. QED
  BY Zenon, <1>1, <1>2

\* The boundary of a sweep is an instant, or older than all.
LEMMA BoundaryTypes ==
  ASSUME TypeOK, sweep # Nothing, Boundary # Nothing
  PROVE  /\ Boundary[1] \in Int /\ Boundary[1] <= MaxTime
         /\ Stamps # {} => Boundary[1] = Min(Stamps)
<1>1. CASE Stamps # {}
  <2>1. Boundary = <<Min(Stamps)>> /\ Min(Stamps) \in Instant
    BY Zenon, <1>1, StampTypes DEF Boundary
  <2>2. Boundary[1] = Min(Stamps)
    BY <2>1
  <2>3. QED
    BY <2>1, <2>2, RecorderAssumption DEF Instant
<1>2. CASE Stamps = {}
  <2>1. sweep \in BOOLEAN \X {t \in Int : t <= MaxTime}
    BY Zenon DEF TypeOK
  <2>2. Boundary = <<sweep[2]>>
    BY Zenon, <1>2 DEF Boundary
  <2>3. QED
    BY <1>2, <2>1, <2>2
<1>3. QED
  BY Zenon, <1>1, <1>2

LEMMA SweepRestTypes ==
  ASSUME TypeOK, SweepRest
  PROVE  TypeOK'
<1>1. /\ sweep # Nothing /\ sweep' = Nothing
      /\ IF Boundary = Nothing
           THEN UNCHANGED <<cover, points>>
           ELSE cover' = CoverKept(Boundary[1]) /\ points' = PointsKept(Boundary[1])
      /\ UNCHANGED <<now, boot, at, queue, overflow, drops, phase, plan, since, dropped, note,
                     held, marks, rows, lost, raced, forgotten, arrived, recounted, expired>>
  BY Zenon DEF SweepRest, intakeVars
<1>2. /\ cover' \subseteq Instant \X Instant \X {"complete", "unavailable"}
      /\ points' \subseteq Instant
  <2>1. CASE Boundary = Nothing
    BY Zenon, <1>1, <2>1 DEF TypeOK
  <2>2. CASE Boundary # Nothing
    <3>1. Boundary[1] \in Int /\ Boundary[1] <= MaxTime
      BY Zenon, <1>1, <2>2, BoundaryTypes
    <3>2. CoverKept(Boundary[1]) \subseteq Instant \X Instant \X {"complete", "unavailable"}
      BY Zenon, <3>1, CoverKeptTypes
    <3>3. points \subseteq Instant
      BY Zenon DEF TypeOK
    <3>4. PointsKept(Boundary[1]) \subseteq Instant
      BY Zenon, <3>3 DEF PointsKept
    <3>5. QED
      BY Zenon, <1>1, <2>2, <3>2, <3>4
  <2>3. QED
    BY Zenon, <2>1, <2>2
<1>3. QED
  BY Zenon, <1>1, <1>2 DEF TypeOK

LEMMA SweepEventsTypes ==
  ASSUME TypeOK, SweepEvents
  PROVE  TypeOK'
<1>1. PICK over \in BOOLEAN :
        /\ held' = {e \in held : at[e] \notin Doomed(over)}
        /\ marks' = marks \ Doomed(over)
        /\ expired' = expired \cup Doomed(over)
        /\ sweep' = <<Doomed(over) # {}, Horizon>>
  BY Zenon DEF SweepEvents
<1>2. UNCHANGED <<now, boot, at, queue, overflow, drops, phase, plan, since, dropped, note, cover,
                  rows, points, lost, raced, forgotten, arrived, recounted>>
  BY Zenon DEF SweepEvents, intakeVars
<1>3. Stamps \subseteq Instant
  BY Zenon, StampTypes
<1>4. Doomed(over) \subseteq Stamps
  BY Zenon DEF Doomed
<1>5. Horizon \in Int /\ Horizon <= MaxTime
  <2>1. now \in Instant
    BY Zenon DEF TypeOK
  <2>2. QED
    BY <2>1, RecorderAssumption DEF Horizon, Instant
<1>6. sweep' \in BOOLEAN \X {t \in Int : t <= MaxTime}
  <2>1. (Doomed(over) # {}) \in BOOLEAN
    BY Zenon
  <2>2. QED
    BY Zenon, <1>1, <1>5, <2>1
<1>7. held' \subseteq DOMAIN at /\ marks' \subseteq Instant /\ expired' \subseteq Instant
  BY Zenon, <1>1, <1>3, <1>4 DEF TypeOK
<1>8. QED
  BY Zenon, <1>2, <1>6, <1>7 DEF TypeOK

LEMMA StartTypes ==
  ASSUME TypeOK, Start
  PROVE  TypeOK'
<1>1. /\ Stamp /\ phase' = "gaps" /\ since' = now /\ plan' = DowntimeGaps \cup SequenceGaps
      /\ rows' = [rows EXCEPT ![boot] =
           IF rows[boot] = NoRow THEN [NoRow EXCEPT !.declared = TRUE, !.last = now]
                                 ELSE [rows[boot] EXCEPT !.declared = TRUE]]
      /\ UNCHANGED <<boot, at, queue, overflow, drops, dropped, note, sweep, held, marks, cover,
                     points, lost, raced, forgotten, arrived, recounted, expired>>
  BY Zenon DEF Start, intakeVars, histVars
<1>2. now \in Instant /\ now' \in Instant
  BY Zenon, <1>1, Tick
<1>3. boot \in Boots /\ rows \in [Boots -> Row] /\ rows[boot] \in Row
  BY Zenon DEF TypeOK
<1>4. [NoRow EXCEPT !.declared = TRUE, !.last = now] \in Row
  <2>1. NoRow \in Row
    BY RecorderAssumption DEF NoRow, Row, Instant
  <2>2. \A r \in Row : [r EXCEPT !.declared = TRUE, !.last = now] \in Row
    BY Zenon, <1>2 DEF Row
  <2>3. QED
    BY Zenon, <2>1, <2>2
<1>5. [rows[boot] EXCEPT !.declared = TRUE] \in Row
  BY Zenon, <1>3 DEF Row
<1>6. rows' \in [Boots -> Row]
  <2>1. PICK r \in Row : rows' = [rows EXCEPT ![boot] = r]
    <3>1. CASE rows[boot] = NoRow
      BY Zenon, <1>1, <1>4, <3>1
    <3>2. CASE rows[boot] # NoRow
      BY Zenon, <1>1, <1>5, <3>2
    <3>3. QED
      BY Zenon, <3>1, <3>2
  <2>2. QED
    BY <1>3, <2>1
<1>7. DowntimeGaps \subseteq Instant \X Instant \X {"unavailable"}
  <2>1. CASE Stamps = {} \/ Max(Stamps) >= now
    BY Zenon, <2>1 DEF DowntimeGaps
  <2>2. CASE ~(Stamps = {} \/ Max(Stamps) >= now)
    <3>1. Max(Stamps) \in Instant
      BY Zenon, <2>2, StampTypes
    <3>2. DowntimeGaps = {<<Max(Stamps), now, "unavailable">>}
      BY Zenon, <2>2 DEF DowntimeGaps
    <3>3. QED
      BY <1>2, <3>1, <3>2
  <2>3. QED
    BY Zenon, <2>1, <2>2
<1>8. SequenceGaps \subseteq Instant \X Instant \X {"unavailable"}
  <2>1. \A b \in Boots : rows[b].last \in Instant
    BY <1>3 DEF Row
  <2>2. QED
    BY <2>1 DEF SequenceGaps
<1>9. plan' \subseteq Instant \X Instant \X {"unavailable"}
  BY Zenon, <1>1, <1>7, <1>8
<1>10. QED
  BY Zenon, <1>1, <1>2, <1>6, <1>9 DEF TypeOK

\* The steps of note_overflow.
LEMMA NoteTypes ==
  ASSUME TypeOK, NoteRead \/ NoteCover \/ NoteClear
  PROVE  TypeOK'
<1>0. /\ now \in Instant
      /\ overflow = Nothing \/ overflow \in Instant \X Instant
      /\ drops \in Nat /\ dropped \in Nat
      /\ note = Nothing \/ note \in (Instant \X Instant) \X {"read", "store", "session"} \X Instant
      /\ cover \subseteq Instant \X Instant \X {"complete", "unavailable"}
      /\ marks \subseteq Instant /\ lost \subseteq DOMAIN at /\ raced \subseteq DOMAIN at
  BY Zenon DEF TypeOK
<1>1. CASE NoteRead
  <2>1. /\ Stamp /\ note' = <<overflow, "read", now>> /\ dropped' = dropped + drops
        /\ overflow # Nothing
        /\ UNCHANGED <<boot, at, queue, overflow, drops, phase, plan, since, sweep, held, marks,
                       cover, rows, points, lost, raced, forgotten, arrived, recounted, expired>>
    BY Zenon, <1>1 DEF NoteRead, intakeVars, storeVars, histVars
  <2>2. now' \in Instant
    BY Zenon, <2>1, Tick
  <2>3. note' \in (Instant \X Instant) \X {"read", "store", "session"} \X Instant
        /\ dropped' \in Nat
    BY <1>0, <2>1
  <2>4. QED
    BY Zenon, <2>1, <2>2, <2>3 DEF TypeOK
<1>2. CASE NoteCover
  <2>1. /\ note # Nothing /\ note' = <<note[1], Current, note[3]>>
        /\ cover' = IF Current = "store"
                      THEN cover \cup {<<note[1][1], note[1][2], "unavailable">>} ELSE cover
        /\ raced' = IF Current = "store" THEN raced ELSE raced \cup LostIn(note[1])
        /\ UNCHANGED <<now, boot, at, queue, overflow, drops, phase, plan, since, dropped, sweep,
                       held, marks, rows, points, lost, forgotten, arrived, recounted, expired>>
    BY Zenon, <1>2 DEF NoteCover, intakeVars
  <2>2. note[1] \in Instant \X Instant /\ note[3] \in Instant
        /\ note[1][1] \in Instant /\ note[1][2] \in Instant
    BY <1>0, <2>1
  <2>3. Current \in {"read", "store", "session"}
    BY Zenon DEF Current
  <2>4. note' \in (Instant \X Instant) \X {"read", "store", "session"} \X Instant
    BY <2>1, <2>2, <2>3
  <2>5. cover' \subseteq Instant \X Instant \X {"complete", "unavailable"}
    BY <1>0, <2>1, <2>2
  <2>6. raced' \subseteq DOMAIN at
    BY Zenon, <1>0, <2>1 DEF LostIn
  <2>7. QED
    BY Zenon, <2>1, <2>4, <2>5, <2>6 DEF TypeOK
<1>3. CASE NoteClear
  <2>1. /\ note # Nothing /\ overflow' = Nothing /\ note' = Nothing
        /\ marks' = IF note[2] = "store" THEN marks \cup {note[3]} ELSE marks
        /\ UNCHANGED <<now, boot, at, queue, drops, phase, plan, since, dropped, sweep, held,
                       cover, rows, points, lost, raced, forgotten, arrived, recounted, expired>>
    BY Zenon, <1>3 DEF NoteClear, histVars
  <2>2. note[3] \in Instant
    BY <1>0, <2>1
  <2>3. marks' \subseteq Instant
    BY Zenon, <1>0, <2>1, <2>2
  <2>4. QED
    BY Zenon, <2>1, <2>3 DEF TypeOK
<1>4. QED
  BY Zenon, <1>1, <1>2, <1>3

\* The steps of a start, a stop and a checkpoint, and a removed history.
LEMMA ShellTypes ==
  ASSUME TypeOK,
         RecordGaps \/ MarkGaps \/ OpenCoverage \/ Running \/ Stop \/ Stopped \/ Checkpoint \/ Purge
  PROVE  TypeOK'
<1>0. /\ now \in Instant /\ since \in Instant /\ boot \in Boots
      /\ plan \subseteq Instant \X Instant \X {"unavailable"}
      /\ cover \subseteq Instant \X Instant \X {"complete", "unavailable"}
      /\ marks \subseteq Instant /\ points \subseteq Instant
  BY Zenon DEF TypeOK
<1>1. CASE RecordGaps
  <2>1. plan \subseteq Instant \X Instant \X {"complete", "unavailable"}
    BY <1>0
  <2>2. QED
    BY Zenon, <1>0, <1>1, <2>1 DEF RecordGaps, TypeOK, intakeVars, histVars
<1>2. CASE MarkGaps \/ Running
  BY Zenon, <1>0, <1>2 DEF MarkGaps, Running, TypeOK, intakeVars, histVars
<1>3. CASE OpenCoverage
  <2>1. <<since, since, "complete">> \in Instant \X Instant \X {"complete", "unavailable"}
    BY <1>0
  <2>2. QED
    BY Zenon, <1>0, <1>3, <2>1 DEF OpenCoverage, TypeOK, intakeVars, histVars
<1>4. CASE Stop
  <2>1. <<since, now, "complete">> \in Instant \X Instant \X {"complete", "unavailable"}
    BY <1>0
  <2>2. now' \in Instant
    BY Zenon, <1>4, Tick DEF Stop
  <2>3. QED
    BY Zenon, <1>0, <1>4, <2>1, <2>2 DEF Stop, TypeOK, intakeVars, histVars
<1>5. CASE Stopped
  <2>1. 0 \in Instant
    BY RecorderAssumption DEF Instant
  <2>2. QED
    BY Zenon, <1>5, <2>1 DEF Stopped, TypeOK, intakeVars, storeVars, histVars
<1>6. CASE Checkpoint
  <2>1. now' \in Instant
    BY Zenon, <1>6, Tick DEF Checkpoint
  <2>2. QED
    BY Zenon, <1>0, <1>6, <2>1 DEF Checkpoint, TypeOK, intakeVars, recVars, histVars
<1>7. CASE Purge
  <2>1. NoRow \in Row
    BY RecorderAssumption DEF NoRow, Row, Instant
  <2>2. [b \in Boots |-> NoRow] \in [Boots -> Row]
    BY Zenon, <2>1
  <2>3. [b \in Boots |-> {}] \in [Boots -> SUBSET (1 .. MaxSeq)]
    BY Zenon
  <2>4. QED
    BY Zenon, <1>7, <2>2, <2>3 DEF Purge, TypeOK, intakeVars, recVars
<1>8. QED
  BY Zenon, <1>1, <1>2, <1>3, <1>4, <1>5, <1>6, <1>7

LEMMA CrashTypes ==
  ASSUME TypeOK, Crash
  PROVE  TypeOK'
<1>1. PICK b \in {boot, boot + 1} \cap Boots : boot' = b
  BY Zenon DEF Crash
<1>2. Range(queue) \subseteq DOMAIN at
  <2>1. queue \in Seq(DOMAIN at)
    BY Zenon DEF TypeOK
  <2>2. QED
    BY <2>1 DEF Range
<1>3. LostIn(overflow) \subseteq DOMAIN at
  BY Zenon DEF LostIn, TypeOK
<1>4. 0 \in Instant /\ 0 \in Nat
  BY RecorderAssumption DEF Instant
<1>5. <<>> \in Seq(DOMAIN at) /\ Len(<<>>) <= Capacity
  BY RecorderAssumption
<1>6. /\ boot' \in Boots /\ queue' = <<>> /\ overflow' = Nothing /\ drops' = 0 /\ dropped' = 0
      /\ phase' = "off" /\ plan' = {} /\ note' = Nothing /\ sweep' = Nothing /\ since' = 0
      /\ forgotten' = forgotten \cup Range(queue)
      /\ raced' = raced \cup LostIn(overflow)
      /\ UNCHANGED <<now, at, held, marks, cover, rows, points, lost, arrived, recounted, expired>>
  BY Zenon, <1>1 DEF Crash, storeVars
<1>7. forgotten' \subseteq DOMAIN at /\ raced' \subseteq DOMAIN at
  BY Zenon, <1>2, <1>3, <1>6 DEF TypeOK
<1>8. QED
  BY Zenon, <1>4, <1>5, <1>6, <1>7 DEF TypeOK

LEMMA TypeStep == TypeOK /\ NumberInv /\ [Next]_vars => TypeOK'
<1> SUFFICES ASSUME TypeOK, NumberInv, [Next]_vars PROVE TypeOK'
  OBVIOUS
<1>1. CASE UNCHANGED vars
  BY Zenon, <1>1 DEF vars, intakeVars, recVars, storeVars, histVars, TypeOK
<1>2. CASE Next
  BY Zenon, <1>2, EmitTypes, ResendTypes, RecordTypes, NoteTypes, ShellTypes, SweepEventsTypes,
     SweepRestTypes, StartTypes, CrashTypes DEF Next
<1>3. QED
  BY Zenon, <1>1, <1>2

LEMMA TypeInit == Init => TypeOK /\ NumberInv
<1> SUFFICES ASSUME Init PROVE TypeOK /\ NumberInv
  OBVIOUS
<1>1. DOMAIN at = {}
  BY DEF Init, Nothing
<1>2. NoRow \in Row
  BY RecorderAssumption DEF NoRow, Row, Instant
<1>3. [b \in Boots |-> NoRow] \in [Boots -> Row]
  BY Zenon, <1>2
<1>4. 0 \in Instant /\ 0 \in Boots /\ 0 \in Nat
  BY RecorderAssumption DEF Instant, Boots
<1>5. <<>> \in Seq(DOMAIN at) /\ Len(<<>>) <= Capacity
  BY RecorderAssumption
<1>6. TypeOK
  BY Zenon, <1>1, <1>3, <1>4, <1>5 DEF Init, TypeOK
<1>7. \A b \in Boots : Numbers(b) = {}
  BY Zenon, <1>1 DEF Numbers
<1>8. NumberInv
  BY <1>7, FS_EmptySet DEF NumberInv
<1>9. QED
  BY Zenon, <1>6, <1>8

-----------------------------------------------------------------------------
(* The clock *)

\* Only the source adds an event, and it adds one that is new.
LEMMA Happens ==
  ASSUME TypeOK, NumberInv, [Next]_vars
  PROVE  \/ at' = at
         \/ /\ Emit
            /\ \E e \in Event : /\ e = <<boot, Cardinality(Numbers(boot)) + 1>>
                                /\ e \notin DOMAIN at /\ DOMAIN at' = DOMAIN at \cup {e}
                                /\ at'[e] = now /\ \A x \in DOMAIN at : at'[x] = at[x]
<1>1. CASE Emit
  <2> DEFINE e == <<boot, Cardinality(Numbers(boot)) + 1>>
  <2>1. /\ Cardinality(Numbers(boot)) + 1 <= MaxSeq
        /\ at' = [x \in DOMAIN at \cup {e} |-> IF x = e THEN now ELSE at[x]]
    BY Zenon, <1>1 DEF Emit
  <2>2. e \in Event /\ e \notin DOMAIN at
    BY Zenon, <2>1, NewEvent
  <2>3. DOMAIN at' = DOMAIN at \cup {e} /\ at'[e] = now /\ \A x \in DOMAIN at : at'[x] = at[x]
    <3> HIDE DEF e
    <3>1. QED
      BY Zenon, <2>1, <2>2
  <2>4. QED
    BY Zenon, <1>1, <2>2, <2>3
<1>2. CASE ~Emit
  BY Zenon, <1>2 DEF Next, vars, Record, NoteRead, NoteCover, NoteClear, Checkpoint, Purge,
     SweepEvents, SweepRest, Start, RecordGaps, MarkGaps, OpenCoverage, Running, Stop, Stopped,
     Crash, Resend
<1>3. QED
  BY Zenon, <1>1, <1>2

LEMMA NumberStep == TypeOK /\ NumberInv /\ [Next]_vars => NumberInv'
<1> SUFFICES ASSUME TypeOK, NumberInv, [Next]_vars PROVE NumberInv'
  OBVIOUS
<1>1. CASE at' = at
  BY Zenon, <1>1 DEF NumberInv, Numbers
<1>2. ASSUME NEW e \in Event, e = <<boot, Cardinality(Numbers(boot)) + 1>>,
             DOMAIN at' = DOMAIN at \cup {e}
      PROVE  NumberInv'
  <2> SUFFICES ASSUME NEW b \in Boots
               PROVE  Numbers(b)' = 1 .. Cardinality(Numbers(b)')
    BY Zenon DEF NumberInv
  <2>1. boot \in Boots
    BY Zenon DEF TypeOK
  <2>2. e[1] = boot /\ e[2] = Cardinality(Numbers(boot)) + 1
    BY <1>2
  <2>3. CASE b # boot
    <3>1. {x \in DOMAIN at' : x[1] = b} = {x \in DOMAIN at : x[1] = b}
      BY Zenon, <1>2, <2>2, <2>3
    <3>2. Numbers(b)' = Numbers(b)
      BY Zenon, <3>1 DEF Numbers
    <3>3. QED
      BY Zenon, <3>2 DEF NumberInv
  <2>4. CASE b = boot
    <3> DEFINE n == Cardinality(Numbers(b))
    <3>1. Numbers(b)' = Numbers(b) \cup {n + 1}
      <4>1. {x \in DOMAIN at' : x[1] = b} = {x \in DOMAIN at : x[1] = b} \cup {e}
        BY Zenon, <1>2, <2>2, <2>4
      <4>2. e[2] = n + 1
        BY Zenon, <2>2, <2>4
      <4> HIDE DEF n
      <4>3. QED
        BY Zenon, <4>1, <4>2 DEF Numbers
    <3>2. n \in Nat /\ Numbers(b) = 1 .. n
      BY Zenon, NumbersFinite DEF NumberInv
    <3> HIDE DEF n
    <3>3. Numbers(b)' = 1 .. n + 1
      BY <3>1, <3>2
    <3>4. Cardinality(1 .. n + 1) = n + 1
      BY <3>2, FS_Interval
    <3>5. QED
      BY Zenon, <3>3, <3>4
  <2>5. QED
    BY Zenon, <2>3, <2>4
<1>3. QED
  BY Zenon, <1>1, <1>2, Happens

\* Where nothing is stamped nothing is older than it was.
LEMMA ClockKept ==
  ASSUME TypeOK, Clock, at' = at, marks' = marks, overflow' = overflow, note' = note,
         phase' = phase, since' = since, now' = now \/ Stamp
  PROVE  Clock'
<1>1. now \in Int /\ (now' = now \/ now' = now + 1)
  <2>1. now \in Instant /\ (now' = now \/ now' = now + 1)
    BY Zenon, Tick DEF TypeOK
  <2>2. QED
    BY <2>1, RecorderAssumption DEF Instant
<1>2. \A t \in Int : t < now => t < now'
  BY <1>1
<1>3. /\ \A e \in DOMAIN at : at[e] \in Int
      /\ \A m \in marks : m \in Int
      /\ overflow # Nothing => overflow[2] \in Int
      /\ note # Nothing => note[3] \in Int
      /\ since \in Int
  <2>1. /\ \A e \in DOMAIN at : at[e] \in Instant
        /\ \A m \in marks : m \in Instant
        /\ overflow # Nothing => overflow \in Instant \X Instant
        /\ note # Nothing => note \in (Instant \X Instant) \X {"read", "store", "session"} \X Instant
        /\ since \in Instant
    BY Zenon DEF TypeOK
  <2>2. QED
    BY <2>1, RecorderAssumption DEF Instant
<1>4. QED
  BY Zenon, <1>2, <1>3 DEF Clock

\* What the intake remembers after an event was offered.
LEMMA OfferClock ==
  ASSUME TypeOK, Clock, Stamp, NEW e, Offer(e)
  PROVE  /\ overflow' # Nothing => overflow'[1] <= overflow'[2] /\ overflow'[2] < now'
         /\ note # Nothing =>
              /\ overflow' # Nothing /\ overflow'[1] = note[1][1] /\ note[1][2] <= overflow'[2]
         /\ overflow # Nothing =>
              /\ overflow' # Nothing /\ overflow'[1] = overflow[1] /\ overflow[2] <= overflow'[2]
<1>1. now \in Int /\ now' = now + 1 /\ now \in Instant
  <2>1. now \in Instant /\ now' = now + 1
    BY Zenon, Tick
  <2>2. QED
    BY <2>1, RecorderAssumption DEF Instant
<1>2. overflow # Nothing =>
        /\ overflow[1] \in Int /\ overflow[2] \in Int
        /\ overflow[1] <= overflow[2] /\ overflow[2] < now
  <2>1. overflow # Nothing => overflow \in Instant \X Instant
    BY Zenon DEF TypeOK
  <2>2. overflow # Nothing => overflow[1] \in Int /\ overflow[2] \in Int
    BY <2>1, RecorderAssumption DEF Instant
  <2>3. QED
    BY Zenon, <2>2 DEF Clock
<1>3. note # Nothing => /\ overflow # Nothing /\ overflow[1] = note[1][1]
                        /\ note[1][2] <= overflow[2] /\ note[1][2] \in Int
  <2>1. note # Nothing => note \in (Instant \X Instant) \X {"read", "store", "session"} \X Instant
    BY Zenon DEF TypeOK
  <2>2. note # Nothing => note[1][2] \in Int
    BY <2>1, RecorderAssumption DEF Instant
  <2>3. QED
    BY Zenon, <2>2 DEF Clock
<1>4. CASE overflow' = overflow
  BY <1>1, <1>2, <1>3, <1>4
<1>5. CASE overflow' = IF overflow = Nothing THEN <<now, now>> ELSE <<overflow[1], now>>
  <2>1. overflow' # Nothing /\ overflow'[2] = now
        /\ overflow'[1] = IF overflow = Nothing THEN now ELSE overflow[1]
    BY <1>5 DEF Nothing
  <2>2. QED
    BY <1>1, <1>2, <1>3, <2>1
<1>6. QED
  BY Zenon, <1>4, <1>5 DEF Offer

\* An offered event is in the queue, or lost and remembered.
LEMMA OfferQueue ==
  ASSUME TypeOK, NEW D, DOMAIN at \subseteq D, NEW e \in D, Offer(e)
  PROVE  \/ Range(queue') = Range(queue) \cup {e} /\ UNCHANGED <<overflow, lost, raced>>
         \/ /\ queue' = queue /\ lost' = lost \cup {e}
            /\ overflow' = IF overflow = Nothing THEN <<now, now>> ELSE <<overflow[1], now>>
            /\ raced' = IF note = Nothing THEN raced ELSE raced \cup {e}
<1>1. queue \in Seq(D)
  BY Zenon, Larger DEF TypeOK
<1>2. Range(Append(queue, e)) = Range(queue) \cup {e}
  BY <1>1, Queued
<1>3. CASE Len(queue) < Capacity
  BY Zenon, <1>2, <1>3 DEF Offer
<1>4. CASE ~(Len(queue) < Capacity)
  BY Zenon, <1>4 DEF Offer
<1>5. QED
  BY Zenon, <1>3, <1>4

\* The event that happens.
LEMMA EmitIs ==
  ASSUME TypeOK, NumberInv, Emit
  PROVE  \E e \in Event :
           /\ e \notin DOMAIN at /\ DOMAIN at' = DOMAIN at \cup {e}
           /\ at'[e] = now /\ \A x \in DOMAIN at : at'[x] = at[x]
           /\ IF phase # "off" THEN Offer(e) ELSE UNCHANGED <<intakeVars, lost, raced>>
<1> DEFINE e == <<boot, Cardinality(Numbers(boot)) + 1>>
<1>1. /\ Cardinality(Numbers(boot)) + 1 <= MaxSeq
      /\ at' = [x \in DOMAIN at \cup {e} |-> IF x = e THEN now ELSE at[x]]
      /\ IF phase # "off" THEN Offer(e) ELSE UNCHANGED <<intakeVars, lost, raced>>
  BY Zenon DEF Emit
<1>2. e \in Event /\ e \notin DOMAIN at
  BY Zenon, <1>1, NewEvent
<1> HIDE DEF e
<1>3. DOMAIN at' = DOMAIN at \cup {e} /\ at'[e] = now /\ \A x \in DOMAIN at : at'[x] = at[x]
  BY Zenon, <1>1, <1>2
<1>4. QED
  BY Zenon, <1>1, <1>2, <1>3

LEMMA EmitClock ==
  ASSUME TypeOK, NumberInv, Clock, Phases, Emit
  PROVE  Clock' /\ Phases'
<1>1. PICK e \in Event :
        /\ e \notin DOMAIN at /\ DOMAIN at' = DOMAIN at \cup {e}
        /\ at'[e] = now /\ \A x \in DOMAIN at : at'[x] = at[x]
        /\ IF phase # "off" THEN Offer(e) ELSE UNCHANGED <<intakeVars, lost, raced>>
  BY Zenon, EmitIs
<1>2. Stamp /\ UNCHANGED <<marks, phase, since, note, sweep>>
  BY Zenon DEF Emit, recVars, storeVars
<1>3. now \in Instant /\ now \in Int /\ now' = now + 1
  <2>1. now \in Instant /\ now' = now + 1
    BY Zenon, <1>2, Tick
  <2>2. QED
    BY <2>1, RecorderAssumption DEF Instant
<1>4. now < now' /\ \A t \in Int : t < now => t < now' /\ t <= now
  BY <1>3
<1>5. /\ \A x \in DOMAIN at : at[x] \in Int
      /\ \A m \in marks : m \in Int
      /\ since \in Int /\ (note # Nothing => note[3] \in Int)
      /\ (overflow # Nothing => overflow[2] \in Int)
  <2>1. /\ \A x \in DOMAIN at : at[x] \in Instant
        /\ \A m \in marks : m \in Instant
        /\ since \in Instant
        /\ note # Nothing => note \in (Instant \X Instant) \X {"read", "store", "session"} \X Instant
        /\ overflow # Nothing => overflow \in Instant \X Instant
    BY Zenon DEF TypeOK
  <2>2. QED
    BY <2>1, RecorderAssumption DEF Instant
<1>6. \A x \in DOMAIN at' : at'[x] < now'
  BY Zenon, <1>1, <1>4, <1>5 DEF Clock
<1>7. /\ \A m \in marks' : m < now'
      /\ phase' # "off" => since' < now'
      /\ note' # Nothing => note'[3] < now'
  BY Zenon, <1>2, <1>4, <1>5 DEF Clock
<1>8. /\ overflow' # Nothing => overflow'[1] <= overflow'[2] /\ overflow'[2] < now'
      /\ note' # Nothing =>
           /\ overflow' # Nothing /\ overflow'[1] = note'[1][1] /\ note'[1][2] <= overflow'[2]
  <2>1. CASE phase # "off"
    BY Zenon, <1>1, <1>2, <2>1, OfferClock
  <2>2. CASE phase = "off"
    BY Zenon, <1>1, <1>2, <1>4, <1>5, <2>2 DEF Clock, intakeVars
  <2>3. QED
    BY Zenon, <2>1, <2>2
<1>9. Clock'
  BY Zenon, <1>6, <1>7, <1>8 DEF Clock
<1>10. ASSUME phase' # "off", NEW x \in Range(queue') PROVE since' <= at'[x]
  <2>1. phase # "off" /\ Offer(e)
    BY Zenon, <1>1, <1>2, <1>10
  <2>2. x \in Range(queue) \/ x = e
    BY Zenon, <1>1, <1>10, <2>1, OfferQueue
  <2>3. Range(queue) \subseteq DOMAIN at
    <3>1. queue \in Seq(DOMAIN at)
      BY Zenon DEF TypeOK
    <3>2. QED
      BY <3>1 DEF Range
  <2>4. CASE x = e
    <3>1. since < now
      BY Zenon, <2>1 DEF Clock
    <3>2. QED
      BY Zenon, <1>1, <1>2, <1>4, <1>5, <2>4, <3>1
  <2>5. CASE x \in Range(queue)
    BY Zenon, <1>1, <1>2, <2>1, <2>3, <2>5 DEF Phases
  <2>6. QED
    BY Zenon, <2>2, <2>4, <2>5
<1>11. Phases'
  BY Zenon, <1>2, <1>10 DEF Phases, On
<1>12. QED
  BY Zenon, <1>9, <1>11

LEMMA ResendClock ==
  ASSUME TypeOK, Clock, Phases, NEW e \in Event, Resend(e)
  PROVE  Clock' /\ Phases'
<1>1. /\ Stamp /\ Offer(e) /\ e \in DOMAIN at /\ since <= at[e] /\ phase # "off"
      /\ UNCHANGED <<at, marks, phase, since, note, sweep>>
  <2>1. at[e] >= since /\ e \in DOMAIN at
    BY Zenon DEF Resend
  <2>2. at[e] \in Instant /\ since \in Instant
    BY Zenon, <2>1 DEF TypeOK
  <2>3. since <= at[e]
    BY <2>1, <2>2 DEF Instant
  <2>4. QED
    BY Zenon, <2>3 DEF Resend, recVars, storeVars
<1>2. /\ overflow' # Nothing => overflow'[1] <= overflow'[2] /\ overflow'[2] < now'
      /\ note # Nothing =>
           /\ overflow' # Nothing /\ overflow'[1] = note[1][1] /\ note[1][2] <= overflow'[2]
  BY Zenon, <1>1, OfferClock
<1>3. /\ \A x \in DOMAIN at : at[x] < now'
      /\ \A m \in marks : m < now'
      /\ note # Nothing => note[3] < now'
      /\ since < now'
  <2>1. now' = now + 1 /\ now \in Instant /\ since \in Instant
        /\ (\A x \in DOMAIN at : at[x] \in Instant) /\ (\A m \in marks : m \in Instant)
        /\ (note # Nothing => note \in (Instant \X Instant) \X {"read", "store", "session"} \X Instant)
    BY Zenon, <1>1, Tick DEF TypeOK
  <2>2. (\A x \in DOMAIN at : at[x] < now) /\ (\A m \in marks : m < now)
        /\ (note # Nothing => note[3] < now) /\ since < now
    BY Zenon, <1>1 DEF Clock
  <2>3. \A t \in Instant : t < now => t < now'
    BY <2>1 DEF Instant
  <2>4. note # Nothing => note[3] \in Instant
    BY <2>1
  <2>5. QED
    BY Zenon, <2>1, <2>2, <2>3, <2>4
<1>4. Clock'
  BY Zenon, <1>1, <1>2, <1>3 DEF Clock
<1>5. \A x \in Range(queue') : x \in Range(queue) \/ x = e
  BY Zenon, <1>1, OfferQueue
<1>6. Phases'
  BY Zenon, <1>1, <1>5 DEF Phases, On
<1>7. QED
  BY Zenon, <1>4, <1>6

LEMMA RecordClock ==
  ASSUME TypeOK, Clock, Phases, Record
  PROVE  Clock' /\ Phases'
<1>1. /\ queue # <<>> /\ queue' = Tail(queue)
      /\ UNCHANGED <<now, at, marks, overflow, note, phase, since, sweep>>
  BY Zenon DEF Record, recVars
<1>2. Range(Tail(queue)) \subseteq Range(queue)
  <2>1. queue \in Seq(DOMAIN at)
    BY Zenon DEF TypeOK
  <2>2. QED
    BY Zenon, <1>1, <2>1, Unqueued
<1>3. QED
  BY Zenon, <1>1, <1>2, ClockKept DEF Phases, On

LEMMA NoteClock ==
  ASSUME TypeOK, Clock, Phases, NoteRead \/ NoteCover \/ NoteClear
  PROVE  Clock' /\ Phases'
<1>0. note # Nothing => /\ note \in (Instant \X Instant) \X {"read", "store", "session"} \X Instant
                        /\ note[3] \in Instant
  <2>1. note # Nothing => note \in (Instant \X Instant) \X {"read", "store", "session"} \X Instant
    BY Zenon DEF TypeOK
  <2>2. QED
    BY <2>1
<1>1. CASE NoteRead
  <2>1. /\ On /\ overflow # Nothing /\ note = Nothing /\ Stamp /\ note' = <<overflow, "read", now>>
        /\ UNCHANGED <<at, marks, overflow, queue, phase, since, sweep>>
    BY Zenon, <1>1 DEF NoteRead, intakeVars, storeVars
  <2>2. /\ now \in Instant /\ now' = now + 1 /\ since \in Instant
        /\ (\A x \in DOMAIN at : at[x] \in Instant) /\ (\A m \in marks : m \in Instant)
        /\ overflow \in Instant \X Instant
    BY Zenon, <2>1, Tick DEF TypeOK
  <2>3. now < now' /\ \A t \in Instant : t < now => t < now' /\ t <= now
    BY <2>2 DEF Instant
  <2>4. note'[1] = overflow /\ note'[3] = now /\ note' # Nothing
    BY <2>1 DEF Nothing
  <2>5. overflow[2] \in Instant /\ overflow[2] <= overflow[2]
    BY <2>2 DEF Instant
  <2>6. phase # "off" /\ since < now
    BY Zenon, <2>1 DEF On, Clock
  <2>7. Clock'
    BY Zenon, <2>1, <2>2, <2>3, <2>4, <2>5 DEF Clock
  <2>8. Phases'
    BY Zenon, <2>1, <2>2, <2>3, <2>4, <2>6 DEF Phases, On
  <2>9. QED
    BY Zenon, <2>7, <2>8
<1>2. CASE NoteCover
  <2>1. /\ note # Nothing /\ note' = <<note[1], Current, note[3]>>
        /\ UNCHANGED <<now, at, marks, overflow, queue, phase, since, sweep>>
    BY Zenon, <1>2 DEF NoteCover, intakeVars
  <2>2. note' # Nothing /\ note'[1] = note[1] /\ note'[3] = note[3]
    BY <2>1 DEF Nothing
  <2>3. QED
    BY Zenon, <2>1, <2>2 DEF Clock, Phases, On
<1>3. CASE NoteClear
  <2>1. /\ note # Nothing /\ overflow' = Nothing /\ note' = Nothing
        /\ marks' = IF note[2] = "store" THEN marks \cup {note[3]} ELSE marks
        /\ UNCHANGED <<now, at, queue, phase, since, sweep>>
    BY Zenon, <1>3 DEF NoteClear
  <2>2. \A m \in marks' : m < now
    BY Zenon, <2>1 DEF Clock
  <2>3. QED
    BY Zenon, <2>1, <2>2 DEF Clock, Phases, On
<1>4. QED
  BY Zenon, <1>1, <1>2, <1>3

LEMMA StartClock ==
  ASSUME TypeOK, Clock, Phases, Start
  PROVE  Clock' /\ Phases'
<1>1. /\ Stamp /\ queue = <<>> /\ note = Nothing /\ phase = "off" /\ phase' = "gaps" /\ since' = now
      /\ UNCHANGED <<at, marks, overflow, queue, note, sweep>>
  BY Zenon DEF Start, intakeVars
<1>2. /\ now \in Instant /\ now' = now + 1
      /\ (\A x \in DOMAIN at : at[x] \in Instant) /\ (\A m \in marks : m \in Instant)
      /\ (overflow # Nothing => overflow \in Instant \X Instant)
  BY Zenon, <1>1, Tick DEF TypeOK
<1>3. now < now' /\ \A t \in Instant : t < now => t < now' /\ t <= now
  BY <1>2 DEF Instant
<1>4. overflow # Nothing => overflow[2] \in Instant
  BY <1>2
<1>5. Clock'
  BY Zenon, <1>1, <1>2, <1>3, <1>4 DEF Clock
<1>6. Phases'
  BY Zenon, <1>1, NoneQueued DEF Phases, On
<1>7. QED
  BY Zenon, <1>5, <1>6

LEMMA ShellClock ==
  ASSUME TypeOK, Clock, Phases,
         RecordGaps \/ MarkGaps \/ OpenCoverage \/ Running \/ Stop \/ Stopped \/ Checkpoint \/ Purge
  PROVE  Clock' /\ Phases'
<1>1. CASE RecordGaps
  BY Zenon, <1>1 DEF RecordGaps, intakeVars, Clock, Phases, On
<1>2. CASE MarkGaps \/ Running
  <2>1. marks' = marks \cup {since} /\ phase # "off" /\ phase' # "off" /\ ~On
        /\ UNCHANGED <<now, at, queue, overflow, since, note, sweep>>
    BY Zenon, <1>2 DEF MarkGaps, Running, On, intakeVars
  <2>2. note = Nothing /\ sweep = Nothing
    BY Zenon, <2>1 DEF Phases
  <2>3. \A m \in marks' : m < now
    BY Zenon, <2>1 DEF Clock
  <2>4. QED
    BY Zenon, <2>1, <2>2, <2>3 DEF Clock, Phases
<1>3. CASE OpenCoverage
  BY Zenon, <1>3 DEF OpenCoverage, intakeVars, Clock, Phases, On
<1>4. CASE Stop
  <2>1. Stamp /\ phase = "on" /\ phase' = "stopping"
        /\ UNCHANGED <<at, marks, queue, overflow, since, note, sweep>>
    BY Zenon, <1>4 DEF Stop, intakeVars
  <2>2. /\ now \in Instant /\ now' = now + 1 /\ since \in Instant
        /\ (\A x \in DOMAIN at : at[x] \in Instant) /\ (\A m \in marks : m \in Instant)
        /\ (overflow # Nothing => overflow \in Instant \X Instant)
        /\ (note # Nothing => note \in (Instant \X Instant) \X {"read", "store", "session"} \X Instant)
    BY Zenon, <2>1, Tick DEF TypeOK
  <2>3. \A t \in Instant : t < now => t < now'
    BY <2>2 DEF Instant
  <2>4. (overflow # Nothing => overflow[2] \in Instant) /\ (note # Nothing => note[3] \in Instant)
    BY <2>2
  <2>5. Clock'
    BY Zenon, <2>1, <2>2, <2>3, <2>4 DEF Clock
  <2>6. Phases'
    BY Zenon, <2>1 DEF Phases, On
  <2>7. QED
    BY Zenon, <2>5, <2>6
<1>5. CASE Stopped
  BY Zenon, <1>5 DEF Stopped, Free, intakeVars, storeVars, Clock, Phases, On
<1>6. CASE Checkpoint
  <2>1. Stamp /\ UNCHANGED <<at, marks, queue, overflow, since, note, phase, sweep>>
    BY Zenon, <1>6 DEF Checkpoint, intakeVars, recVars
  <2>2. Clock'
    BY Zenon, <2>1, ClockKept
  <2>3. QED
    BY Zenon, <2>1, <2>2 DEF Phases, On
<1>7. CASE Purge
  BY Zenon, <1>7 DEF Purge, intakeVars, recVars, Clock, Phases, On
<1>8. QED
  BY Zenon, <1>1, <1>2, <1>3, <1>4, <1>5, <1>6, <1>7

\* The clock and the phases over every step.
LEMMA ClockStep == TypeOK /\ NumberInv /\ Clock /\ Phases /\ [Next]_vars => Clock' /\ Phases'
<1> SUFFICES ASSUME TypeOK, NumberInv, Clock, Phases, [Next]_vars PROVE Clock' /\ Phases'
  OBVIOUS
<1>1. CASE UNCHANGED vars
  BY Zenon, <1>1 DEF vars, intakeVars, recVars, storeVars, Clock, Phases, On
<1>2. CASE SweepEvents
  <2>1. /\ \A m \in marks' : m \in marks
        /\ On
        /\ UNCHANGED <<now, at, queue, overflow, since, note, phase>>
    BY Zenon, <1>2 DEF SweepEvents, intakeVars
  <2>2. QED
    BY Zenon, <2>1 DEF Clock, Phases, On
<1>3. CASE SweepRest
  BY Zenon, <1>3 DEF SweepRest, intakeVars, Clock, Phases, On
<1>4. CASE Crash
  <2>1. /\ phase' = "off" /\ overflow' = Nothing /\ note' = Nothing /\ sweep' = Nothing
        /\ UNCHANGED <<now, at, marks>>
    BY Zenon, <1>4 DEF Crash, storeVars
  <2>2. QED
    BY Zenon, <2>1 DEF Clock, Phases
<1>5. CASE Next /\ ~SweepEvents /\ ~SweepRest /\ ~Crash
  BY Zenon, <1>5, EmitClock, ResendClock, RecordClock, NoteClock, StartClock, ShellClock DEF Next
<1>6. QED
  BY Zenon, <1>1, <1>2, <1>3, <1>4, <1>5

-----------------------------------------------------------------------------
(* Nothing is lost in silence *)

\* An interval that was unavailable is covered by what is kept of the coverage.
LEMMA CoverKeptCovers ==
  ASSUME TypeOK, NEW bound \in Int, bound <= MaxTime, NEW t \in Int, Unavailable(t)
  PROVE  \E c \in CoverKept(bound) : c[3] = "unavailable" /\ Within(t, c)
<1> DEFINE gone == {c \in cover : c[2] < bound}
           firsts == {c[1] : c \in gone}
<1>0. cover \subseteq Instant \X Instant \X {"complete", "unavailable"}
  BY Zenon DEF TypeOK
<1>1. PICK d \in cover : d[3] = "unavailable" /\ Within(t, d)
  BY Zenon DEF Unavailable
<1>2. CASE d \notin gone
  <2>1. d \in CoverKept(bound)
    BY Zenon, <1>2 DEF CoverKept
  <2>2. QED
    BY Zenon, <1>1, <2>1
<1>3. CASE d \in gone
  <2>1. d[1] \in firsts /\ firsts # {} /\ gone # {}
    BY Zenon, <1>3
  <2>2. firsts \in SUBSET Nat
    BY <1>0 DEF Instant
  <2>3. Min(firsts) \in firsts /\ Min(firsts) <= d[1]
    BY Zenon, <2>1, <2>2, MinOf
  <2>4. <<Min(firsts), bound, "unavailable">> \in CoverKept(bound)
    BY Zenon, <2>1 DEF CoverKept
  <2>5. d[1] <= t /\ t <= d[2] /\ d[2] < bound
    BY Zenon, <1>1, <1>3 DEF Within
  <2>6. d[1] \in Int /\ d[2] \in Int
    BY <1>0 DEF Instant
  <2>7. Min(firsts) \in Int
    BY <2>2, <2>3
  <2> HIDE DEF firsts, gone
  <2> DEFINE c == <<Min(firsts), bound, "unavailable">>
  <2>8. c[1] = Min(firsts) /\ c[2] = bound /\ c[3] = "unavailable"
    OBVIOUS
  <2> HIDE DEF c
  <2>9. c[1] <= t /\ t <= c[2]
    BY <2>3, <2>5, <2>6, <2>7, <2>8
  <2>10. QED
    BY Zenon, <2>4, <2>8, <2>9 DEF Within, c
<1>4. QED
  BY Zenon, <1>2, <1>3

\* Unless the history is removed, what was unavailable stays so.
LEMMA UnavailableStays ==
  ASSUME TypeOK, [Next]_vars, ~Purge, NEW t \in Int, Unavailable(t)
  PROVE  Unavailable(t)'
<1>1. CASE SweepRest
  <2>1. CASE Boundary = Nothing
    BY Zenon, <1>1, <2>1 DEF SweepRest, Unavailable
  <2>2. CASE Boundary # Nothing
    <3>1. Boundary[1] \in Int /\ Boundary[1] <= MaxTime
      BY Zenon, <1>1, <2>2, BoundaryTypes DEF SweepRest
    <3>2. cover' = CoverKept(Boundary[1])
      BY Zenon, <1>1, <2>2 DEF SweepRest
    <3>3. QED
      BY Zenon, <3>1, <3>2, CoverKeptCovers DEF Unavailable
  <2>3. QED
    BY Zenon, <2>1, <2>2
<1>2. CASE ~SweepRest
  <2>1. cover \subseteq cover'
    <3>1. CASE UNCHANGED vars
      BY Zenon, <3>1 DEF vars, storeVars
    <3>2. CASE NoteCover
      BY Zenon, <3>2 DEF NoteCover
    <3>3. CASE RecordGaps \/ OpenCoverage \/ Stop
      BY Zenon, <3>3 DEF RecordGaps, OpenCoverage, Stop
    <3>4. CASE Next /\ ~NoteCover /\ ~RecordGaps /\ ~OpenCoverage /\ ~Stop
      BY Zenon, <1>2, <3>4 DEF Next, Emit, Resend, Record, NoteRead, NoteClear, Checkpoint,
         SweepEvents, Start, MarkGaps, Running, Stopped, Crash, storeVars
    <3>5. QED
      BY Zenon, <3>1, <3>2, <3>3, <3>4
  <2>2. QED
    BY Zenon, <2>1 DEF Unavailable
<1>3. QED
  BY Zenon, <1>1, <1>2

\* What retention removed stays known as removed.
LEMMA ExpiredStays ==
  ASSUME [Next]_vars
  PROVE  expired \subseteq expired'
<1>1. CASE UNCHANGED vars
  BY Zenon, <1>1 DEF vars, histVars
<1>2. CASE SweepEvents
  BY Zenon, <1>2 DEF SweepEvents
<1>3. CASE Next /\ ~SweepEvents
  BY Zenon, <1>3 DEF Next, Emit, Resend, Record, NoteRead, NoteCover, NoteClear, Checkpoint, Purge,
     SweepRest, Start, RecordGaps, MarkGaps, OpenCoverage, Running, Stop, Stopped, Crash, histVars
<1>4. QED
  BY Zenon, <1>1, <1>2, <1>3

\* What is left to show of a step: that an event which was waited for, early or
\* late is explained after it, and so is one that was there and is missing now.
LEMMA LossKept ==
  ASSUME TypeOK, LossInv, [Next]_vars, ~Purge, \A e \in DOMAIN at : at'[e] = at[e],
         \A e \in Missing' : e \in Missing \/ Explained(e)',
         \A e \in Missing' : e \in Missing /\ (Awaited(e) \/ Early(e) \/ Late(e)) => Explained(e)'
  PROVE  LossInv'
<1> SUFFICES ASSUME NEW e \in Missing', ~Explained(e)' PROVE FALSE
  BY Zenon DEF LossInv
<1>1. e \in Missing /\ Explained(e)
  BY Zenon DEF LossInv
<1>2. at[e] \in Int /\ at'[e] = at[e]
  <2>1. at[e] \in Instant /\ at'[e] = at[e]
    BY Zenon, <1>1 DEF Missing, TypeOK
  <2>2. QED
    BY <2>1 DEF Instant
<1>3. CASE at[e] \in expired
  BY Zenon, <1>2, <1>3, ExpiredStays DEF Explained
<1>4. CASE Unavailable(at[e])
  <2>1. PICK t \in Int : t = at[e]
    BY Zenon, <1>2
  <2>2. Unavailable(t)'
    BY Zenon, <1>4, <2>1, UnavailableStays
  <2>3. QED
    BY Zenon, <1>2, <2>1, <2>2 DEF Explained, Unavailable
<1>5. QED
  BY Zenon, <1>1, <1>3, <1>4 DEF Explained

\* A step that leaves the intake, the phase and the events in the store alone, or
\* takes some of those away.
LEMMA LossQuiet ==
  ASSUME TypeOK, LossInv, [Next]_vars, ~Purge,
         UNCHANGED <<at, overflow, lost, note, phase, plan, since>>,
         Stamps' \subseteq Stamps,
         \A e \in Missing' : e \in Missing \/ at[e] \in expired'
  PROVE  LossInv'
<1>1. \A e \in Missing' : e \in Missing \/ Explained(e)'
  BY Zenon DEF Explained
<1>2. \A e \in Missing' : Awaited(e) => Explained(e)'
  BY Zenon DEF Explained, Awaited
<1>3. \A e \in Missing' : Early(e) => Explained(e)'
  BY Zenon DEF Explained, Early
<1>4. \A e \in Missing' : Late(e) => Explained(e)'
  BY Zenon DEF Explained, Late
<1>5. QED
  BY Zenon, <1>1, <1>2, <1>3, <1>4, LossKept

LEMMA SweepEventsLoss ==
  ASSUME TypeOK, LossInv, SweepEvents, ~Purge
  PROVE  LossInv'
<1>1. PICK over \in BOOLEAN :
        /\ held' = {e \in held : at[e] \notin Doomed(over)}
        /\ marks' = marks \ Doomed(over)
        /\ expired' = expired \cup Doomed(over)
  BY Zenon DEF SweepEvents
<1>2. UNCHANGED <<at, queue, overflow, phase, plan, since, note, lost, raced, forgotten>>
  BY Zenon DEF SweepEvents, intakeVars
<1>3. Stamps' \subseteq Stamps
  BY Zenon, <1>1, <1>2 DEF Stamps
<1>4. \A e \in Missing' : e \in Missing \/ at[e] \in expired'
  BY Zenon, <1>1, <1>2 DEF Missing
<1>5. Next
  BY Zenon DEF Next
<1>6. QED
  BY Zenon, <1>2, <1>3, <1>4, <1>5, LossQuiet

LEMMA RecordLoss ==
  ASSUME TypeOK, Phases, LossInv, Record, ~Purge
  PROVE  LossInv'
<1> DEFINE h == Head(queue)
<1>1. /\ queue # <<>> /\ queue' = Tail(queue)
      /\ IF ~On \/ h \in held THEN held' = held ELSE held' = held \cup {h}
      /\ forgotten' = IF On THEN forgotten ELSE forgotten \cup {h}
      /\ UNCHANGED <<now, at, overflow, phase, plan, since, note, marks, cover, lost, raced, expired>>
  BY Zenon DEF Record, recVars
<1>2. Range(queue) = Range(queue') \cup {h} /\ h \in Range(queue) /\ h \in DOMAIN at
  <2>1. queue \in Seq(DOMAIN at)
    BY Zenon DEF TypeOK
  <2>2. QED
    BY Zenon, <1>1, <2>1, Unqueued
<1> HIDE DEF h
<1>3. \A e \in Missing' : e \in Missing
  <2>1. h \in held' \cup forgotten'
    BY Zenon, <1>1
  <2>2. held \subseteq held' /\ forgotten \subseteq forgotten'
    BY Zenon, <1>1
  <2>3. QED
    BY Zenon, <1>1, <1>2, <2>1, <2>2 DEF Missing
<1>4. Next
  BY Zenon DEF Next
<1>5. CASE Stamps' \subseteq Stamps
  BY Zenon, <1>1, <1>3, <1>4, <1>5, LossQuiet
<1>6. CASE ~(Stamps' \subseteq Stamps)
  <2>1. On /\ held' = held \cup {h}
    BY Zenon, <1>1, <1>6 DEF Stamps
  <2>2. Stamps' = Stamps \cup {at[h]}
    BY Zenon, <1>1, <2>1 DEF Stamps
  <2>3. phase # "off" /\ phase # "gaps"
    BY Zenon, <2>1 DEF On
  <2>4. since <= at[h] /\ since \in Int /\ at[h] \in Int
    <3>1. since <= at[h] /\ since \in Instant /\ at[h] \in Instant
      BY Zenon, <1>2, <2>3 DEF Phases, TypeOK
    <3>2. QED
      BY <3>1 DEF Instant
  <2>5. \A e \in DOMAIN at : at[e] \in Int
    <3>1. \A e \in DOMAIN at : at[e] \in Instant
      BY Zenon DEF TypeOK
    <3>2. QED
      BY <3>1 DEF Instant
  <2>6. \A t \in Int : t < since => t < at[h]
    BY <2>4
  <2>7. \A e \in Missing' : Awaited(e) => Explained(e)'
    BY Zenon, <1>1 DEF Explained, Awaited
  <2>8. \A e \in Missing' : Early(e) => Explained(e)'
    <3> SUFFICES ASSUME NEW e \in Missing', Early(e) PROVE Early(e)'
      BY Zenon DEF Explained
    <3>1. at[e] \in Int
      BY Zenon, <1>3, <2>5 DEF Missing
    <3>2. at[e] < since /\ at[e] < at[h]
      BY Zenon, <2>3, <2>6, <3>1 DEF Early
    <3>3. \A t \in Stamps' : at[e] < t
      BY Zenon, <2>2, <3>2 DEF Early
    <3>4. QED
      BY Zenon, <1>1, <3>2, <3>3 DEF Early
  <2>9. \A e \in Missing' : ~Late(e)
    BY Zenon, <2>3 DEF Late
  <2>10. QED
    BY Zenon, <1>1, <1>3, <1>4, <2>7, <2>8, <2>9, LossKept
<1>7. QED
  BY Zenon, <1>5, <1>6

\* What waits in the intake still waits after another event was offered.
LEMMA OfferAwaited ==
  ASSUME TypeOK, Clock, Stamp, NEW e, Offer(e), note' = note,
         NEW x \in DOMAIN at, at'[x] = at[x], Awaited(x)
  PROVE  Awaited(x)'
<1>1. lost \subseteq lost'
  BY Zenon DEF Offer
<1>2. CASE note # Nothing
  BY Zenon, <1>1, <1>2 DEF Awaited
<1>3. CASE note = Nothing
  <2>1. overflow # Nothing /\ overflow[1] <= at[x] /\ at[x] <= overflow[2] /\ x \in lost
    BY Zenon, <1>3 DEF Awaited, Within
  <2>2. overflow' # Nothing /\ overflow'[1] = overflow[1] /\ overflow[2] <= overflow'[2]
    BY Zenon, <2>1, OfferClock
  <2>3. overflow[2] \in Int /\ overflow'[2] \in Int /\ at[x] \in Int
    <3>1. overflow \in Instant \X Instant /\ at[x] \in Instant /\ now \in Instant
      BY Zenon, <2>1 DEF TypeOK
    <3>2. overflow[2] \in Int /\ at[x] \in Int /\ now \in Int
      BY <3>1 DEF Instant
    <3>3. overflow' = overflow \/ overflow' = <<overflow[1], now>>
      BY Zenon, <2>1 DEF Offer
    <3>4. CASE overflow' = overflow
      BY Zenon, <3>2, <3>4
    <3>5. CASE overflow' = <<overflow[1], now>>
      BY <3>2, <3>5
    <3>6. QED
      BY Zenon, <3>3, <3>4, <3>5
  <2>4. at[x] <= overflow'[2]
    BY <2>1, <2>2, <2>3
  <2>5. QED
    BY Zenon, <1>1, <1>3, <2>1, <2>2, <2>4 DEF Awaited, Within
<1>4. QED
  BY Zenon, <1>2, <1>3

LEMMA EmitLoss ==
  ASSUME TypeOK, NumberInv, Clock, LossInv, Emit, ~Purge
  PROVE  LossInv'
<1>1. PICK e \in Event :
        /\ e \notin DOMAIN at /\ DOMAIN at' = DOMAIN at \cup {e}
        /\ at'[e] = now /\ \A x \in DOMAIN at : at'[x] = at[x]
        /\ IF phase # "off" THEN Offer(e) ELSE UNCHANGED <<intakeVars, lost, raced>>
  BY Zenon, EmitIs
<1>2. /\ Stamp
      /\ UNCHANGED <<phase, plan, since, note, held, marks, cover, forgotten, expired>>
  BY Zenon DEF Emit, recVars, storeVars
<1>3. held \subseteq DOMAIN at
  BY Zenon DEF TypeOK
<1>4. Stamps' = Stamps
  <2>1. \A x \in held : at'[x] = at[x]
    BY Zenon, <1>1, <1>3
  <2>2. {at'[x] : x \in held} = {at[x] : x \in held}
    BY Zenon, <2>1
  <2>3. QED
    BY Zenon, <1>2, <2>2 DEF Stamps
<1>5. \A x \in Missing' : x \in Missing \/ Explained(x)'
  <2>1. ASSUME e \in Missing' PROVE Explained(e)'
    <3>1. CASE phase = "off"
      <4>1. \A t \in Stamps : t < now
        BY Zenon, <1>3 DEF Stamps, Clock
      <4>2. \A t \in Stamps : t \in Instant
        BY Zenon, StampTypes
      <4>3. now \in Int
        <5>1. now \in Instant
          BY Zenon DEF TypeOK
        <5>2. QED
          BY <5>1 DEF Instant
      <4>4. \A t \in Stamps : t <= now
        BY <4>1, <4>2, <4>3 DEF Instant
      <4>5. note # Nothing => note[3] <= now
        <5>1. note # Nothing => note[3] < now
          BY Zenon DEF Clock
        <5>2. note # Nothing => note \in (Instant \X Instant) \X {"read", "store", "session"} \X Instant
          BY Zenon DEF TypeOK
        <5>3. QED
          BY <4>3, <5>1, <5>2 DEF Instant
      <4>6. phase' = "off" /\ phase # "gaps"
        BY Zenon, <1>2, <3>1
      <4>7. QED
        BY Zenon, <1>1, <1>2, <1>4, <4>4, <4>5, <4>6 DEF Explained, Late
    <3>2. CASE phase # "off"
      <4>1. Offer(e)
        BY Zenon, <1>1, <3>2
      <4>2. e \notin Range(queue') /\ e \notin raced'
        BY Zenon, <2>1 DEF Missing
      <4> DEFINE D == DOMAIN at \cup {e}
      <4>4. DOMAIN at \subseteq D /\ e \in D
        BY Zenon
      <4> HIDE DEF D
      <4>5. /\ lost' = lost \cup {e}
            /\ overflow' = IF overflow = Nothing THEN <<now, now>> ELSE <<overflow[1], now>>
            /\ raced' = IF note = Nothing THEN raced ELSE raced \cup {e}
        <5>1. CASE Len(queue) < Capacity
          <6>1. queue' = Append(queue, e)
            BY Zenon, <4>1, <5>1 DEF Offer
          <6>2. queue \in Seq(D)
            BY Zenon, <4>4, Larger DEF TypeOK
          <6>3. Range(Append(queue, e)) = Range(queue) \cup {e}
            BY <4>4, <6>2, Queued
          <6>4. QED
            BY Zenon, <4>2, <6>1, <6>3
        <5>2. CASE ~(Len(queue) < Capacity)
          BY Zenon, <4>1, <5>2 DEF Offer
        <5>3. QED
          BY Zenon, <5>1, <5>2
      <4>6. note = Nothing
        BY Zenon, <4>2, <4>5
      <4>7. overflow' # Nothing /\ overflow'[2] = now
        <5>1. overflow' = <<now, now>> \/ overflow' = <<overflow[1], now>>
          BY Zenon, <4>5
        <5>2. QED
          BY <5>1 DEF Nothing
      <4>8. overflow'[1] <= overflow'[2]
        BY Zenon, <1>2, <4>1, <4>7, OfferClock
      <4>9. now <= now
        <5>1. now \in Instant
          BY Zenon DEF TypeOK
        <5>2. QED
          BY <5>1 DEF Instant
      <4>10. QED
        BY Zenon, <1>1, <1>2, <4>5, <4>6, <4>7, <4>8, <4>9 DEF Explained, Awaited, Within
    <3>3. QED
      BY Zenon, <3>1, <3>2
  <2>2. Range(queue) \subseteq Range(queue') /\ raced \subseteq raced'
    <3>1. CASE phase = "off"
      BY Zenon, <1>1, <3>1 DEF intakeVars
    <3>2. CASE phase # "off"
      <4> DEFINE D == DOMAIN at \cup {e}
      <4>1. DOMAIN at \subseteq D /\ e \in D /\ Offer(e)
        BY Zenon, <1>1, <3>2
      <4> HIDE DEF D
      <4>2. QED
        BY Zenon, <4>1, OfferQueue
    <3>3. QED
      BY Zenon, <3>1, <3>2
  <2>3. QED
    BY Zenon, <1>1, <1>2, <2>1, <2>2 DEF Missing
<1>6. \A x \in Missing : Awaited(x) => Explained(x)'
  <2> SUFFICES ASSUME NEW x \in Missing, Awaited(x) PROVE Explained(x)'
    BY Zenon
  <2>1. x \in DOMAIN at /\ at'[x] = at[x]
    BY Zenon, <1>1 DEF Missing
  <2>2. CASE phase = "off"
    BY Zenon, <1>1, <1>2, <2>1, <2>2 DEF Explained, Awaited, intakeVars
  <2>3. CASE phase # "off"
    <3>1. Offer(e) /\ note' = note /\ Stamp
      BY Zenon, <1>1, <1>2, <2>3
    <3>2. Awaited(x)'
      BY Zenon, <2>1, <3>1, OfferAwaited
    <3>3. QED
      BY Zenon, <3>2 DEF Explained
  <2>4. QED
    BY Zenon, <2>2, <2>3
<1>7. \A x \in Missing : Early(x) => Explained(x)'
  BY Zenon, <1>1, <1>2, <1>4 DEF Explained, Early, Missing
<1>8. \A x \in Missing : Late(x) => Explained(x)'
  BY Zenon, <1>1, <1>2, <1>4 DEF Explained, Late, Missing
<1>9. Next
  BY Zenon DEF Next
<1>10. QED
  BY Zenon, <1>1, <1>5, <1>6, <1>7, <1>8, <1>9, LossKept

LEMMA ResendLoss ==
  ASSUME TypeOK, Clock, LossInv, NEW e \in Event, Resend(e), ~Purge
  PROVE  LossInv'
<1>1. /\ e \in DOMAIN at /\ Stamp /\ Offer(e) /\ at' = at
      /\ UNCHANGED <<phase, plan, since, note, held, marks, cover, forgotten, expired>>
  BY Zenon DEF Resend, recVars, storeVars
<1>2. Stamps' = Stamps
  BY Zenon, <1>1 DEF Stamps
<1>3. \A x \in Missing' : x \in Missing
  <2>1. DOMAIN at \subseteq DOMAIN at
    BY Zenon
  <2>2. Range(queue) \subseteq Range(queue') /\ raced \subseteq raced'
    BY Zenon, <1>1, <2>1, OfferQueue
  <2>3. QED
    BY Zenon, <1>1, <2>2 DEF Missing
<1>4. \A x \in Missing : Awaited(x) => Explained(x)'
  BY Zenon, <1>1, OfferAwaited DEF Missing, Explained
<1>5. \A x \in Missing : Early(x) => Explained(x)'
  BY Zenon, <1>1, <1>2 DEF Explained, Early, Missing
<1>6. \A x \in Missing : Late(x) => Explained(x)'
  BY Zenon, <1>1, <1>2 DEF Explained, Late, Missing
<1>7. Next
  BY Zenon DEF Next
<1>8. QED
  BY Zenon, <1>1, <1>3, <1>4, <1>5, <1>6, <1>7, LossKept

LEMMA NoteReadLoss ==
  ASSUME TypeOK, Clock, LossInv, NoteRead, ~Purge
  PROVE  LossInv'
<1>1. /\ On /\ note = Nothing /\ overflow # Nothing /\ note' = <<overflow, "read", now>>
      /\ UNCHANGED <<at, queue, overflow, phase, plan, since, held, marks, cover, lost, raced,
                     forgotten, expired>>
  BY Zenon DEF NoteRead, intakeVars, storeVars, histVars
<1>2. note' # Nothing /\ note'[1] = overflow /\ note'[2] = "read" /\ note'[3] = now
  BY <1>1 DEF Nothing
<1>3. Stamps' = Stamps /\ Missing' = Missing
  BY Zenon, <1>1 DEF Stamps, Missing
<1>4. phase # "off" /\ phase # "gaps"
  BY Zenon, <1>1 DEF On
<1>5. \A e \in Missing : Awaited(e) => Explained(e)'
  BY Zenon, <1>1, <1>2 DEF Explained, Awaited
<1>6. \A e \in Missing : Early(e) => Explained(e)'
  BY Zenon, <1>1, <1>2, <1>3 DEF Explained, Early, Missing, Clock
<1>7. \A e \in Missing : ~Late(e)
  BY Zenon, <1>4 DEF Late
<1>8. Next
  BY Zenon DEF Next
<1>9. QED
  BY Zenon, <1>1, <1>3, <1>5, <1>6, <1>7, <1>8, LossKept

LEMMA NoteCoverLoss ==
  ASSUME TypeOK, LossInv, NoteCover, ~Purge
  PROVE  LossInv'
<1>1. /\ note # Nothing /\ note[2] = "read" /\ note' = <<note[1], Current, note[3]>>
      /\ cover' = IF Current = "store"
                    THEN cover \cup {<<note[1][1], note[1][2], "unavailable">>} ELSE cover
      /\ raced' = IF Current = "store" THEN raced ELSE raced \cup LostIn(note[1])
      /\ UNCHANGED <<at, queue, overflow, phase, plan, since, held, marks, lost, forgotten,
                     expired>>
  BY Zenon DEF NoteCover, intakeVars
<1>2. note' # Nothing /\ note'[3] = note[3]
  BY <1>1 DEF Nothing
<1>3. Stamps' = Stamps /\ \A e \in Missing' : e \in Missing
  <2>1. raced \subseteq raced'
    BY Zenon, <1>1
  <2>2. QED
    BY Zenon, <1>1, <2>1 DEF Stamps, Missing
<1>4. \A e \in Missing' : Awaited(e) => Explained(e)'
  <2> SUFFICES ASSUME NEW e \in Missing', Awaited(e) PROVE Explained(e)'
    BY Zenon
  <2>1. e \in lost /\ note[1][1] <= at[e] /\ at[e] <= note[1][2]
    BY Zenon, <1>1 DEF Awaited, Within
  <2>2. CASE Current = "store"
    <3> DEFINE c == <<note[1][1], note[1][2], "unavailable">>
    <3>1. c[1] = note[1][1] /\ c[2] = note[1][2] /\ c[3] = "unavailable"
      OBVIOUS
    <3>2. c \in cover'
      BY Zenon, <1>1, <2>2
    <3> HIDE DEF c
    <3>3. QED
      BY Zenon, <1>1, <2>1, <3>1, <3>2 DEF Explained, Unavailable, Within
  <2>3. CASE Current # "store"
    <3>1. note[1] # Nothing
      <4>1. note \in (Instant \X Instant) \X {"read", "store", "session"} \X Instant
        BY Zenon, <1>1 DEF TypeOK
      <4>2. note[1] = <<note[1][1], note[1][2]>>
        BY <4>1
      <4>3. QED
        BY <4>2 DEF Nothing
    <3>2. e \in LostIn(note[1])
      BY Zenon, <2>1, <3>1 DEF LostIn
    <3>3. e \in raced'
      BY Zenon, <1>1, <2>3, <3>2
    <3>4. QED
      BY Zenon, <3>3 DEF Missing
  <2>4. QED
    BY Zenon, <2>2, <2>3
<1>5. \A e \in Missing' : Early(e) => Explained(e)'
  BY Zenon, <1>1, <1>2, <1>3 DEF Explained, Early
<1>6. \A e \in Missing' : Late(e) => Explained(e)'
  BY Zenon, <1>1, <1>2, <1>3 DEF Explained, Late
<1>7. Next
  BY Zenon DEF Next
<1>8. QED
  BY Zenon, <1>1, <1>3, <1>4, <1>5, <1>6, <1>7, LossKept

LEMMA NoteClearLoss ==
  ASSUME TypeOK, LossInv, NoteClear, ~Purge
  PROVE  LossInv'
<1>1. /\ note # Nothing /\ note[2] # "read" /\ note' = Nothing
      /\ marks' \subseteq marks \cup {note[3]}
      /\ UNCHANGED <<at, queue, phase, plan, since, held, cover, lost, raced, forgotten, expired>>
  BY Zenon DEF NoteClear, histVars
<1>2. Stamps' \subseteq Stamps \cup {note[3]} /\ Missing' = Missing
  BY Zenon, <1>1 DEF Stamps, Missing
<1>3. \A e \in Missing : ~Awaited(e)
  BY Zenon, <1>1 DEF Awaited
<1>4. \A e \in Missing : Early(e) => Explained(e)'
  BY Zenon, <1>1, <1>2 DEF Explained, Early
<1>5. \A e \in Missing : Late(e) => Explained(e)'
  BY Zenon, <1>1, <1>2 DEF Explained, Late
<1>6. Next
  BY Zenon DEF Next
<1>7. QED
  BY Zenon, <1>1, <1>2, <1>3, <1>4, <1>5, <1>6, LossKept

\* A start writes down that nobody watched since the newest event of the store.
LEMMA StartLoss ==
  ASSUME TypeOK, Clock, LossInv, Start, ~Purge
  PROVE  LossInv'
<1>1. /\ phase = "off" /\ note = Nothing /\ phase' = "gaps" /\ since' = now
      /\ plan' = DowntimeGaps \cup SequenceGaps
      /\ UNCHANGED <<at, queue, overflow, note, held, marks, cover, lost, raced, forgotten,
                     expired>>
  BY Zenon DEF Start, intakeVars, histVars
<1>2. Stamps' = Stamps /\ Missing' = Missing
  BY Zenon, <1>1 DEF Stamps, Missing
<1>3. \A e \in DOMAIN at : at[e] < now /\ at[e] <= now
  <2>1. \A e \in DOMAIN at : at[e] \in Instant /\ at[e] < now
    BY Zenon DEF TypeOK, Clock
  <2>2. now \in Instant
    BY Zenon DEF TypeOK
  <2>3. QED
    BY <2>1, <2>2 DEF Instant
<1>4. \A e \in Missing : Awaited(e) => Explained(e)'
  BY Zenon, <1>1 DEF Explained, Awaited
<1>5. \A e \in Missing : Early(e) => Explained(e)'
  BY Zenon, <1>1, <1>2, <1>3 DEF Explained, Early, Missing
<1>6. \A e \in Missing : Late(e) => Explained(e)'
  <2> SUFFICES ASSUME NEW e \in Missing, Late(e) PROVE Explained(e)'
    BY Zenon
  <2>1. e \in DOMAIN at
    BY Zenon DEF Missing
  <2>2. CASE Stamps = {}
    BY Zenon, <1>1, <1>2, <1>3, <2>1, <2>2 DEF Explained, Early
  <2>3. CASE Stamps # {}
    <3> DEFINE c == <<Max(Stamps), now, "unavailable">>
    <3>1. c[1] = Max(Stamps) /\ c[2] = now /\ c[3] = "unavailable"
      OBVIOUS
    <3>2. Max(Stamps) \in Stamps /\ Max(Stamps) \in Instant
      BY Zenon, <2>3, StampTypes
    <3>3. Max(Stamps) < now
      BY Zenon, <3>2 DEF Stamps, Clock, TypeOK
    <3>4. ~(Max(Stamps) >= now)
      <4>1. now \in Instant
        BY Zenon DEF TypeOK
      <4>2. QED
        BY <3>2, <3>3, <4>1 DEF Instant
    <3>5. c \in plan'
      BY Zenon, <1>1, <2>3, <3>4 DEF DowntimeGaps
    <3> HIDE DEF c
    <3>6. Max(Stamps) <= at[e] /\ at[e] <= now
      BY Zenon, <1>3, <2>1, <3>2 DEF Late
    <3>7. QED
      BY Zenon, <1>1, <1>2, <3>1, <3>5, <3>6 DEF Explained, Late, Within
  <2>4. QED
    BY Zenon, <2>2, <2>3
<1>7. Next
  BY Zenon DEF Next
<1>8. QED
  BY Zenon, <1>1, <1>2, <1>4, <1>5, <1>6, <1>7, LossKept

LEMMA RecordGapsLoss ==
  ASSUME TypeOK, LossInv, RecordGaps, ~Purge
  PROVE  LossInv'
<1>1. /\ phase = "gaps" /\ phase' # "off" /\ cover' = cover \cup plan
      /\ UNCHANGED <<at, queue, overflow, since, note, held, marks, lost, raced, forgotten, expired>>
  BY Zenon DEF RecordGaps, intakeVars, histVars
<1>2. Stamps' = Stamps /\ Missing' = Missing
  BY Zenon, <1>1 DEF Stamps, Missing
<1>3. \A e \in Missing : Awaited(e) => Explained(e)'
  BY Zenon, <1>1 DEF Explained, Awaited
<1>4. \A e \in Missing : Early(e) => Explained(e)'
  BY Zenon, <1>1, <1>2 DEF Explained, Early
<1>5. \A e \in Missing : Late(e) => Explained(e)'
  BY Zenon, <1>1 DEF Explained, Late, Unavailable
<1>6. Next
  BY Zenon DEF Next
<1>7. QED
  BY Zenon, <1>1, <1>2, <1>3, <1>4, <1>5, <1>6, LossKept

\* The rest of a start, and a stop.
LEMMA ShellLoss ==
  ASSUME TypeOK, LossInv, MarkGaps \/ OpenCoverage \/ Running \/ Stop \/ Stopped, ~Purge
  PROVE  LossInv'
<1>1. /\ phase \notin {"off", "gaps"} /\ marks' \subseteq marks \cup {since}
      /\ UNCHANGED <<at, queue, overflow, note, held, lost, raced, forgotten, expired>>
  BY Zenon DEF MarkGaps, OpenCoverage, Running, Stop, Stopped, intakeVars, storeVars, histVars
<1>2. phase' = "off" \/ since' = since
  BY Zenon DEF MarkGaps, OpenCoverage, Running, Stop, Stopped
<1>3. Stamps' \subseteq Stamps \cup {since} /\ Missing' = Missing
  BY Zenon, <1>1 DEF Stamps, Missing
<1>4. \A e \in Missing : Awaited(e) => Explained(e)'
  BY Zenon, <1>1 DEF Explained, Awaited
<1>5. \A e \in Missing : Early(e) => Explained(e)'
  BY Zenon, <1>1, <1>2, <1>3 DEF Explained, Early
<1>6. \A e \in Missing : ~Late(e)
  BY Zenon, <1>1 DEF Late
<1>7. Next
  BY Zenon DEF Next
<1>8. QED
  BY Zenon, <1>1, <1>3, <1>4, <1>5, <1>6, <1>7, LossKept

\* What the process had not written when it ended is the loss it cannot know of.
LEMMA CrashLoss ==
  ASSUME TypeOK, Clock, LossInv, Crash, ~Purge
  PROVE  LossInv'
<1>1. /\ phase # "off" /\ phase' = "off" /\ note' = Nothing /\ queue' = <<>>
      /\ forgotten' = forgotten \cup Range(queue) /\ raced' = raced \cup LostIn(overflow)
      /\ UNCHANGED <<at, held, marks, cover, lost, expired>>
  BY Zenon DEF Crash, storeVars
<1>2. Stamps' = Stamps /\ \A e \in Missing' : e \in Missing
  BY Zenon, <1>1 DEF Stamps, Missing
<1>3. \A e \in Missing' : ~Awaited(e)
  <2> SUFFICES ASSUME NEW e \in Missing', Awaited(e) PROVE FALSE
    BY Zenon
  <2>1. e \in lost /\ e \notin LostIn(overflow) /\ e \in DOMAIN at
    BY Zenon, <1>1, <1>2 DEF Awaited, Missing
  <2>2. CASE note = Nothing
    BY Zenon, <2>1, <2>2 DEF Awaited, LostIn, Within
  <2>3. CASE note # Nothing
    <3>1. /\ note[1][1] <= at[e] /\ at[e] <= note[1][2] /\ overflow # Nothing
          /\ overflow[1] = note[1][1] /\ note[1][2] <= overflow[2]
      BY Zenon, <2>3 DEF Awaited, Within, Clock
    <3>2. /\ note \in (Instant \X Instant) \X {"read", "store", "session"} \X Instant
          /\ overflow \in Instant \X Instant /\ at[e] \in Instant
      BY Zenon, <2>1, <2>3, <3>1 DEF TypeOK
    <3>3. note[1][2] \in Int /\ overflow[2] \in Int /\ at[e] \in Int
      BY <3>2 DEF Instant
    <3>4. at[e] <= overflow[2]
      BY <3>1, <3>3
    <3>5. QED
      BY Zenon, <2>1, <3>1, <3>4 DEF LostIn
  <2>4. QED
    BY Zenon, <2>2, <2>3
<1>4. \A e \in Missing' : Early(e) => Explained(e)'
  BY Zenon, <1>1, <1>2 DEF Explained, Early
<1>5. \A e \in Missing' : Late(e) => Explained(e)'
  <2>1. phase' # "gaps"
    BY Zenon, <1>1
  <2>2. QED
    BY Zenon, <1>1, <1>2, <2>1 DEF Explained, Late
<1>6. Next
  BY Zenon DEF Next
<1>7. QED
  BY Zenon, <1>1, <1>2, <1>3, <1>4, <1>5, <1>6, LossKept

LEMMA LossStep ==
  ASSUME TypeOK, NumberInv, Clock, Phases, LossInv, [Next]_vars
  PROVE  LossInv'
<1>1. CASE Purge
  BY Zenon, <1>1 DEF Purge, LossInv, Missing
<1>2. CASE ~Purge /\ (UNCHANGED vars \/ Checkpoint \/ SweepRest)
  <2>1. /\ UNCHANGED <<at, overflow, lost, note, phase, plan, since>>
        /\ UNCHANGED <<held, marks, queue, raced, forgotten>>
    BY Zenon, <1>2 DEF vars, Checkpoint, SweepRest, intakeVars, recVars, storeVars, histVars
  <2>2. Stamps' \subseteq Stamps /\ \A e \in Missing' : e \in Missing
    BY Zenon, <2>1 DEF Stamps, Missing
  <2>3. QED
    BY Zenon, <1>2, <2>1, <2>2, LossQuiet
<1>3. CASE ~Purge /\ (SweepEvents \/ Record \/ Emit \/ \E e \in Event : Resend(e))
  BY Zenon, <1>3, SweepEventsLoss, RecordLoss, EmitLoss, ResendLoss
<1>4. CASE ~Purge /\ (NoteRead \/ NoteCover \/ NoteClear)
  BY Zenon, <1>4, NoteReadLoss, NoteCoverLoss, NoteClearLoss
<1>5. CASE ~Purge /\ (Start \/ RecordGaps \/ Crash)
  BY Zenon, <1>5, StartLoss, RecordGapsLoss, CrashLoss
<1>6. CASE ~Purge /\ (MarkGaps \/ OpenCoverage \/ Running \/ Stop \/ Stopped)
  BY Zenon, <1>6, ShellLoss
<1>7. QED
  BY Zenon, <1>1, <1>2, <1>3, <1>4, <1>5, <1>6 DEF Next

-----------------------------------------------------------------------------
(* Sequences *)

\* A step that counts nothing.
LEMMA RowKept ==
  ASSUME RowInv, UNCHANGED <<arrived, recounted>>,
         \A b \in Boots : /\ rows'[b].seen = rows[b].seen /\ rows'[b].lowest = rows[b].lowest
                          /\ rows'[b].highest = rows[b].highest
  PROVE  RowInv'
  BY Zenon DEF RowInv

LEMMA ArrivedFinite ==
  ASSUME TypeOK, NEW b \in Boots
  PROVE  /\ arrived[b] \in SUBSET (1 .. MaxSeq) /\ IsFiniteSet(arrived[b])
         /\ Cardinality(arrived[b]) \in Nat /\ rows[b] \in Row /\ rows[b].seen \in Nat
         /\ rows[b].lowest \in 0 .. MaxSeq /\ rows[b].highest \in 0 .. MaxSeq
<1>1. arrived[b] \in SUBSET (1 .. MaxSeq) /\ rows[b] \in Row
  BY Zenon DEF TypeOK
<1>2. MaxSeq \in Int
  BY RecorderAssumption
<1>3. IsFiniteSet(1 .. MaxSeq)
  BY <1>2, FS_Interval
<1>4. IsFiniteSet(arrived[b])
  BY Zenon, <1>1, <1>3, FS_Subset
<1>5. Cardinality(arrived[b]) \in Nat
  BY Zenon, <1>4, FS_CardinalityType
<1>6. rows[b].seen \in Nat /\ rows[b].lowest \in 0 .. MaxSeq /\ rows[b].highest \in 0 .. MaxSeq
  BY <1>1 DEF Row
<1>7. QED
  BY Zenon, <1>1, <1>4, <1>5, <1>6

\* An event that is stored moves the ends of its row and its count.
LEMMA RecordRow ==
  ASSUME TypeOK, RowInv, Record
  PROVE  RowInv'
<1> DEFINE e == Head(queue)
<1>1. CASE ~On \/ e \in held
  <2>1. UNCHANGED <<rows, arrived, recounted>>
    BY Zenon, <1>1 DEF Record
  <2>2. QED
    BY Zenon, <2>1, RowKept
<1>2. CASE ~(~On \/ e \in held)
  <2>1. /\ rows' = [rows EXCEPT ![e[1]] = Counted(rows[e[1]], e)]
        /\ arrived' = [arrived EXCEPT ![e[1]] = arrived[e[1]] \cup {e[2]}]
        /\ recounted' = (recounted \/ e[2] \in arrived[e[1]]) /\ queue # <<>>
    BY Zenon, <1>2 DEF Record
  <2>2. e \in Event /\ at[e] \in Instant
    <3>1. queue \in Seq(DOMAIN at)
      BY Zenon DEF TypeOK
    <3>2. e \in DOMAIN at
      BY Zenon, <2>1, <3>1, Unqueued
    <3>3. QED
      BY Zenon, <3>2 DEF TypeOK
  <2> HIDE DEF e
  <2>3. e[1] \in Boots /\ e[2] \in 1 .. MaxSeq
    BY <2>2 DEF Event
  <2>4. rows \in [Boots -> Row] /\ arrived \in [Boots -> SUBSET (1 .. MaxSeq)]
    BY Zenon DEF TypeOK
  <2> SUFFICES ASSUME NEW b \in Boots
               PROVE  /\ rows'[b].seen = 0 => arrived'[b] = {}
                      /\ rows'[b].seen > 0 =>
                           /\ rows'[b].lowest \in arrived'[b] /\ rows'[b].highest \in arrived'[b]
                           /\ \A n \in arrived'[b] : rows'[b].lowest <= n /\ n <= rows'[b].highest
                      /\ ~recounted' => rows'[b].seen = Cardinality(arrived'[b])
    BY Zenon DEF RowInv
  <2>5. CASE b # e[1]
    <3>1. rows'[b] = rows[b] /\ arrived'[b] = arrived[b]
      BY <2>1, <2>4, <2>5
    <3>2. ~recounted' => ~recounted
      BY Zenon, <2>1
    <3>3. QED
      BY Zenon, <3>1, <3>2 DEF RowInv
  <2>6. CASE b = e[1]
    <3>1. PICK r : r = rows[b]
      OBVIOUS
    <3>2. PICK A : A = arrived[b]
      OBVIOUS
    <3>3. PICK n \in 1 .. MaxSeq : n = e[2]
      BY Zenon, <2>3
    <3>4. rows'[b] = Counted(r, e) /\ arrived'[b] = A \cup {n}
      BY <2>1, <2>4, <2>6, <3>1, <3>2, <3>3
    <3>5. /\ r \in Row /\ r.seen \in Nat /\ A \in SUBSET (1 .. MaxSeq) /\ IsFiniteSet(A)
          /\ Cardinality(A) \in Nat /\ r.lowest \in 0 .. MaxSeq /\ r.highest \in 0 .. MaxSeq
      BY Zenon, <3>1, <3>2, ArrivedFinite
    <3>6. PICK s : s = Counted(r, e)
      OBVIOUS
    <3>7. /\ s \in Row /\ s.seen = r.seen + 1
          /\ r.seen = 0 => s.lowest = n /\ s.highest = n
          /\ r.seen # 0 => /\ s.lowest \in {r.lowest, n} /\ s.highest \in {r.highest, n}
                           /\ s.lowest <= r.lowest /\ s.lowest <= n
                           /\ r.highest <= s.highest /\ n <= s.highest
      BY Zenon, <2>2, <3>3, <3>5, <3>6, CountedRow
    <3>8. /\ r.seen = 0 => A = {}
          /\ r.seen > 0 => /\ r.lowest \in A /\ r.highest \in A
                           /\ \A m \in A : r.lowest <= m /\ m <= r.highest
          /\ ~recounted => r.seen = Cardinality(A)
      BY Zenon, <3>1, <3>2 DEF RowInv
    <3>9. s.lowest \in Int /\ s.highest \in Int
      BY <3>7 DEF Row
    <3>10. s.lowest \in A \cup {n} /\ s.highest \in A \cup {n}
      BY <3>5, <3>7, <3>8
    <3>11. \A m \in A \cup {n} : s.lowest <= m /\ m <= s.highest
      BY <3>5, <3>7, <3>8, <3>9
    <3>12. ~recounted' => s.seen = Cardinality(A \cup {n})
      <4>1. ~recounted' => ~recounted /\ n \notin A
        BY Zenon, <2>1, <2>6, <3>2, <3>3
      <4>2. n \notin A => Cardinality(A \cup {n}) = Cardinality(A) + 1
        BY Zenon, <3>5, FS_AddElement
      <4>3. QED
        BY Zenon, <3>7, <3>8, <4>1, <4>2
    <3>13. s.seen # 0
      BY <3>5, <3>7
    <3>14. QED
      BY Zenon, <3>4, <3>6, <3>10, <3>11, <3>12, <3>13
  <2>7. QED
    BY Zenon, <2>5, <2>6
<1>3. QED
  BY Zenon, <1>1, <1>2

\* A start declares a row and counts nothing.
LEMMA StartRow ==
  ASSUME TypeOK, RowInv, Start
  PROVE  RowInv'
<1>1. /\ rows' = [rows EXCEPT ![boot] =
           IF rows[boot] = NoRow THEN [NoRow EXCEPT !.declared = TRUE, !.last = now]
                                 ELSE [rows[boot] EXCEPT !.declared = TRUE]]
      /\ UNCHANGED <<arrived, recounted>>
  BY Zenon DEF Start, histVars
<1>2. boot \in Boots /\ rows \in [Boots -> Row] /\ rows[boot] \in Row
  BY Zenon DEF TypeOK
<1>3. \A b \in Boots : b # boot => rows'[b] = rows[b]
  BY <1>1, <1>2
<1>4. /\ rows'[boot].seen = rows[boot].seen /\ rows'[boot].lowest = rows[boot].lowest
      /\ rows'[boot].highest = rows[boot].highest
  <2>1. CASE rows[boot] = NoRow
    <3>1. rows' = [rows EXCEPT ![boot] = [NoRow EXCEPT !.declared = TRUE, !.last = now]]
      BY Zenon, <1>1, <2>1
    <3>2. rows'[boot] = [NoRow EXCEPT !.declared = TRUE, !.last = now]
      BY <1>2, <3>1
    <3>3. QED
      BY <2>1, <3>2 DEF NoRow
  <2>2. CASE rows[boot] # NoRow
    <3>1. rows' = [rows EXCEPT ![boot] = [rows[boot] EXCEPT !.declared = TRUE]]
      BY Zenon, <1>1, <2>2
    <3>2. rows'[boot] = [rows[boot] EXCEPT !.declared = TRUE]
      BY <1>2, <3>1
    <3>3. QED
      BY <1>2, <3>2 DEF Row
  <2>3. QED
    BY Zenon, <2>1, <2>2
<1>5. QED
  BY Zenon, <1>1, <1>3, <1>4, RowKept

LEMMA RowStep ==
  ASSUME TypeOK, RowInv, [Next]_vars
  PROVE  RowInv'
<1>1. CASE Record \/ Start
  BY Zenon, <1>1, RecordRow, StartRow
<1>2. CASE Purge
  <2>1. rows' = [b \in Boots |-> NoRow] /\ arrived' = [b \in Boots |-> {}]
    BY Zenon, <1>2 DEF Purge
  <2>2. \A b \in Boots : rows'[b].seen = 0 /\ arrived'[b] = {}
    BY <2>1 DEF NoRow
  <2>3. Cardinality({}) = 0 /\ ~(0 > 0)
    BY FS_EmptySet
  <2>4. QED
    BY Zenon, <2>2, <2>3 DEF RowInv
<1>3. CASE [Next]_vars /\ ~Record /\ ~Start /\ ~Purge
  <2>1. UNCHANGED <<rows, arrived, recounted>>
    BY Zenon, <1>3 DEF Next, vars, Emit, Resend, NoteRead, NoteCover, NoteClear, Checkpoint,
       SweepEvents, SweepRest, RecordGaps, MarkGaps, OpenCoverage, Running, Stop, Stopped, Crash,
       storeVars, histVars
  <2>2. QED
    BY Zenon, <2>1, RowKept
<1>4. QED
  BY Zenon, <1>1, <1>2, <1>3

-----------------------------------------------------------------------------
(* The theorems *)

LEMMA RecInit == Init => RecInv
<1> SUFFICES ASSUME Init PROVE RecInv
  OBVIOUS
<1>1. TypeOK /\ NumberInv
  BY Zenon, TypeInit
<1>2. /\ DOMAIN at = {} /\ marks = {} /\ overflow = Nothing /\ note = Nothing /\ phase = "off"
      /\ sweep = Nothing
  <2>1. at = <<>>
    BY Zenon DEF Init, Nothing
  <2>2. DOMAIN at = {}
    BY <2>1
  <2>3. QED
    BY Zenon, <2>2 DEF Init
<1>3. Clock /\ Phases /\ LossInv
  BY Zenon, <1>2 DEF Clock, Phases, LossInv, Missing
<1>4. RowInv
  <2>1. rows = [b \in Boots |-> NoRow] /\ arrived = [b \in Boots |-> {}]
    BY Zenon DEF Init
  <2>2. \A b \in Boots : rows[b].seen = 0 /\ arrived[b] = {}
    BY <2>1 DEF NoRow
  <2>3. Cardinality({}) = 0 /\ ~(0 > 0)
    BY FS_EmptySet
  <2>4. QED
    BY Zenon, <2>2, <2>3 DEF RowInv
<1>5. QED
  BY Zenon, <1>1, <1>3, <1>4 DEF RecInv

\* The recorder's bookkeeping is right in every reachable state, however the
\* source, the driver, the sweeps, the starts and the crashes interleave.
THEOREM RecorderInvariant == Spec => []RecInv
<1>1. RecInv /\ [Next]_vars => RecInv'
  <2> SUFFICES ASSUME RecInv, [Next]_vars PROVE RecInv'
    OBVIOUS
  <2>1. TypeOK /\ NumberInv /\ Clock /\ Phases /\ LossInv /\ RowInv
    BY Zenon DEF RecInv
  <2>2. TypeOK' /\ NumberInv'
    BY Zenon, <2>1, TypeStep, NumberStep
  <2>3. Clock' /\ Phases'
    BY Zenon, <2>1, ClockStep
  <2>4. LossInv'
    BY Zenon, <2>1, LossStep
  <2>5. RowInv'
    BY Zenon, <2>1, RowStep
  <2>6. QED
    BY Zenon, <2>2, <2>3, <2>4, <2>5 DEF RecInv
<1>2. QED
  BY <1>1, RecInit, PTL DEF Spec

\* TemporalRecorder's variables keep their types.
THEOREM RecorderTypes == Spec => []TypeOK
<1>1. RecInv => TypeOK
  BY Zenon DEF RecInv
<1>2. QED
  BY <1>1, RecorderInvariant, PTL

\* Between its oldest and its newest event the store is silent about nothing: what
\* overflowed in Intake::offer, what happened while the recorder was down and what
\* a sweep removed is each accounted for, but for what a crash took with it.
THEOREM LossIsNeverSilent == Spec => []NoSilentLoss
<1>1. RecInv => NoSilentLoss
  <2> SUFFICES ASSUME RecInv, phase = "on", Stamps # {}, NEW e \in Missing,
                      Min(Stamps) <= at[e]
               PROVE  at[e] \in expired \/ Unavailable(at[e]) \/ Pending(at[e])
    BY Zenon DEF NoSilentLoss, Missing
  <2>1. TypeOK /\ Explained(e)
    BY Zenon DEF RecInv, LossInv
  <2>2. ~Late(e)
    BY Zenon DEF Late
  <2>3. ~Early(e)
    <3>1. Min(Stamps) \in Stamps /\ Min(Stamps) \in Instant
      BY Zenon, <2>1, StampTypes
    <3>2. at[e] \in Instant
      BY Zenon, <2>1 DEF TypeOK, Missing
    <3>3. ~(at[e] < Min(Stamps))
      BY <3>1, <3>2 DEF Instant
    <3>4. QED
      BY Zenon, <3>1, <3>3 DEF Early
  <2>4. Awaited(e) => Pending(at[e])
    BY Zenon DEF Awaited, Pending
  <2>5. QED
    BY Zenon, <2>1, <2>2, <2>3, <2>4 DEF Explained
<1>2. QED
  BY <1>1, RecorderInvariant, PTL

\* note_sequence's count decides contiguity: an interval of numbers is full when it
\* has as many members as it is long.
THEOREM CountingDecides == Spec => []SequenceHonest
<1>1. RecInv => SequenceHonest
  <2> SUFFICES ASSUME RecInv, ~recounted, NEW b \in Boots, rows[b].seen > 0
               PROVE  Contiguous(rows[b]) <=> arrived[b] = rows[b].lowest .. rows[b].highest
    BY Zenon DEF SequenceHonest
  <2>1. TypeOK /\ RowInv
    BY Zenon DEF RecInv
  <2>2. PICK A : A = arrived[b]
    OBVIOUS
  <2>3. PICK lo : lo = rows[b].lowest
    OBVIOUS
  <2>4. PICK hi : hi = rows[b].highest
    OBVIOUS
  <2>5. /\ A \in SUBSET (1 .. MaxSeq) /\ IsFiniteSet(A) /\ Cardinality(A) \in Nat
        /\ lo \in 0 .. MaxSeq /\ hi \in 0 .. MaxSeq
    BY Zenon, <2>1, <2>2, <2>3, <2>4, ArrivedFinite
  <2>6. /\ lo \in A /\ hi \in A /\ \A n \in A : lo <= n /\ n <= hi
        /\ rows[b].seen = Cardinality(A)
    BY Zenon, <2>1, <2>2, <2>3, <2>4 DEF RowInv
  <2>7. lo \in Int /\ hi \in Int /\ lo <= hi /\ A \in SUBSET (lo .. hi)
    BY <2>5, <2>6
  <2>8. IsFiniteSet(lo .. hi) /\ Cardinality(lo .. hi) = hi - lo + 1
    BY <2>7, FS_Interval
  <2>9. Cardinality(A) <= Cardinality(lo .. hi) /\ (Cardinality(lo .. hi) = Cardinality(A) => lo .. hi = A)
    BY Zenon, <2>7, <2>8, FS_Subset
  <2>10. Contiguous(rows[b]) <=> Cardinality(A) >= hi - lo + 1
    BY Zenon, <2>3, <2>4, <2>6 DEF Contiguous
  <2>11. Cardinality(A) >= hi - lo + 1 <=> A = lo .. hi
    <3>1. Cardinality(A) >= hi - lo + 1 => Cardinality(lo .. hi) = Cardinality(A)
      BY <2>5, <2>7, <2>8, <2>9
    <3>2. A = lo .. hi => Cardinality(A) >= hi - lo + 1
      <4>1. A = lo .. hi => Cardinality(A) = hi - lo + 1
        BY Zenon, <2>8
      <4>2. QED
        BY <2>7, <4>1
    <3>3. QED
      BY Zenon, <2>9, <3>1, <3>2
  <2>12. QED
    BY Zenon, <2>2, <2>3, <2>4, <2>10, <2>11
<1>2. QED
  BY <1>1, RecorderInvariant, PTL

\* A gap is never forgotten: retention replaces expired coverage by an interval
\* that reaches as far.
THEOREM GapsAreKept == Spec => GapsStay
<1>1. RecInv /\ [Next]_vars =>
        [~Purge => \A t \in Instant : Unavailable(t) => Unavailable(t)']_vars
  <2> SUFFICES ASSUME RecInv, [Next]_vars, ~Purge, NEW t \in Instant, Unavailable(t)
               PROVE  Unavailable(t)'
    BY Zenon
  <2>1. TypeOK
    BY Zenon DEF RecInv
  <2>2. t \in Int
    BY DEF Instant
  <2>3. QED
    BY Zenon, <2>1, <2>2, UnavailableStays
<1>2. QED
  BY <1>1, RecorderInvariant, PTL DEF Spec, GapsStay

\* The checkpoint an instant is reconstructed from is the newest one not after it,
\* and a sweep takes a checkpoint only when a newer one is below its boundary.
LEMMA BaseKept ==
  ASSUME TypeOK, SweepRest, Stamps # {}, NEW t \in Instant, Min(Stamps) <= t
  PROVE  BaseAt(points', t) = BaseAt(points, t)
<1> DEFINE old == {p \in points : p <= t}
           new == {p \in points' : p <= t}
<1>1. Boundary = <<Min(Stamps)>>
  BY Zenon DEF Boundary
<1>2. Boundary # Nothing /\ Boundary[1] = Min(Stamps)
  BY <1>1 DEF Nothing
<1>3. points' = PointsKept(Min(Stamps))
  BY Zenon, <1>2 DEF SweepRest
<1>4. points \subseteq Instant /\ Min(Stamps) \in Instant
  BY Zenon, StampTypes DEF TypeOK
<1>5. new \subseteq old
  BY Zenon, <1>3 DEF PointsKept
<1>6. CASE old = {}
  <2>1. new = {}
    BY Zenon, <1>5, <1>6
  <2>2. QED
    BY Zenon, <1>6, <2>1 DEF BaseAt
<1>7. CASE old # {}
  <2>1. MaxTime \in Nat /\ old \in SUBSET (0 .. MaxTime)
    BY Zenon, <1>4, RecorderAssumption DEF Instant
  <2> HIDE DEF old, new
  <2>2. PICK m \in old : \A y \in old : y <= m
    BY Zenon, <1>7, <2>1, MaxOf
  <2>3. m \in points /\ m <= t /\ \A q \in points : q <= t => q <= m
    BY Zenon, <2>2 DEF old
  <2>4. m \in points'
    <3> SUFFICES ASSUME NEW q \in points, m < q, q < Min(Stamps) PROVE FALSE
      BY Zenon, <1>3, <2>3 DEF PointsKept
    <3>1. q \in Int /\ m \in Int /\ Min(Stamps) \in Int /\ t \in Int
      BY <1>4, <2>3 DEF Instant
    <3>2. q <= t
      BY <3>1
    <3>3. QED
      BY <2>3, <3>1, <3>2
  <2>5. m \in new
    BY Zenon, <2>3, <2>4 DEF new
  <2>6. /\ old \cup {-1} \in SUBSET Int /\ new \cup {-1} \in SUBSET Int
        /\ m \in old \cup {-1} /\ m \in new \cup {-1}
        /\ (\A y \in old \cup {-1} : y <= m) /\ \A y \in new \cup {-1} : y <= m
    BY <1>5, <2>1, <2>2, <2>5
  <2>7. Max(old \cup {-1}) = m /\ Max(new \cup {-1}) = m
    BY <2>6, MaxIs
  <2>8. QED
    BY Zenon, <2>7 DEF BaseAt, old, new
<1>8. QED
  BY Zenon, <1>6, <1>7

\* Retention never takes the base of an instant the store holds events for.
THEOREM BasesAreKept == Spec => SweepKeepsBase
<1>1. RecInv /\ [Next]_vars =>
        [SweepRest => \A t \in Instant :
           Stamps # {} /\ Min(Stamps) <= t => BaseAt(points', t) = BaseAt(points, t)]_vars
  BY Zenon, BaseKept DEF RecInv
<1>2. QED
  BY <1>1, RecorderInvariant, PTL DEF Spec, SweepKeepsBase
=============================================================================
