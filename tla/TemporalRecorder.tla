-------------------------- MODULE TemporalRecorder --------------------------
(***************************************************************************)
(* The temporal recorder and its ledger: one event source behind a bounded *)
(* intake (ono-recorder/src/ingest.rs), the recorder that starts, stops,   *)
(* records and sweeps (controller.rs, downtime.rs), and the persistent     *)
(* store (ono-temporal-ledger/src/store.rs, sequences.rs, retention.rs).   *)
(*                                                                         *)
(* Three threads meet: the source offers events, the recorder's driver     *)
(* drains the queue, notes overflows, sweeps and writes checkpoints, and   *)
(* the shell starts and stops the recorder.  The process may crash between *)
(* two transactions; the store survives it, the intake does not.  The      *)
(* driver and the source are external: the source is offering from before  *)
(* the start until the stop has returned, and the driver drains and notes  *)
(* once the start has returned; before the next start it has drained the   *)
(* queue and finished its note.  Instants are natural numbers, and every   *)
(* step that stamps something takes an instant of its own.                 *)
(***************************************************************************)
EXTENDS Integers, Sequences, FiniteSets, FiniteSetsExt, Functions

CONSTANTS
  MaxSeq,       \* how many events the source numbers in one boot
  MaxTime,      \* the last instant
  MaxBoot,      \* how often the host may reboot
  Capacity,     \* what the intake holds
  MaxAge,       \* RetentionPolicy::max_age
  Batch,        \* RetentionPolicy::batch
  MayResend,    \* whether the source may offer an event again
  MayPurge      \* whether the history may be removed

ASSUME RecorderAssumption ==
  /\ MaxSeq \in Nat \ {0} /\ MaxTime \in Nat /\ MaxBoot \in Nat
  /\ Capacity \in Nat \ {0} /\ MaxAge \in Nat /\ Batch \in Nat \ {0}
  /\ MayResend \in BOOLEAN /\ MayPurge \in BOOLEAN

VARIABLES
  now,          \* the clock
  boot,         \* the boot the host is in
  at,           \* when each event happened, as a function of the events so far
  \* the intake
  queue,        \* the bounded channel
  overflow,     \* the interval events were dropped over: none, or <<from, until>>
  drops,        \* Intake.dropped
  \* the recorder
  phase,        \* "off", the steps of a start, "on", or a stop that has begun
  plan,         \* the gaps of the RestartPlan a start is working on
  since,        \* the instant the start was asked for, then State.since
  dropped,      \* State.dropped
  note,         \* note_overflow: none, or the gap it is writing, its ledger and
                \* the instant it was called with
  sweep,        \* sweep: none, or whether its first transactions removed events,
                \* and the horizon of the instant it was called with
  \* the store
  held,         \* the source's events
  marks,        \* the instants of the recorder's own coverage events
  cover,        \* coverage_intervals: <<from, until, completeness>>
  rows,         \* source_sequences, by boot
  points,       \* the checkpoints' instants
  \* history
  lost,         \* the events an intake dropped
  raced,        \* those it dropped while an overflow was being noted
  forgotten,    \* those in the queue when the recorder ended, and those from
                \* before the history was removed
  arrived,      \* the numbers each row has counted
  recounted,    \* whether a row has counted an event twice
  expired       \* the instants of what retention removed

intakeVars == <<queue, overflow, drops>>
recVars    == <<phase, plan, since, dropped, note, sweep>>
storeVars  == <<held, marks, cover, rows, points>>
histVars   == <<lost, raced, forgotten, arrived, recounted, expired>>
vars       == <<now, boot, at, intakeVars, recVars, storeVars, histVars>>

Boots   == 0 .. MaxBoot
Event   == Boots \X (1 .. MaxSeq)
Instant == 0 .. MaxTime
Nothing == <<>>

On      == phase \in {"on", "stopping"}
\* The ledger a call gets: the store while the recorder runs, and until a stop
\* has replaced it.
Current == IF On THEN "store" ELSE "session"

NoRow == [lowest |-> 0, highest |-> 0, seen |-> 0, declared |-> FALSE, last |-> 0]
Row == [lowest : 0 .. MaxSeq, highest : 0 .. MaxSeq, seen : Nat,
        declared : BOOLEAN, last : Instant]
\* No call touches the store while a sweep holds its connection.
Free == sweep = Nothing

Contiguous(r) == r.seen >= r.highest - r.lowest + 1

\* The presentation instants of everything in the events table.
Stamps == {at[e] : e \in held} \cup marks

TypeOK ==
  /\ now \in Instant /\ boot \in Boots
  /\ DOMAIN at \subseteq Event /\ \A e \in DOMAIN at : at[e] \in Instant
  /\ queue \in Seq(DOMAIN at) /\ Len(queue) <= Capacity
  /\ overflow = Nothing \/ overflow \in Instant \X Instant
  /\ drops \in Nat /\ dropped \in Nat /\ since \in Instant
  /\ phase \in {"off", "gaps", "gap marks", "open", "open marks", "on", "stopping"}
  /\ plan \subseteq Instant \X Instant \X {"unavailable"}
  /\ note = Nothing \/ note \in (Instant \X Instant) \X {"read", "store", "session"} \X Instant
  /\ sweep = Nothing \/ sweep \in BOOLEAN \X {t \in Int : t <= MaxTime}
  /\ held \subseteq DOMAIN at /\ marks \subseteq Instant
  /\ cover \subseteq Instant \X Instant \X {"complete", "unavailable"}
  /\ rows \in [Boots -> Row] /\ points \subseteq Instant
  /\ lost \subseteq DOMAIN at /\ raced \subseteq DOMAIN at
  /\ forgotten \subseteq DOMAIN at /\ arrived \in [Boots -> SUBSET (1 .. MaxSeq)]
  /\ recounted \in BOOLEAN /\ expired \subseteq Instant

Init ==
  /\ now = 0 /\ boot = 0 /\ at = Nothing
  /\ queue = <<>> /\ overflow = Nothing /\ drops = 0
  /\ phase = "off" /\ plan = {} /\ since = 0 /\ dropped = 0
  /\ note = Nothing /\ sweep = Nothing
  /\ held = {} /\ marks = {} /\ cover = {} /\ rows = [b \in Boots |-> NoRow]
  /\ points = {}
  /\ lost = {} /\ raced = {} /\ forgotten = {}
  /\ arrived = [b \in Boots |-> {}] /\ recounted = FALSE /\ expired = {}

\* A stamped step takes the next instant.
Stamp == now < MaxTime /\ now' = now + 1

-----------------------------------------------------------------------------
(* The source and the intake.                                              *)

\* The events dropped over an interval.
LostIn(gap) ==
  IF gap = Nothing THEN {}
  ELSE {e \in lost : gap[1] <= at[e] /\ at[e] <= gap[2]}

\* Intake::offer: a full queue drops the event and remembers the interval.
Offer(e) ==
  IF Len(queue) < Capacity
    THEN /\ queue' = Append(queue, e)
         /\ UNCHANGED <<overflow, drops, lost, raced>>
    ELSE /\ drops' = drops + 1
         /\ overflow' = IF overflow = Nothing THEN <<now, now>>
                                              ELSE <<overflow[1], now>>
         /\ lost' = lost \cup {e}
         /\ raced' = IF note = Nothing THEN raced ELSE raced \cup {e}
         /\ UNCHANGED queue

Numbers(b) == {e[2] : e \in {x \in DOMAIN at : x[1] = b}}

\* The next event happens; without a recorder nobody is offered it.
Emit ==
  /\ Stamp
  /\ LET n == Cardinality(Numbers(boot)) + 1
         e == <<boot, n>>
     IN  /\ n <= MaxSeq
         /\ at' = [x \in DOMAIN at \cup {e} |-> IF x = e THEN now ELSE at[x]]
         /\ IF phase # "off" THEN Offer(e) ELSE UNCHANGED <<intakeVars, lost, raced>>
  /\ UNCHANGED <<boot, recVars, storeVars, forgotten, arrived, recounted, expired>>

\* The source offers an event again that it has offered to this recorder.
Resend(e) ==
  /\ MayResend /\ phase # "off" /\ e \in DOMAIN at /\ at[e] >= since
  /\ e \notin Range(queue) /\ Stamp
  /\ Offer(e)
  /\ UNCHANGED <<boot, at, recVars, storeVars, forgotten, arrived, recounted, expired>>

-----------------------------------------------------------------------------
(* What the driver asks of the recorder.                                   *)

\* Mutant: the newest arrival is taken for the highest number.
CountedInOrder(r, e) ==
  [r EXCEPT !.lowest = IF r.seen = 0 THEN e[2] ELSE @, !.highest = e[2],
            !.seen = @ + 1, !.last = at[e]]

\* note_sequence: what a row holds after an event that was not stored before.
Counted(r, e) ==
  [r EXCEPT !.lowest  = IF r.seen = 0 THEN e[2] ELSE Min({@, e[2]}),
            !.highest = IF r.seen = 0 THEN e[2] ELSE Max({@, e[2]}),
            !.seen    = @ + 1,
            !.last    = Max({@, at[e]})]

\* Recorder::record of the next event: an event the store holds is a duplicate,
\* and after a stop it goes to the session's ledger.
Record ==
  /\ (On \/ phase = "off") /\ Free /\ queue # <<>> /\ queue' = Tail(queue)
  /\ LET e == Head(queue) IN
       IF ~On \/ e \in held
         THEN UNCHANGED <<held, rows, arrived, recounted>>
         ELSE /\ held' = held \cup {e}
              /\ rows' = [rows EXCEPT ![e[1]] = Counted(@, e)]
              /\ arrived' = [arrived EXCEPT ![e[1]] = @ \cup {e[2]}]
              /\ recounted' = (recounted \/ e[2] \in arrived[e[1]])
  /\ forgotten' = IF On THEN forgotten ELSE forgotten \cup {Head(queue)}
  /\ UNCHANGED <<now, boot, at, overflow, drops, recVars, marks, cover, points,
                 lost, raced, expired>>

\* Recorder::note_overflow: the gap is read and the loss counted, ...
NoteRead ==
  /\ On /\ note = Nothing /\ overflow # Nothing /\ Stamp
  /\ note' = <<overflow, "read", now>>
  /\ dropped' = dropped + drops
  /\ UNCHANGED <<boot, at, intakeVars, phase, plan, since, sweep, storeVars, histVars>>

\* ... the ledger is looked up and the gap becomes coverage, ...
NoteCover ==
  /\ Free /\ note # Nothing /\ note[2] = "read"
  /\ note' = <<note[1], Current, note[3]>>
  /\ cover' = IF Current = "store"
                THEN cover \cup {<<note[1][1], note[1][2], "unavailable">>} ELSE cover
  /\ raced' = IF Current = "store" THEN raced ELSE raced \cup LostIn(note[1])
  /\ UNCHANGED <<now, boot, at, intakeVars, phase, plan, since, dropped, sweep,
                 held, marks, rows, points, lost, forgotten, arrived, recounted,
                 expired>>

\* ... and a coverage event, and the intake's interval is closed.
NoteClear ==
  /\ Free /\ note # Nothing /\ note[2] # "read"
  /\ marks' = IF note[2] = "store" THEN marks \cup {note[3]} ELSE marks
  /\ overflow' = Nothing /\ note' = Nothing
  /\ UNCHANGED <<now, boot, at, queue, drops, phase, plan, since, dropped, sweep, held,
                 cover, rows, points, histVars>>

\* Recorder::checkpoint, projected from what was captured at the instant.
Checkpoint ==
  /\ On /\ Free /\ Stamp
  /\ points' = points \cup {now}
  /\ UNCHANGED <<boot, at, intakeVars, recVars, held, marks, cover, rows, histVars>>

\* Recorder::remove_history: every table, the sequences with their declarations.
Purge ==
  /\ MayPurge /\ On /\ Free
  /\ held' = {} /\ marks' = {} /\ cover' = {} /\ points' = {}
  /\ rows' = [b \in Boots |-> NoRow] /\ arrived' = [b \in Boots |-> {}]
  /\ forgotten' = DOMAIN at
  /\ UNCHANGED <<now, boot, at, intakeVars, recVars, lost, raced,
                 recounted, expired>>

-----------------------------------------------------------------------------
(* Retention (LedgerStore::sweep).                                         *)

Horizon == now - MaxAge

\* The oldest instants first, at most a batch of them: those past the age bound,
\* or any while the store is over its size.
Doomed(over) ==
  LET old == IF over THEN Stamps ELSE {t \in Stamps : t < Horizon}
  IN  {t \in old : Cardinality({u \in old : u < t}) < Batch}

SweepEvents ==
  /\ On /\ Free
  /\ \E over \in BOOLEAN :
       LET gone == Doomed(over) IN
       /\ held' = {e \in held : at[e] \notin gone}
       /\ marks' = marks \ gone
       /\ expired' = expired \cup gone
       /\ sweep' = <<gone # {}, Horizon>>
  /\ UNCHANGED <<now, boot, at, intakeVars, phase, plan, since, dropped, note, cover,
                 rows, points, lost, raced, forgotten, arrived, recounted>>

\* The boundary is the oldest event left; a sweep that emptied the store falls
\* back to the age bound.
Boundary ==
  IF Stamps # {} THEN <<Min(Stamps)>>
  ELSE IF sweep[1] THEN <<sweep[2]>> ELSE Nothing

\* Mutant: every checkpoint below the boundary goes.
PointsKeptAbove(bound) == {p \in points : p >= bound}

\* A checkpoint goes when a newer one is also below the boundary.
PointsKept(bound) ==
  {p \in points : ~(p < bound /\ \E q \in points : p < q /\ q < bound)}

\* Mutant: coverage goes with its first instant instead of its last.
CoverKeptFrom(bound) ==
  LET gone == {c \in cover : c[1] < bound} IN
  (cover \ gone) \cup
    (IF gone = {} THEN {}
     ELSE {<<Min({c[1] : c \in gone}), bound, "unavailable">>})

\* Expired coverage gives way to one interval that says it is unavailable.
CoverKept(bound) ==
  LET gone == {c \in cover : c[2] < bound} IN
  (cover \ gone) \cup
    (IF gone = {} THEN {}
     ELSE {<<Min({c[1] : c \in gone}), bound, "unavailable">>})

SweepRest ==
  /\ On /\ sweep # Nothing
  /\ IF Boundary = Nothing
       THEN UNCHANGED <<cover, points>>
       ELSE cover' = CoverKept(Boundary[1]) /\ points' = PointsKept(Boundary[1])
  /\ sweep' = Nothing
  /\ UNCHANGED <<now, boot, at, intakeVars, phase, plan, since, dropped, note, held,
                 marks, rows, lost, raced, forgotten, arrived, recounted, expired>>

-----------------------------------------------------------------------------
(* Starting, stopping, and a crash.                                        *)

\* Mutant: the downtime begins when the recorder comes back.
DowntimeGapsLate ==
  IF Stamps = {} \/ Max(Stamps) >= now THEN {} ELSE {<<now, now, "unavailable">>}

\* downtime::restart: what nobody watched since the newest event, and an interval
\* for each declared sequence that lost events.
DowntimeGaps ==
  IF Stamps = {} \/ Max(Stamps) >= now THEN {}
  ELSE {<<Max(Stamps), now, "unavailable">>}
SequenceGaps ==
  {<<rows[b].last, rows[b].last, "unavailable">> :
     b \in {x \in Boots : rows[x].declared /\ rows[x].seen > 0 /\ ~Contiguous(rows[x])}}

\* Recorder::start: the restart is planned, the source's continuity declared in
\* this boot, ...
Start ==
  /\ phase = "off" /\ queue = <<>> /\ note = Nothing /\ Stamp
  /\ phase' = "gaps" /\ since' = now /\ plan' = DowntimeGaps \cup SequenceGaps
  /\ rows' = [rows EXCEPT ![boot] =
       IF @ = NoRow THEN [NoRow EXCEPT !.declared = TRUE, !.last = now]
                    ELSE [@ EXCEPT !.declared = TRUE]]
  /\ UNCHANGED <<boot, at, intakeVars, dropped, note, sweep, held, marks, cover,
                 points, histVars>>

\* ... the gaps become coverage, then coverage events, ...
RecordGaps ==
  /\ phase = "gaps" /\ phase' = IF plan = {} THEN "open" ELSE "gap marks"
  /\ cover' = cover \cup plan /\ plan' = {}
  /\ UNCHANGED <<now, boot, at, intakeVars, since, dropped, note, sweep, held,
                 marks, rows, points, histVars>>

MarkGaps ==
  /\ phase = "gap marks" /\ phase' = "open"
  /\ marks' = marks \cup {since}
  /\ UNCHANGED <<now, boot, at, intakeVars, plan, since, dropped, note, sweep, held,
                 cover, rows, points, histVars>>

\* ... and each source's coverage begins, again in two transactions.
OpenCoverage ==
  /\ phase = "open" /\ phase' = "open marks"
  /\ cover' = cover \cup {<<since, since, "complete">>}
  /\ UNCHANGED <<now, boot, at, intakeVars, plan, since, dropped, note, sweep, held,
                 marks, rows, points, histVars>>

Running ==
  /\ phase = "open marks" /\ phase' = "on"
  /\ marks' = marks \cup {since}
  /\ UNCHANGED <<now, boot, at, intakeVars, plan, since, dropped, note, sweep, held, cover,
                 rows, points, histVars>>

\* Recorder::stop: coverage is closed and flushed, then the ledger is replaced.
Stop ==
  /\ phase = "on" /\ phase' = "stopping" /\ Free /\ Stamp
  /\ cover' = cover \cup {<<since, now, "complete">>}
  /\ UNCHANGED <<boot, at, intakeVars, plan, since, dropped, note, sweep, held,
                 marks, rows, points, histVars>>

Stopped ==
  /\ phase = "stopping" /\ phase' = "off" /\ Free /\ since' = 0
  /\ UNCHANGED <<now, boot, at, intakeVars, plan, dropped, note, sweep, storeVars,
                 histVars>>

\* The process ends, with the host or without it, between two transactions; what
\* the intake held and what it remembered of a loss go with it.
Crash ==
  /\ phase # "off" /\ phase' = "off" /\ plan' = {}
  /\ \E b \in {boot, boot + 1} \cap Boots : boot' = b
  /\ queue' = <<>> /\ overflow' = Nothing /\ drops' = 0 /\ dropped' = 0
  /\ note' = Nothing /\ sweep' = Nothing /\ since' = 0
  /\ forgotten' = forgotten \cup Range(queue)
  /\ raced' = raced \cup LostIn(overflow)
  /\ UNCHANGED <<now, at, storeVars, lost, arrived, recounted, expired>>

-----------------------------------------------------------------------------

Next ==
  \/ Emit \/ Record \/ NoteRead \/ NoteCover \/ NoteClear \/ Checkpoint \/ Purge
  \/ SweepEvents \/ SweepRest
  \/ Start \/ RecordGaps \/ MarkGaps \/ OpenCoverage \/ Running \/ Stop \/ Stopped \/ Crash
  \/ \E e \in Event : Resend(e)

Spec == Init /\ [][Next]_vars

-----------------------------------------------------------------------------

Within(t, c) == c[1] <= t /\ t <= c[2]
Unavailable(t) == \E c \in cover : c[3] = "unavailable" /\ Within(t, c)
\* What is waiting to be written down: the intake's interval, and a gap that
\* has been read and not yet written.
Pending(t) ==
  \/ overflow # Nothing /\ Within(t, overflow)
  \/ note # Nothing /\ Within(t, note[1])

\* Between the oldest and the newest event the store holds it is silent about
\* nothing: an event that is not there was removed by retention, is in an
\* interval the store calls unavailable, or waits in the intake.  Left out are
\* the events an overflow took while it was being noted, and those that were in
\* the queue at the end.
NoSilentLoss ==
  phase = "on" /\ Stamps # {} =>
    \A e \in DOMAIN at \ (held \cup Range(queue) \cup raced \cup forgotten) :
      Min(Stamps) <= at[e] /\ at[e] <= Max(Stamps) =>
        at[e] \in expired \/ Unavailable(at[e]) \/ Pending(at[e])

\* A declared sequence is contiguous exactly when every number between the
\* lowest and the highest arrived, in each boot, unless one was counted twice.
SequenceHonest ==
  ~recounted =>
    \A b \in Boots :
      rows[b].seen > 0 =>
        (Contiguous(rows[b]) <=> arrived[b] = rows[b].lowest .. rows[b].highest)

\* Nothing retention removed is still called complete.
ExpiredIsUnavailable ==
  sweep = Nothing =>
    \A t \in expired : (\E c \in cover : c[3] = "complete" /\ Within(t, c))
                          => Unavailable(t)

\* State.dropped is the number of events lost.
DropsCounted == dropped <= Cardinality(lost)

\* A gap is never forgotten as long as the history is not removed: an instant the
\* store called unavailable stays so, whatever is swept, restarted or closed since.
GapsStay ==
  [][~Purge => \A t \in Instant : Unavailable(t) => Unavailable(t)']_vars

\* Retention never takes the checkpoint an instant it still holds events for is
\* reconstructed from.
BaseAt(ps, t) == Max({p \in ps : p <= t} \cup {-1})
SweepKeepsBase ==
  [][SweepRest => \A t \in Instant :
       Stamps # {} /\ Min(Stamps) <= t => BaseAt(points', t) = BaseAt(points, t)]_vars
=============================================================================
