------------------------------- MODULE Rollout -------------------------------
(***************************************************************************)
(* One run of a plan's actions over its targets: Strategy::waves           *)
(* (ono-change-core/src/strategy.rs), run_waves (ono-change-executor/src/  *)
(* strategy.rs) and the submission and the gate that `mutate` hands to it  *)
(* (execute.rs).  Claims, records and crashes are in ChangeExecutor; here  *)
(* the actions belong to targets, the targets to waves, and the run keeps  *)
(* an account of which targets it touched.                                 *)
(*                                                                         *)
(* A plan is made from a block of statements.  The i-th statement is the   *)
(* i-th mutating action, and block[i] is the object it acts on (the first  *)
(* target, for one that names none); no provider of the repository         *)
(* declares dependencies, so topological_order leaves the actions in the   *)
(* order of the block.                                                     *)
(***************************************************************************)
EXTENDS Naturals, Sequences, FiniteSets, FiniteSetsExt, Functions

CONSTANTS
  Objects,       \* what the statements may act on
  Blocks,        \* the blocks to run: non-empty sequences of objects
  Strategies,    \* the strategies to run them under
  StartMayFail   \* whether an action may be refused before it starts

ASSUME RolloutAssumption ==
  /\ Blocks \subseteq Seq(Objects) \ {<<>>}
  /\ Strategies \subseteq [kind : {"sequential", "batch", "parallel", "canary"},
                           size : Nat, canary : Nat]
  /\ StartMayFail \in BOOLEAN

VARIABLES
  block,       \* the plan
  strategy,
  targets,     \* its frozen targets, in order
  waves,       \* how the strategy partitions them
  prior,       \* the actions that earlier runs of the plan carried out
  log,         \* the actions this run carried out, with their outcomes
  wave,        \* the wave in hand
  at,          \* the target in hand, as an index of targets
  next,        \* where in the plan the loop over its actions is
  status,      \* what the target in hand has come to
  stop,        \* why the submission stopped, or "none"
  results,     \* the results of the wave in hand
  touched, untouched,  \* the account: how often it names each target as either
  verdict,     \* what the gate answered, or "none"
  phase        \* "target", "wave", "gate" or "done"

planVars == <<block, strategy, targets, waves, prior>>
vars == <<planVars, log, wave, at, next, status, stop, results,
          touched, untouched, verdict, phase>>

-----------------------------------------------------------------------------
(* Waves *)

\* freeze_all keeps the first occurrence of each object.
Frozen(objects) ==
  LET seen[n \in 0 .. Len(objects)] ==
        IF n = 0 THEN <<>>
        ELSE IF objects[n] \in Range(seen[n - 1]) THEN seen[n - 1]
        ELSE Append(seen[n - 1], objects[n])
  IN seen[Len(objects)]

AtLeastOne(n) == IF n = 0 THEN 1 ELSE n

WaveOf(start, len, gated) == [start |-> start, len |-> len, gated |-> gated]

\* A mutant: the last wave is not cut to the targets that are left.
UncutTiles(from, count, size) ==
  LET tile[s \in Nat] ==
        IF s >= count THEN <<>>
        ELSE <<WaveOf(s, size, FALSE)>> \o tile[s + size]
  IN tile[from]

\* The loop of every strategy: waves of `size` until `count` is reached.
Tiles(from, count, size) ==
  LET tile[s \in Nat] ==
        IF s >= count THEN <<>>
        ELSE LET len == Min({size, count - s})
             IN  <<WaveOf(s, len, FALSE)>> \o tile[s + len]
  IN tile[from]

\* A mutant: the canary wave is submitted like any other.
UngatedWaves(s, count) == Tiles(0, count, AtLeastOne(s.size))

Waves(s, count) ==
  IF s.kind = "canary" /\ count > 0
  THEN LET len == Min({AtLeastOne(s.canary), count})
       IN  <<WaveOf(0, len, TRUE)>> \o Tiles(len, count, AtLeastOne(s.size))
  ELSE Tiles(0, count, AtLeastOne(s.size))

-----------------------------------------------------------------------------
(* Submission *)

Target == targets[at]

WaveEnd == waves[wave].start + waves[wave].len

\* What is left of the target's actions, in the order of the plan (action_covers).
Covered == {i \in next .. Len(block) : block[i] = Target}

InHand == Covered # {} /\ stop = "none"

Action == Min(Covered)

\* A resumed run passes over what succeeded before.
Pass ==
  /\ phase = "target"
  /\ InHand
  /\ Action \in prior
  /\ status' = "succeeded"
  /\ next' = Action + 1
  /\ UNCHANGED <<planVars, log, wave, at, stop, results, touched, untouched,
                 verdict, phase>>

\* A mutant: a failure does not stop the target's other actions.
CarryOutAll ==
  /\ phase = "target"
  /\ InHand
  /\ Action \notin prior
  /\ status' \in {"succeeded", "failed", "unknown"}
  /\ log' = Append(log, [action |-> Action, outcome |-> status'])
  /\ next' = Action + 1
  /\ UNCHANGED <<planVars, wave, at, stop, results, touched, untouched, verdict,
                 phase>>

\* An action runs, and settles one way or another.
CarryOut ==
  /\ phase = "target"
  /\ InHand
  /\ Action \notin prior
  /\ status' \in {"succeeded", "failed", "unknown"}
  /\ log' = Append(log, [action |-> Action, outcome |-> status'])
  /\ stop' = IF status' = "succeeded" THEN "none" ELSE status'
  /\ next' = Action + 1
  /\ UNCHANGED <<planVars, wave, at, results, touched, untouched, verdict, phase>>

\* The claim or the running record was refused: the action is not started,
\* and the target is reported as skipped.
NotStarted ==
  /\ phase = "target"
  /\ InHand
  /\ Action \notin prior
  /\ StartMayFail
  /\ status' = "skipped"
  /\ stop' = "not-started"
  /\ UNCHANGED <<planVars, log, wave, at, next, results, touched, untouched,
                 verdict, phase>>

\* The target is done; the next one of the wave begins unless something
\* stopped the submission.
EndTarget ==
  /\ phase = "target"
  /\ ~InHand
  /\ results' = Append(results, [target |-> Target, status |-> status])
  /\ IF at < WaveEnd /\ stop = "none"
     THEN at' = at + 1 /\ next' = 1 /\ status' = "skipped" /\ UNCHANGED phase
     ELSE phase' = "wave" /\ UNCHANGED <<at, next, status>>
  /\ UNCHANGED <<planVars, log, wave, stop, touched, untouched, verdict>>

-----------------------------------------------------------------------------
(* run_waves *)

\* How often a target is named among the results at one of the statuses, and
\* among the frozen targets from one index to another.
SettledAt(t, statuses) ==
  Cardinality({k \in 1 .. Len(results) :
                 results[k].target = t /\ results[k].status \in statuses})
Between(t, first, last) == Cardinality({k \in first .. last : targets[k] = t})

Slice(t) == Between(t, waves[wave].start + 1, WaveEnd)
Rest(t)  == Between(t, WaveEnd + 1, Len(targets))

Reported == {results[k].target : k \in 1 .. Len(results)}

\* stops_the_run
WaveStops == \E k \in 1 .. Len(results) : results[k].status \in {"failed", "unknown"}

\* What a wave adds to the account.
TouchedInWave(t) == SettledAt(t, {"succeeded", "failed", "unknown"})
UntouchedInWave(t) ==
  SettledAt(t, {"skipped"}) + (IF t \in Reported THEN 0 ELSE Slice(t))

Account ==
  /\ touched' = [t \in Objects |-> touched[t] + TouchedInWave(t)]
  /\ untouched' = [t \in Objects |-> untouched[t] + UntouchedInWave(t)]

\* The next wave: its submission finds nothing to do once one has stopped.
BeginWave(w) ==
  /\ results' = <<>>
  /\ IF w > Len(waves)
     THEN phase' = "done" /\ UNCHANGED <<wave, at, next, status>>
     ELSE /\ wave' = w
          /\ at' = waves[w].start + 1
          /\ next' = 1
          /\ status' = "skipped"
          /\ phase' = IF stop = "none" THEN "target" ELSE "wave"

\* A mutant: a wave that stopped names only the targets of later waves.
StopForgetsSlice ==
  /\ phase = "wave"
  /\ WaveStops
  /\ touched' = [t \in Objects |-> touched[t] + TouchedInWave(t)]
  /\ untouched' = [t \in Objects |-> untouched[t] + SettledAt(t, {"skipped"}) + Rest(t)]
  /\ phase' = "done"
  /\ UNCHANGED <<planVars, log, wave, at, next, status, stop, results, verdict>>

StopAtWave ==
  /\ phase = "wave"
  /\ WaveStops
  /\ touched' = [t \in Objects |-> touched[t] + TouchedInWave(t)]
  /\ untouched' = [t \in Objects |-> untouched[t] + UntouchedInWave(t) + Rest(t)]
  /\ phase' = "done"
  /\ UNCHANGED <<planVars, log, wave, at, next, status, stop, results, verdict>>

AskGate ==
  /\ phase = "wave"
  /\ ~WaveStops
  /\ waves[wave].gated
  /\ Account
  /\ phase' = "gate"
  /\ UNCHANGED <<planVars, log, wave, at, next, status, stop, results, verdict>>

NextWave ==
  /\ phase = "wave"
  /\ ~WaveStops
  /\ ~waves[wave].gated
  /\ Account
  /\ BeginWave(wave + 1)
  /\ UNCHANGED <<planVars, log, stop, verdict>>

\* The plan's required verification over what the waves have reached.
GatePasses ==
  /\ phase = "gate"
  /\ verdict' = "verified"
  /\ BeginWave(wave + 1)
  /\ UNCHANGED <<planVars, log, stop, touched, untouched>>

GateStops ==
  /\ phase = "gate"
  /\ verdict' \in {"degraded", "failed"}
  /\ untouched' = [t \in Objects |-> untouched[t] + Rest(t)]
  /\ phase' = "done"
  /\ UNCHANGED <<planVars, log, wave, at, next, status, stop, results, touched>>

\* What earlier runs of the plan left: each stopped at its first failure, so
\* they carried out a prefix of the order in which a run takes the actions.
Position(i) == CHOOSE k \in 1 .. Len(targets) : targets[k] = block[i]
RunsBefore(i, j) ==
  Position(i) < Position(j) \/ (Position(i) = Position(j) /\ i < j)
CarriedOut ==
  {S \in SUBSET (1 .. Len(block)) :
     \A j \in S : \A i \in 1 .. Len(block) : RunsBefore(i, j) => i \in S}

Init ==
  /\ block \in Blocks
  /\ strategy \in Strategies
  /\ targets = Frozen(block)
  /\ waves = Waves(strategy, Len(targets))
  /\ prior \in CarriedOut
  /\ log = <<>>
  /\ wave = 1
  /\ at = 1
  /\ next = 1
  /\ status = "skipped"
  /\ stop = "none"
  /\ results = <<>>
  /\ touched = [t \in Objects |-> 0]
  /\ untouched = [t \in Objects |-> 0]
  /\ verdict = "none"
  /\ phase = "target"

Next ==
  \/ Pass \/ CarryOut \/ NotStarted \/ EndTarget
  \/ StopAtWave \/ AskGate \/ NextWave \/ GatePasses \/ GateStops

Spec == Init /\ [][Next]_vars

-----------------------------------------------------------------------------
(* Properties *)

\* Every variable of a run is well typed; in particular the target in hand is
\* one of the wave.
TypeOK ==
  /\ prior \subseteq 1 .. Len(block)
  /\ log \in Seq([action : 1 .. Len(block), outcome : {"succeeded", "failed", "unknown"}])
  /\ wave \in 1 .. Len(waves)
  /\ at \in waves[wave].start + 1 .. WaveEnd
  /\ next \in 1 .. Len(block) + 1
  /\ status \in {"skipped", "succeeded", "failed", "unknown"}
  /\ stop \in {"none", "failed", "unknown", "not-started"}
  /\ touched \in [Objects -> Nat] /\ untouched \in [Objects -> Nat]
  /\ verdict \in {"none", "verified", "degraded", "failed"}
  /\ phase \in {"target", "wave", "gate", "done"}

\* Strategy::waves against what it should give for every strategy and count: contiguous, in order, covering each
\* target once, none empty, none wider than the strategy allows.
IsTiling ==
  LET width(i) ==
        AtLeastOne(IF strategy.kind = "canary" /\ i = 1
                   THEN strategy.canary ELSE strategy.size)
      covers(i) == waves[i].start + 1 .. waves[i].start + waves[i].len
  IN /\ \A i \in 1 .. Len(waves) : waves[i].len \in 1 .. width(i)
     /\ UNION {covers(i) : i \in 1 .. Len(waves)} = 1 .. Len(targets)
     /\ \A i, j \in 1 .. Len(waves) :
          i < j => waves[i].start + waves[i].len <= waves[j].start

RanNow == {log[i].action : i \in 1 .. Len(log)}

Ran(t, actions) == \E i \in actions : block[i] = t

\* Every target is named exactly once in the account of a finished run, wherever
\* it stopped.  A target named as touched is one a mutating action ran against, in
\* this run or before; unless the run stopped at an action it could not start, one named
\* as untouched is one this run carried nothing out against.
HonestAccount ==
  phase = "done" =>
    \A t \in Objects :
      /\ touched[t] + untouched[t] = IF t \in Range(block) THEN 1 ELSE 0
      /\ touched[t] > 0 => Ran(t, RanNow \cup prior)
      /\ stop # "not-started" /\ untouched[t] > 0 => ~Ran(t, RanNow)

\* StrategyRun::untouched: the targets nothing ran against.
NothingRanAgainst ==
  phase = "done" => \A t \in Objects : untouched[t] > 0 => ~Ran(t, RanNow)

\* No target outside the canary wave is changed unless the canary's required
\* verification passed (the gate of run_waves).
CanaryFirst ==
  strategy.kind = "canary" /\ verdict # "verified" =>
    \A i \in RanNow : \E k \in 1 .. waves[1].len : targets[k] = block[i]

\* After an action that failed, or whose outcome nobody could establish, no
\* other action runs, on this target or another, in this wave or a later one.
StopsAtOnce ==
  \A i \in 1 .. Len(log) : i < Len(log) => log[i].outcome = "succeeded"

\* The guide's "several, in order": the actions of a block run in its order.
BlockOrder ==
  \A i, j \in 1 .. Len(log) : i < j => log[i].action < log[j].action

=============================================================================
