----------------------------- MODULE SealedPlan -----------------------------
(***************************************************************************)
(* What applying a sealed plan promises, with no shells, claims, records   *)
(* or assets in it: its actions are carried out in order, an action that   *)
(* may not be repeated is carried out at most once, and once the plan has  *)
(* an outcome nothing of it is carried out any more.                       *)
(***************************************************************************)
EXTENDS Naturals

CONSTANTS
  N,             \* the number of actions
  Idempotency    \* which of them may be carried out again

VARIABLES
  ran,       \* how often each action was carried out (0, 1, or 2 for more)
  done,      \* the actions that succeeded
  outcome    \* "open", or what became of the plan

vars == <<ran, done, outcome>>

Action == 1 .. N

Init ==
  /\ ran = [a \in Action |-> 0]
  /\ done = {}
  /\ outcome = "open"

Perform(a) ==
  /\ outcome = "open"
  /\ \A b \in Action : b < a => b \in done
  /\ ran[a] = 0 \/ Idempotency[a] = "idempotent"
  /\ ran' = [ran EXCEPT ![a] = IF @ = 0 THEN 1 ELSE 2]
  /\ done' \in {done, done \cup {a}}
  /\ UNCHANGED outcome

Conclude(o) ==
  /\ outcome = "open"
  /\ o = "verified" => done = Action
  /\ o = "untouched" => \A a \in Action : ran[a] = 0
  /\ outcome' = o
  /\ UNCHANGED <<ran, done>>

Next ==
  \/ \E a \in Action : Perform(a)
  \/ \E o \in {"verified", "untouched", "judged"} : Conclude(o)

Spec == Init /\ [][Next]_vars
=============================================================================
