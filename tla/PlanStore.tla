------------------------------ MODULE PlanStore ------------------------------
(***************************************************************************)
(* The plan store (ono-change-plan/src/store.rs) as the executor sees it:  *)
(* for one revision of one sealed plan, the row of the apply claim, the    *)
(* durable lifecycle state, the action records, and the recovery assets    *)
(* attributed to the plan.  Every operation is one SQLite statement or one *)
(* IMMEDIATE transaction, hence one step.  The store outlives every shell. *)
(*                                                                         *)
(* The lease of a claim is modelled by whether it has run out, not by a    *)
(* clock: take_claim compares expires_nanos with the caller's now and      *)
(* nothing else ever looks at the value.                                   *)
(***************************************************************************)
EXTENDS PlanState, Naturals

CONSTANTS
  Shell,      \* the shell processes sharing the store, each with its own session
  N,          \* the number of mutating actions of the plan
  Prot,       \* the protection actions the coverage analysis proposes
  NoShell     \* "no claim row"

Action == 1 .. N

ASSUME StoreAssumption ==
  /\ N \in Nat \ {0}
  /\ NoShell \notin Shell

VARIABLES
  state,      \* plans.state of the revision
  record,     \* action_status rows; "pending" where there is no row
  claim,      \* the apply_claims row
  stored,     \* the assets recorded for each protection action
  dead,       \* shells whose process is gone
  ghost       \* dead shells whose pid now names another process

storeVars == <<state, record, claim, stored>>
procVars  == <<dead, ghost>>

\* What an asset captured: the targets before the plan changed anything, or
\* after it had begun to.
Captured == {"before", "after"}

NoClaim == [holder |-> NoShell, fresh |-> FALSE]

\* holder_is_alive looks for /proc/<pid>, which a reused pid answers too.
HolderIsAlive(s) == s \notin dead \/ s \in ghost

\* A mutant: the row that is there is not looked at.
AlwaysTakeable(s) == s \in Shell

\* take_claim refuses a fresh lease of a live holder that is another session.
Takeable(s) ==
  \/ claim.holder = NoShell
  \/ ~claim.fresh
  \/ claim.holder = s
  \/ ~HolderIsAlive(claim.holder)

TakeClaim(s) ==
  /\ Takeable(s)
  /\ claim' = [holder |-> s, fresh |-> TRUE]

\* release deletes the row of this session and leaves anybody else's alone.
ReleaseClaim(s) ==
  claim' = IF claim.holder = s THEN NoClaim ELSE claim

RecordState(s) == state' = s

RecordActionStatus(a, status) == record' = [record EXCEPT ![a] = status]

PutAssets(assets) ==
  stored' = [p \in Prot |-> stored[p] \cup assets[p]]

StoreInit ==
  /\ state = "sealed"
  /\ record = [a \in Action |-> "pending"]
  /\ claim = NoClaim
  /\ stored = [p \in Prot |-> {}]
  /\ dead = {}
  /\ ghost = {}

StoreTypeOK ==
  /\ state \in PlanStates
  /\ record \in [Action -> ActionStatuses]
  /\ claim \in [holder : Shell \cup {NoShell}, fresh : BOOLEAN]
  /\ stored \in [Prot -> SUBSET Captured]
  /\ dead \subseteq Shell
  /\ ghost \subseteq dead
=============================================================================
