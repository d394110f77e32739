------------------------------ MODULE PlanState ------------------------------
(***************************************************************************)
(* The vocabulary of ono-change-core: the lifecycle states of a plan, the  *)
(* statuses of one action, the idempotency classes, and the predicates the *)
(* rest of the change engine asks about them.                              *)
(***************************************************************************)

PlanStates ==
  {"draft", "resolved", "sealed", "expired", "preparing", "prepare-failed",
   "protected", "applying", "apply-failed", "verifying", "verified",
   "degraded", "failed", "closed", "recovery-planned", "recovering",
   "recovered", "recovery-failed", "recovery-verified"}

Appliable == {"sealed", "protected"}

Terminal == {"expired", "closed", "prepare-failed", "recovery-verified"}

VerdictStates ==
  {"verified", "degraded", "failed", "recovered", "recovery-failed"}

\* The states an interrupted apply leaves behind, which resume picks up.
Resumable ==
  Appliable \cup {"preparing", "applying", "apply-failed", "verifying"}

ActionStatuses ==
  {"pending", "running", "succeeded", "failed", "skipped", "unknown"}

MayHaveMutated == {"running", "succeeded", "failed", "unknown"}

\* "non-idempotent" stands for the source's NonIdempotent and Unknown, which
\* every predicate of the source treats alike.
Idempotencies == {"idempotent", "retry-safe-with-token", "non-idempotent"}

\* PlanAction::may_resume, narrowed by resume_with's token_unavailable: a
\* retry that needs the original token is refused, because nothing carries it.
MayRerun(status, idempotency) ==
  \/ status \in {"pending", "skipped"}
  \/ /\ status \in {"running", "unknown", "failed"}
     /\ idempotency = "idempotent"
=============================================================================
