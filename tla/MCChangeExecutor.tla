-------------------------- MODULE MCChangeExecutor --------------------------
(***************************************************************************)
(* Small instances of ChangeExecutor: the constant values a configuration  *)
(* file cannot spell.                                                      *)
(***************************************************************************)
EXTENDS ChangeExecutor, TLC

CONSTANTS s1, s2, r1, r2, p1, p2

\* One invocation in each of two shells.
OneEach == (r1 :> s1) @@ (r2 :> s2)

\* Two jobs of one shell.
SameShell == (r1 :> s1) @@ (r2 :> s1)

OnceThenAgain == <<"non-idempotent", "idempotent">>
AgainOnceAgain == <<"idempotent", "retry-safe-with-token", "idempotent">>
AgainThenOnce == <<"idempotent", "retry-safe-with-token">>
OneAgain == <<"idempotent">>
AllAgain == <<"idempotent", "idempotent">>

\* Nothing tells one shell from the other once each takes its runs with it.
Swap ==
  {f \in Permutations(Shell \cup Run) :
     \A r \in Run : f[r] \in Run /\ f[ShellOf[r]] = ShellOf[f[r]]}

OneDomain == [p \in Prot |-> "data"]
TwoDomains == (p1 :> "data") @@ (p2 :> "config")
=============================================================================
