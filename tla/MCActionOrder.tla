---------------------------- MODULE MCActionOrder ----------------------------
(***************************************************************************)
(* Small instances of ActionOrder: every list of at most two dependencies, *)
(* known, unknown, repeated or on the action itself.                       *)
(***************************************************************************)
EXTENDS ActionOrder

UpToTwo == UNION {[1 .. k -> 0 .. N] : k \in 0 .. 2}

TwoRoles == {"prepare", "mutate"}
=============================================================================
