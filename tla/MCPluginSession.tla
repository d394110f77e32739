--------------------------- MODULE MCPluginSession ---------------------------
(* An invocation that emits, one that opens a view, and both at once.       *)
EXTENDS PluginSession, TLC

CONSTANTS e1, v1

Plan(c, made, values, may) ==
  [ceiling |-> c, made |-> made, values |-> values, may |-> may]

EachAndBoth ==
  { Plan(1, {e1}, 3, Events), Plan(1, {v1}, 0, Events \ {"invalid", "cancel"}),
    Plan(1, {e1, v1}, 1, {"cancel"}), Plan(2, {e1, v1}, 1, {"crash"}) }
=============================================================================
