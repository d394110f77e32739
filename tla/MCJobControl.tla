---------------------------- MODULE MCJobControl ----------------------------
(* One pipeline of two stages, or two pipelines of one stage.              *)
EXTENDS JobControl, TLC

CONSTANTS g1, g2

OneOrTwo == {[g \in Pipe |-> IF g = g1 THEN 2 ELSE 0], [g \in Pipe |-> 1]}
=============================================================================
