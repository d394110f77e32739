--------------------------- MODULE MCObjectPipeline ---------------------------
(***************************************************************************)
(* Small pipelines.                                                        *)
(***************************************************************************)
EXTENDS ObjectPipeline

\* Those that read all their input.
Exhaustive == {<<"where", "where">>, <<"where", "count">>, <<"where", "sort">>}
WhereTake == {<<"where", "take">>}
Mixed == Exhaustive \cup WhereTake
=============================================================================
