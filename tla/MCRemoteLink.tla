---------------------------- MODULE MCRemoteLink ----------------------------
(* One query and one act, or two queries, over one link.                   *)
EXTENDS RemoteLink, TLC

CONSTANTS s1, s2
=============================================================================
