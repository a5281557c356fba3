---------------------------- MODULE MCNodeTable ----------------------------
(* Instances of NodeTable for TLC.                                         *)
EXTENDS NodeTable

=============================================================================
