------------------------------- MODULE MCAgent -------------------------------
(* Three arguments: an option, its value and one more, in any order. *)
EXTENDS Agent
=============================================================================
