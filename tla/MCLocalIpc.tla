------------------------------ MODULE MCLocalIpc ------------------------------
(* The Desktop, alone or with one more local process on the pipe. *)
EXTENDS LocalIpc
=============================================================================
