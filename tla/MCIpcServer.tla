----------------------------- MODULE MCIpcServer -----------------------------
(***************************************************************************)
(* Two interchangeable clients compete for the server's single pipe        *)
(* instance.                                                               *)
(***************************************************************************)
EXTENDS IpcServer
=============================================================================
