-------------------------------- MODULE MCLogger -------------------------------
(* Two threads, which nothing tells apart, and messages of one and two lines. *)
EXTENDS Logger
=============================================================================
