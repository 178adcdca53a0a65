---------------------------- MODULE MCServerLife ----------------------------
(* Constants of ServerLife for TLC: the clients. *)
EXTENDS ServerLife

CONSTANTS c1, c2, c3
=============================================================================
