--------------------------- MODULE MCClientCache ---------------------------
(***************************************************************************)
(* Constants of ClientCache for TLC: a client whose id has two spellings,  *)
(* and a client_id that is no UUID.                                        *)
(***************************************************************************)
EXTENDS ClientCache, TLC

CONSTANTS r1, c1, c1x, bad

TwoSpellings == (c1 :> r1) @@ (c1x :> r1) @@ (bad :> NoValue)
=============================================================================
