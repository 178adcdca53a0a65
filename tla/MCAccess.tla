------------------------------ MODULE MCAccess ------------------------------
(* Small instances of Access for TLC. *)
EXTENDS Access, TLC

CONSTANTS id1, id2, g1, g2, v1

(* The challenge of the one verifier, and the one client. *)
MCChallenges == {<<"S256", v>> : v \in Verifiers}
MCS256 == [v \in Verifiers |-> <<"S256", v>>]
MCUriOf == [c \in Clients |-> "callback"]
=============================================================================
