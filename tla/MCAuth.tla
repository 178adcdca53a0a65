------------------------------- MODULE MCAuth -------------------------------
(* Small instances of Auth for TLC. *)
EXTENDS Auth, TLC

CONSTANTS id1, id2, g1, g2, v1, v2

(* The verifiers' challenges: S256 has no collision within reach. *)
MCChallenges == {<<"S256", v>> : v \in Verifiers}
MCS256 == [v \in Verifiers |-> <<"S256", v>>]

(* Two spellings of the registered client's id, and an unknown one. *)
MCClients == {"app", "APP", "other"}
MCUriOf == [c \in Clients |-> IF c = "other" THEN None ELSE "callback"]

IdProcSymmetry == Permutations(Ids) \union Permutations(Procs)
=============================================================================
