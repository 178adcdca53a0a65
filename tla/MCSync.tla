------------------------------- MODULE MCSync -------------------------------
(* Instances of SyncServer for TLC. *)
EXTENDS SyncInv, TLC

CONSTANTS d1, d2, d3, g1, g2, col, deck1, deck2, card1, card2

\* The entity type of each entity: collection 1, deck 2, card 6.
TypeOfId == (col :> 1) @@ (deck1 :> 2) @@ (deck2 :> 2) @@ (card1 :> 6) @@ (card2 :> 6)

MCTypeOf == [e \in Entities |-> TypeOfId[e]]

\* All devices have one collection, or one of them has created its own.
SameCollection == [d \in Devices |-> "c1"]
OneStranger == [d \in Devices |-> IF d = d3 THEN "c2" ELSE "c1"]

\* Nothing was ever pushed.
EmptyTables == {[e \in Entities |-> [usn |-> 0, del |-> FALSE]]}

\* Every entity has a row, and the USNs 1 .. |Entities| in any order; card1 is
\* a tombstone.
FullTables ==
    {[e \in Entities |-> [usn |-> u[e], del |-> e = card1]] :
        u \in {f \in [Entities -> 1..Cardinality(Entities)] :
                  \A x, y \in Entities : x # y => f[x] # f[y]}}

\* Interchangeable goroutines; interchangeable devices of one collection.
ProcSymmetry == Permutations(Procs)
AllSymmetry == Permutations(Procs) \union Permutations(Devices)
=============================================================================
