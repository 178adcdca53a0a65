---------------------------- MODULE MCPullBatch ----------------------------
(***************************************************************************)
(* Constants of PullBatch for TLC: every way to spread Usns USNs over the  *)
(* seven types, at most one of them a collection's.                        *)
(***************************************************************************)
EXTENDS PullBatch

CONSTANT Usns   \* bound: the number of rows

(* Every third row is deleted where its type allows that; texts of three   *)
(* lengths make a response end below, at and above the capacity.           *)
RowAt(u, t) ==
    [type |-> t, usn |-> u,
     deleted |-> u % 3 = 0 /\ t \notin {Collection, ReviewLog},
     text |-> IF u % 3 = 0 THEN 0 ELSE IF u % 3 = 1 THEN 39 ELSE 93]

Spreads ==
    {f \in [1 .. Usns -> Types] :
        \A u, v \in 1 .. Usns : f[u] = Collection /\ f[v] = Collection => u = v}

(* ... and the database without a row. *)
AllDatabases == {{RowAt(u, f[u]) : u \in 1 .. Usns} : f \in Spreads} \union {{}}

FewRows == [t \in Types |-> IF t \in {Deck, Card} THEN 2 ELSE 1]
=============================================================================
