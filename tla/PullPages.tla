----------------------------- MODULE PullPages -----------------------------
(***************************************************************************)
(* One whole pull, by pages: what GetChangesSinceUSN promises whatever the *)
(* LIMITs, the sizes of the rows and the capacity of a response are.  A    *)
(* page is a non-empty prefix of the rows that a query finds; a response   *)
(* may end after any page.                                                 *)
(***************************************************************************)
EXTENDS Naturals

CONSTANTS
    Cli,    \* the device's cursor: the pull starts here
    End     \* the server's cursor at the handshake: it ends below this

ASSUME PullPagesAssumption == Cli \in Nat \ {0} /\ End \in Nat

VARIABLES
    rows,   \* the user's rows, any: the pull does not change them
    todo,   \* the types still to pull, lowest first
    start,  \* the cursor at which the current response starts every type
    cur,    \* the cursor of the next query
    got,    \* the rows collected so far
    from,   \* history: the cursor of the first query of each type
    status  \* "running", "stuck" (a query found no row) or "error"

pageVars == <<rows, todo, start, cur, got, from, status>>

Types == 1 .. 7

SelectRows(type, lo) ==
    {r \in rows : r.type = type /\ lo <= r.usn /\ r.usn < End}

PagesTypeOK ==
    /\ \A r \in rows : r.type \in Types /\ r.usn \in Nat
    /\ todo \subseteq Types
    /\ start \in Nat /\ cur \in Nat
    /\ from \in [Types -> Nat]
    /\ status \in {"running", "stuck", "error"}

(* The types that have a row in range; none when all that happened since   *)
(* Cli were deletes of rows that were not there.                           *)
TypeQueue == {t \in Types : SelectRows(t, Cli) # {}}

PagesInit ==
    /\ \A r \in rows : r.type \in Types /\ r.usn \in Nat
    /\ todo = TypeQueue
    /\ start = Cli /\ cur = Cli
    /\ got = {}
    /\ from = [t \in Types |-> 0]
    /\ status = "running"

IsNext(type) == type \in todo /\ \A t \in todo : type <= t

Prefix(page, selected) ==
    /\ page \subseteq selected
    /\ \A x \in page, y \in selected \ page : x.usn < y.usn

\* Mutant: the next type goes on at the cursor of the last one.
CursorKept == cur

(* Where the next type begins. *)
CursorReset == start

(* One query and what the collector takes of it. *)
Page(type, page) ==
    LET selected == SelectRows(type, cur) IN
    /\ status = "running" /\ IsNext(type)
    /\ page # {} /\ Prefix(page, selected)
    /\ got' = got \union page
    /\ from' = [from EXCEPT ![type] = IF @ = 0 THEN cur ELSE @]
    /\ \/ /\ page # selected
          /\ \E row \in page : /\ \A x \in page : x.usn <= row.usn
                               /\ cur' = row.usn + 1
          /\ UNCHANGED todo
       \/ /\ page = selected
          /\ todo' = todo \ {type}
          /\ cur' = CursorReset
    /\ UNCHANGED <<rows, start, status>>

(* The next response goes on where the session says. *)
Cut ==
    /\ status = "running"
    /\ start' = cur
    /\ UNCHANGED <<rows, todo, cur, got, from, status>>

(* A query that finds nothing fails the pull. *)
Stuck ==
    /\ status = "running"
    /\ \E type \in todo : IsNext(type) /\ SelectRows(type, cur) = {}
    /\ status' = "stuck"
    /\ UNCHANGED <<rows, todo, start, cur, got, from>>

(* MySQL or the session fails; the device has to begin a new sync. *)
Error ==
    /\ status = "running"
    /\ status' = "error"
    /\ UNCHANGED <<rows, todo, start, cur, got, from>>

PagesNext ==
    \/ \E type \in todo : \E page \in SUBSET SelectRows(type, cur) : Page(type, page)
    \/ Cut \/ Stuck \/ Error

PagesSpec == PagesInit /\ [][PagesNext]_pageVars

-----------------------------------------------------------------------------
(* Nothing is lost within a type: once it has been pulled, every row of it *)
(* from the cursor of its first query on has been collected, over however  *)
(* many pages and responses.  What a pull omits is therefore only what     *)
(* lies below that cursor, which is above Cli when an earlier response was *)
(* cut in the middle of another type.                                      *)
CollectedFromStart ==
    \A t \in Types \ todo : from[t] # 0 =>
        \A r \in rows : r.type = t /\ from[t] <= r.usn /\ r.usn < End => r \in got

(* As long as no response has been cut in the middle of a type, a pull     *)
(* finds a row in every query and omits none.                              *)
FailsOnlyAfterCut ==
    start = Cli =>
        /\ status # "stuck"
        /\ todo = {} => \A r \in rows : Cli <= r.usn /\ r.usn < End => r \in got

(* The inductive invariant behind both: the cursor of the type being       *)
(* pulled has collected rows below it and uncollected ones above it.       *)
PagesInv ==
    /\ Cli <= start /\ start <= cur
    /\ \A t \in todo :
          /\ SelectRows(t, Cli) # {}
          /\ IsNext(t) /\ from[t] = 0 => cur = start
          /\ from[t] # 0 =>
                /\ IsNext(t)
                /\ SelectRows(t, cur) # {}
                /\ \A r \in rows : r.type = t /\ from[t] <= r.usn /\ r.usn < cur
                                   => r \in got
    /\ \A t \in Types \ todo : from[t] # 0 \/ SelectRows(t, Cli) = {}
    /\ start = Cli => status # "stuck" /\ \A t \in Types : from[t] \in {0, Cli}
    /\ CollectedFromStart
=============================================================================
