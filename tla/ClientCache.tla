---------------------------- MODULE ClientCache ----------------------------
(***************************************************************************)
(* GetClientInfo: the OAuth clients in MySQL behind a cache in Redis, read *)
(* by authorize and revoke in goroutines.  A lookup is GETEX on the cache, *)
(* SELECT when that gives nothing, SET of what the SELECT found.           *)
(*                                                                         *)
(* The server never changes a client.  An operator does, by SQL and        *)
(* without touching the cache (external): this module says what the cache  *)
(* makes of such a change.  With no change at all it is invisible, which   *)
(* is why Auth does without it.                                            *)
(***************************************************************************)
EXTENDS Naturals

CONSTANTS
    NoValue,    \* no row, no key, an idle goroutine
    Garbage,    \* a cached text that is no OAClientInfo
    Rows,       \* the ids of oauth_clients
    ClientIds,  \* client_id strings; two spellings of an id are two of them
    RowOf,      \* the id that a client_id spells, NoValue if it spells none
    Uris,       \* redirect URIs
    Procs,      \* goroutines
    MaxChanges, \* bound: changes by the operator
    Faults      \* may Redis and MySQL fail?

ASSUME ClientCacheAssumption ==
    /\ RowOf \in [ClientIds -> Rows \union {NoValue}]
    /\ NoValue \notin Rows \union Uris \union ClientIds
    /\ Garbage \notin Uris \union {NoValue}
    /\ MaxChanges \in Nat
    /\ Faults \in BOOLEAN

(* A lookup between two steps.  uri is what it read; seen is history: the  *)
(* values that its row has had since it began.                             *)
Steps  == {"select", "del", "set"}
Lookup == [client: ClientIds, step: Steps, uri: Uris \union {NoValue},
           seen: SUBSET (Uris \union {NoValue})]

(* The last answer to a client_id: from the cache or from MySQL, with the  *)
(* values of the row during that lookup.                                   *)
Answer == [hit: BOOLEAN, uri: Uris \union {NoValue},
           seen: SUBSET (Uris \union {NoValue})]

VARIABLES
    table,    \* oauth_clients: the redirect URI of each row
    cache,    \* the keys oauth:client:{client_id}
    look,     \* GetClientInfo calls between two steps
    answer,   \* history: the last answer to each client_id
    past,     \* history: the values each row has had
    changes   \* how often the operator has changed a row

cacheVars == <<table, cache, look, answer, past, changes>>

(* The row of a client_id; one that is no UUID has none. *)
RowValue(tab, client) ==
    IF RowOf[client] = NoValue THEN NoValue ELSE tab[RowOf[client]]

PastOf(client) ==
    IF RowOf[client] = NoValue THEN {NoValue} ELSE past[RowOf[client]]

CacheTypeOK ==
    /\ table \in [Rows -> Uris \union {NoValue}]
    /\ cache \in [ClientIds -> Uris \union {NoValue, Garbage}]
    /\ look \in [Procs -> Lookup \union {NoValue}]
    /\ answer \in [ClientIds -> Answer \union {NoValue}]
    /\ past \in [Rows -> SUBSET (Uris \union {NoValue})]
    /\ changes \in Nat

(* The cache may hold texts that another version of the server left. *)
CacheInit ==
    /\ table \in [Rows -> Uris \union {NoValue}]
    /\ cache \in [ClientIds -> {NoValue, Garbage}]
    /\ look = [g \in Procs |-> NoValue]
    /\ answer = [c \in ClientIds |-> NoValue]
    /\ past = [r \in Rows |-> {table[r]}]
    /\ changes = 0

-----------------------------------------------------------------------------
\* Mutant: one key for all clients.
SharedKey(client) == CHOOSE c \in ClientIds : TRUE

CacheKey(client) == client

Ends(g, a) ==
    /\ look' = [look EXCEPT ![g] = NoValue]
    /\ answer' = [answer EXCEPT ![look[g].client] = a]

Goes(g, step) == look' = [look EXCEPT ![g].step = step] /\ UNCHANGED answer

\* Mutant: the TTL is renewed by writing back what was read.
HitWritesBack(g, client, uri) ==
    /\ look' = [look EXCEPT ![g] =
          [client |-> client, step |-> "set", uri |-> uri,
           seen |-> {RowValue(table, client)}]]
    /\ UNCHANGED answer

(* A hit is answered at once; GETEX renews its TTL. *)
Hit(g, client, uri) ==
    /\ answer' = [answer EXCEPT ![client] =
          [hit |-> TRUE, uri |-> uri, seen |-> {RowValue(table, client)}]]
    /\ UNCHANGED look

\* Mutant: a lookup that Redis does not answer is answered "not found".
MissIsNotFound(g, client, step) ==
    /\ answer' = [answer EXCEPT ![client] =
          [hit |-> FALSE, uri |-> NoValue, seen |-> {RowValue(table, client)}]]
    /\ UNCHANGED look

Miss(g, client, step) ==
    /\ look' = [look EXCEPT ![g] =
          [client |-> client, step |-> step, uri |-> NoValue,
           seen |-> {RowValue(table, client)}]]
    /\ UNCHANGED answer

\* Mutant: whatever is cached counts as a hit.
GetCachedUnparsed(g, client) ==
    LET v == cache[CacheKey(client)] IN
    /\ look[g] = NoValue
    /\ \/ v # NoValue /\ Hit(g, client, v)
       \/ (v = NoValue \/ Faults) /\ Miss(g, client, "select")
    /\ UNCHANGED <<table, cache, past, changes>>

(* getCachedClientInfo.  An error of Redis counts as a miss. *)
GetCached(g, client) ==
    LET v == cache[CacheKey(client)] IN
    /\ look[g] = NoValue
    /\ \/ v \in Uris /\ Hit(g, client, v)
       \/ v = Garbage /\ Miss(g, client, "del")
       \/ (v = NoValue \/ Faults) /\ Miss(g, client, "select")
    /\ UNCHANGED <<table, cache, past, changes>>

(* A text that does not parse is deleted, whatever is there by then. *)
DeleteCached(g) ==
    LET p == look[g] IN
    /\ p # NoValue /\ p.step = "del"
    /\ \/ cache' = [cache EXCEPT ![CacheKey(p.client)] = NoValue]
       \/ Faults /\ UNCHANGED cache
    /\ Goes(g, "select")
    /\ UNCHANGED <<table, past, changes>>

(* A client that is not there is answered and not cached. *)
SelectClient(g) ==
    LET p == look[g]
        uri == RowValue(table, p.client)
    IN
    /\ p # NoValue /\ p.step = "select"
    /\ \/ /\ uri # NoValue
          /\ look' = [look EXCEPT ![g].step = "set", ![g].uri = uri]
          /\ UNCHANGED answer
       \/ uri = NoValue /\ Ends(g, [hit |-> FALSE, uri |-> uri, seen |-> p.seen])
    /\ UNCHANGED <<table, cache, past, changes>>

(* cacheClientInfo: a failing SET is logged and forgotten. *)
CacheClientInfo(g) ==
    LET p == look[g] IN
    /\ p # NoValue /\ p.step = "set"
    /\ \/ cache' = [cache EXCEPT ![CacheKey(p.client)] = p.uri]
       \/ Faults /\ UNCHANGED cache
    /\ Ends(g, [hit |-> FALSE, uri |-> p.uri, seen |-> p.seen])
    /\ UNCHANGED <<table, past, changes>>

(* A failing SELECT, a cancelled request or a crash. *)
LookupFails(g) ==
    /\ Faults /\ look[g] # NoValue
    /\ look' = [look EXCEPT ![g] = NoValue]
    /\ UNCHANGED <<table, cache, answer, past, changes>>

(* Ten minutes without a lookup of the client_id, or an eviction. *)
CacheExpire(client) ==
    /\ cache[client] # NoValue
    /\ cache' = [cache EXCEPT ![client] = NoValue]
    /\ UNCHANGED <<table, look, answer, past, changes>>

(* The operator registers, changes or removes a client (external). *)
ChangeRow(r, uri) ==
    /\ changes < MaxChanges
    /\ table[r] # uri
    /\ table' = [table EXCEPT ![r] = uri]
    /\ past' = [past EXCEPT ![r] = @ \union {uri}]
    /\ changes' = changes + 1
    /\ look' = [g \in Procs |->
          IF look[g] # NoValue /\ RowOf[look[g].client] = r
          THEN [look[g] EXCEPT !.seen = @ \union {uri}] ELSE look[g]]
    /\ UNCHANGED <<cache, answer>>

-----------------------------------------------------------------------------
LookupStep(g) == DeleteCached(g) \/ SelectClient(g) \/ CacheClientInfo(g)

CacheNext ==
    \/ \E g \in Procs : \/ LookupStep(g) \/ LookupFails(g)
                        \/ \E client \in ClientIds : GetCached(g, client)
    \/ \E client \in ClientIds : CacheExpire(client)
    \/ \E r \in Rows, uri \in Uris \union {NoValue} : ChangeRow(r, uri)

CacheSpec == CacheInit /\ [][CacheNext]_cacheVars

(* A goroutine that can run runs. *)
CacheFairSpec ==
    CacheSpec /\ \A g \in Procs : WF_cacheVars(LookupStep(g))

-----------------------------------------------------------------------------
(* Whatever lookups of several clients interleave, an answer is a value    *)
(* that the client's own row has or had: never another client's URI, and   *)
(* "not found" only for a client that was missing.  As long as no row      *)
(* changes, the cache is therefore invisible.                              *)
AnswersFromOwnRow ==
    \A c \in ClientIds : answer[c] # NoValue => answer[c].uri \in PastOf(c)

(* An answer that did not come from the cache is one that the row gave     *)
(* during the lookup.  In particular absence is not cached: a client is    *)
(* known from the moment it is registered, also while Redis fails.         *)
MissesAreCurrent ==
    \A c \in ClientIds :
        answer[c] # NoValue /\ ~answer[c].hit => answer[c].uri \in answer[c].seen

(* A change may stay unseen as long as lookups keep renewing the TTL, but  *)
(* no longer: an entry that keeps expiring is in the end the current row.  *)
(* A lookup that had read the old row can bring it back only once.         *)
ForgottenOnceExpired ==
    \A c \in ClientIds :
        []<>(cache[c] = NoValue) =>
            <>[](cache[c] \in {NoValue, Garbage, RowValue(table, c)})

-----------------------------------------------------------------------------
(* The inductive invariant behind the first two: what is cached or carried *)
(* by a lookup was in the row, and what a lookup read, it read since it    *)
(* began.                                                                  *)
CacheInv ==
    /\ \A r \in Rows : table[r] \in past[r]
    /\ \A c \in ClientIds :
          cache[c] \in Uris => cache[c] \in PastOf(c)
    /\ \A g \in Procs : look[g] # NoValue =>
          /\ RowValue(table, look[g].client) \in look[g].seen
          /\ look[g].seen \subseteq PastOf(look[g].client)
          /\ look[g].step = "set" => look[g].uri \in look[g].seen \ {NoValue}
    /\ AnswersFromOwnRow
    /\ MissesAreCurrent
=============================================================================
