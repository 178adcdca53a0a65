------------------------- MODULE ClientCacheProofs -------------------------
(***************************************************************************)
(* Theorems of ClientCache: what GetClientInfo answers is a value of the   *)
(* client's own row, and one of the time of the lookup unless it comes     *)
(* from the cache.                                                         *)
(***************************************************************************)
EXTENDS ClientCache, TLAPS

(* One step of the specification, split into its actions. *)
LEMMA CacheActions ==
    ASSUME [CacheNext]_cacheVars
    PROVE  \/ \E g \in Procs, client \in ClientIds : GetCached(g, client)
           \/ \E g \in Procs : DeleteCached(g) \/ SelectClient(g)
           \/ \E g \in Procs : CacheClientInfo(g) \/ LookupFails(g)
           \/ \E client \in ClientIds : CacheExpire(client)
           \/ \E r \in Rows, uri \in Uris \union {NoValue} : ChangeRow(r, uri)
           \/ UNCHANGED cacheVars
BY DEF CacheNext, LookupStep

(* The value of a client's row is a URI or none, and one it has had. *)
LEMMA RowValueType ==
    ASSUME CacheTypeOK, NEW client \in ClientIds
    PROVE  RowValue(table, client) \in Uris \union {NoValue}
BY ClientCacheAssumption DEF CacheTypeOK, RowValue

LEMMA RowValuePast ==
    ASSUME CacheTypeOK, CacheInv, NEW client \in ClientIds
    PROVE  RowValue(table, client) \in PastOf(client)
BY ClientCacheAssumption DEF CacheTypeOK, CacheInv, RowValue, PastOf

(* Every action preserves the types. *)
LEMMA CacheTypeStep ==
    ASSUME CacheTypeOK, [CacheNext]_cacheVars
    PROVE  CacheTypeOK'
<1> USE CacheTypeOK, ClientCacheAssumption DEF CacheTypeOK
<1>1. ASSUME NEW g \in Procs, NEW client \in ClientIds, GetCached(g, client)
      PROVE  CacheTypeOK'
  <2>1. RowValue(table, client) \in Uris \union {NoValue}
    BY RowValueType
  <2>2. \A step \in Steps :
          [client |-> client, step |-> step, uri |-> NoValue,
           seen |-> {RowValue(table, client)}] \in Lookup
    BY <2>1 DEF Lookup
  <2>3. \A uri \in Uris :
          [hit |-> TRUE, uri |-> uri, seen |-> {RowValue(table, client)}] \in Answer
    BY <2>1 DEF Answer
  <2>4. ASSUME NEW uri \in Uris, Hit(g, client, uri)
        PROVE  CacheTypeOK'
    BY <1>1, <2>3, <2>4 DEF GetCached, Hit
  <2>5. ASSUME NEW step \in Steps, Miss(g, client, step)
        PROVE  CacheTypeOK'
    BY <1>1, <2>2, <2>5 DEF GetCached, Miss
  <2>. QED BY <1>1, <2>4, <2>5 DEF GetCached, Steps
<1>2. ASSUME NEW g \in Procs, DeleteCached(g)
      PROVE  CacheTypeOK'
  <2>1. look[g] \in Lookup
    BY <1>2 DEF DeleteCached
  <2>2. [look[g] EXCEPT !.step = "select"] \in Lookup
    BY <2>1 DEF Lookup, Steps
  <2>. QED BY <1>2, <2>1, <2>2 DEF DeleteCached, Goes, CacheKey, Lookup
<1>3. ASSUME NEW g \in Procs, SelectClient(g)
      PROVE  CacheTypeOK'
  <2>1. look[g] \in Lookup /\ look[g].client \in ClientIds
    BY <1>3 DEF SelectClient, Lookup
  <2>2. RowValue(table, look[g].client) \in Uris \union {NoValue}
    BY <2>1, RowValueType
  <2>3. [look[g] EXCEPT !.step = "set",
                        !.uri = RowValue(table, look[g].client)] \in Lookup
    BY <2>1, <2>2 DEF Lookup, Steps
  <2>4. [hit |-> FALSE, uri |-> RowValue(table, look[g].client),
         seen |-> look[g].seen] \in Answer
    BY <2>1, <2>2 DEF Lookup, Answer
  <2>5. CASE RowValue(table, look[g].client) # NoValue
    <3>1. look' \in [Procs -> Lookup \union {NoValue}]
      BY <1>3, <2>1, <2>3, <2>5 DEF SelectClient
    <3>. QED BY <1>3, <2>5, <3>1 DEF SelectClient
  <2>6. CASE RowValue(table, look[g].client) = NoValue
    BY <1>3, <2>1, <2>4, <2>6 DEF SelectClient, Ends
  <2>. QED BY <2>5, <2>6
<1>4. ASSUME NEW g \in Procs, CacheClientInfo(g)
      PROVE  CacheTypeOK'
  <2>1. look[g] \in Lookup
    BY <1>4 DEF CacheClientInfo
  <2>2. [hit |-> FALSE, uri |-> look[g].uri, seen |-> look[g].seen] \in Answer
    BY <2>1 DEF Lookup, Answer
  <2>. QED BY <1>4, <2>1, <2>2 DEF CacheClientInfo, Ends, CacheKey, Lookup
<1>5. ASSUME NEW g \in Procs, LookupFails(g)
      PROVE  CacheTypeOK'
  BY <1>5 DEF LookupFails
<1>6. ASSUME NEW client \in ClientIds, CacheExpire(client)
      PROVE  CacheTypeOK'
  BY <1>6 DEF CacheExpire
<1>7. ASSUME NEW r \in Rows, NEW uri \in Uris \union {NoValue}, ChangeRow(r, uri)
      PROVE  CacheTypeOK'
  <2>1. \A g \in Procs : look[g] # NoValue =>
          [look[g] EXCEPT !.seen = @ \union {uri}] \in Lookup
    BY DEF Lookup
  <2>2. look' \in [Procs -> Lookup \union {NoValue}]
    BY <1>7, <2>1 DEF ChangeRow
  <2>. QED BY <1>7, <2>2 DEF ChangeRow
<1>8. CASE UNCHANGED cacheVars
  BY <1>8 DEF cacheVars
<1>. QED
  BY <1>1, <1>2, <1>3, <1>4, <1>5, <1>6, <1>7, <1>8, CacheActions

(* ClientCache is type-correct: a cached text that is no client never      *)
(* becomes an answer of GetClientInfo.                                     *)
THEOREM CacheTypeCorrect == CacheSpec => []CacheTypeOK
<1>1. CacheInit => CacheTypeOK
  BY ClientCacheAssumption DEF CacheInit, CacheTypeOK
<1>2. CacheTypeOK /\ [CacheNext]_cacheVars => CacheTypeOK'
  BY CacheTypeStep
<1>. QED BY <1>1, <1>2, PTL DEF CacheSpec

-----------------------------------------------------------------------------
(* What a lookup in flight owes: its row's value is among the ones it has  *)
(* seen, those are values of its row, and what it read it has seen.        *)
LookupInv(p) ==
    /\ RowValue(table, p.client) \in p.seen
    /\ p.seen \subseteq PastOf(p.client)
    /\ p.step = "set" => p.uri \in p.seen \ {NoValue}

(* What an answer to a client_id owes. *)
AnswerInv(c, a) ==
    /\ a.uri \in PastOf(c)
    /\ ~a.hit => a.uri \in a.seen

(* CacheInv by lookups and answers. *)
LEMMA CacheInvParts ==
    CacheInv <=> /\ \A r \in Rows : table[r] \in past[r]
                 /\ \A c \in ClientIds : cache[c] \in Uris => cache[c] \in PastOf(c)
                 /\ \A g \in Procs : look[g] # NoValue => LookupInv(look[g])
                 /\ \A c \in ClientIds : answer[c] # NoValue => AnswerInv(c, answer[c])
BY DEF CacheInv, LookupInv, AnswerInv, AnswersFromOwnRow, MissesAreCurrent

(* Only ChangeRow touches rows: for every other action it is enough that   *)
(* the new cache entries, lookups and answers are what they owe to be.     *)
LEMMA CacheInvKept ==
    ASSUME CacheInv, UNCHANGED <<table, past>>,
           \A c \in ClientIds : cache'[c] # cache[c] /\ cache'[c] \in Uris
                                    => cache'[c] \in PastOf(c),
           \A g \in Procs : look'[g] # look[g] /\ look'[g] # NoValue
                                => LookupInv(look'[g]),
           \A c \in ClientIds : answer'[c] # answer[c] /\ answer'[c] # NoValue
                                => AnswerInv(c, answer'[c])
    PROVE  CacheInv'
<1>1. /\ \A r \in Rows : table[r] \in past[r]
      /\ \A c \in ClientIds : cache[c] \in Uris => cache[c] \in PastOf(c)
      /\ \A g \in Procs : look[g] # NoValue => LookupInv(look[g])
      /\ \A c \in ClientIds : answer[c] # NoValue => AnswerInv(c, answer[c])
  BY CacheInvParts
<1>2. (\A r \in Rows : table[r] \in past[r])'
  BY <1>1
<1>3. (\A c \in ClientIds : cache[c] \in Uris => cache[c] \in PastOf(c))'
  BY <1>1 DEF PastOf
<1>4. (\A g \in Procs : look[g] # NoValue => LookupInv(look[g]))'
  <2>1. \A g \in Procs : look'[g] # NoValue => LookupInv(look'[g])
    BY <1>1
  <2>. QED BY <2>1 DEF LookupInv, RowValue, PastOf
<1>5. (\A c \in ClientIds : answer[c] # NoValue => AnswerInv(c, answer[c]))'
  <2>1. \A c \in ClientIds : answer'[c] # NoValue => AnswerInv(c, answer'[c])
    BY <1>1
  <2>. QED BY <2>1 DEF AnswerInv, PastOf
<1>. QED BY <1>2, <1>3, <1>4, <1>5 DEF CacheInv, LookupInv, AnswerInv, AnswersFromOwnRow, MissesAreCurrent

(* CacheInv is inductive. *)
LEMMA CacheInvStep ==
    ASSUME CacheTypeOK, CacheInv, [CacheNext]_cacheVars
    PROVE  CacheInv'
<1> USE ClientCacheAssumption
<1>a. /\ \A r \in Rows : table[r] \in past[r]
      /\ \A c \in ClientIds : cache[c] \in Uris => cache[c] \in PastOf(c)
      /\ \A g \in Procs : look[g] # NoValue => LookupInv(look[g])
      /\ \A c \in ClientIds : answer[c] # NoValue => AnswerInv(c, answer[c])
  BY CacheInvParts
<1>b. \A g \in Procs : look[g] # NoValue =>
        /\ look[g].client \in ClientIds
        /\ look[g].seen \subseteq Uris \union {NoValue}
        /\ look[g] \in Lookup
  BY DEF CacheTypeOK, Lookup
<1>c. /\ DOMAIN look = Procs /\ DOMAIN answer = ClientIds /\ DOMAIN cache = ClientIds
      /\ look = [g \in Procs |-> look[g]]
  BY DEF CacheTypeOK
<1>1. ASSUME NEW g \in Procs, NEW client \in ClientIds, GetCached(g, client)
      PROVE  CacheInv'
  <2>1. UNCHANGED <<table, past, cache>>
    BY <1>1 DEF GetCached
  <2>2. ASSUME cache[client] \in Uris, Hit(g, client, cache[client])
        PROVE  CacheInv'
    <3>1. AnswerInv(client, [hit |-> TRUE, uri |-> cache[client],
                             seen |-> {RowValue(table, client)}])
      BY <1>a, <2>2 DEF AnswerInv
    <3>2. \A c \in ClientIds : answer'[c] # answer[c] => AnswerInv(c, answer'[c])
      BY <1>c, <2>2, <3>1 DEF Hit
    <3>. QED BY <2>1, <2>2, <3>2, CacheInvKept DEF Hit
  <2>3. ASSUME NEW step \in {"select", "del"}, Miss(g, client, step)
        PROVE  CacheInv'
    <3>1. RowValue(table, client) \in PastOf(client)
      BY RowValuePast
    <3>2. LookupInv([client |-> client, step |-> step, uri |-> NoValue,
                     seen |-> {RowValue(table, client)}])
      BY <3>1 DEF LookupInv
    <3>3. \A h \in Procs : look'[h] # look[h] => LookupInv(look'[h])
      BY <1>c, <2>3, <3>2 DEF Miss
    <3>. QED BY <2>1, <2>3, <3>3, CacheInvKept DEF Miss
  <2>. QED BY <1>1, <2>2, <2>3 DEF GetCached, CacheKey
<1>2. ASSUME NEW g \in Procs, DeleteCached(g)
      PROVE  CacheInv'
  <2>1. UNCHANGED <<table, past, answer>> /\ look[g] # NoValue
    BY <1>2 DEF DeleteCached, Goes
  <2>2. \A c \in ClientIds : cache'[c] # cache[c] => cache'[c] = NoValue
    BY <1>2, <1>b, <1>c, <2>1 DEF DeleteCached, CacheKey
  <2>3. LookupInv([look[g] EXCEPT !.step = "select"])
    BY <1>a, <1>b, <2>1 DEF LookupInv, Lookup
  <2>4. \A h \in Procs : look'[h] # look[h] => LookupInv(look'[h])
    BY <1>2, <1>c, <2>3 DEF DeleteCached, Goes
  <2>. QED BY <2>1, <2>2, <2>4, CacheInvKept
<1>3. ASSUME NEW g \in Procs, SelectClient(g)
      PROVE  CacheInv'
  <2> DEFINE p == look[g]
             uri == RowValue(table, p.client)
  <2>1. UNCHANGED <<table, past, cache>> /\ p # NoValue /\ LookupInv(p)
    BY <1>3, <1>a DEF SelectClient
  <2>2. CASE uri # NoValue
    <3>1. LookupInv([p EXCEPT !.step = "set", !.uri = uri])
      BY <1>b, <2>1, <2>2 DEF LookupInv, Lookup
    <3>2. \A h \in Procs : look'[h] # look[h] => LookupInv(look'[h])
      BY <1>3, <1>c, <2>2, <3>1 DEF SelectClient
    <3>3. UNCHANGED answer
      BY <1>3, <2>2 DEF SelectClient
    <3>. QED BY <2>1, <3>2, <3>3, CacheInvKept
  <2>3. CASE uri = NoValue
    <3>1. AnswerInv(p.client, [hit |-> FALSE, uri |-> uri, seen |-> p.seen])
      BY <2>1 DEF LookupInv, AnswerInv
    <3>2. Ends(g, [hit |-> FALSE, uri |-> uri, seen |-> p.seen])
      BY <1>3, <2>3 DEF SelectClient
    <3>3. \A c \in ClientIds : answer'[c] # answer[c] => AnswerInv(c, answer'[c])
      BY <1>c, <3>1, <3>2 DEF Ends
    <3>4. \A h \in Procs : look'[h] # look[h] => look'[h] = NoValue
      BY <1>c, <3>2 DEF Ends
    <3>. QED BY <2>1, <3>3, <3>4, CacheInvKept
  <2>. QED BY <2>2, <2>3
<1>4. ASSUME NEW g \in Procs, CacheClientInfo(g)
      PROVE  CacheInv'
  <2> DEFINE p == look[g]
  <2>1. UNCHANGED <<table, past>> /\ p # NoValue /\ p.step = "set"
    BY <1>4 DEF CacheClientInfo
  <2>2. p.uri \in p.seen /\ p.uri \in PastOf(p.client)
    BY <1>a, <2>1 DEF LookupInv
  <2>3. \A c \in ClientIds : cache'[c] # cache[c] => cache'[c] \in PastOf(c)
    BY <1>4, <1>b, <1>c, <2>1, <2>2 DEF CacheClientInfo, CacheKey
  <2>4. AnswerInv(p.client, [hit |-> FALSE, uri |-> p.uri, seen |-> p.seen])
    BY <2>2 DEF AnswerInv
  <2>5. Ends(g, [hit |-> FALSE, uri |-> p.uri, seen |-> p.seen])
    BY <1>4 DEF CacheClientInfo
  <2>6. \A c \in ClientIds : answer'[c] # answer[c] => AnswerInv(c, answer'[c])
    BY <1>c, <2>4, <2>5 DEF Ends
  <2>7. \A h \in Procs : look'[h] # look[h] => look'[h] = NoValue
    BY <1>c, <2>5 DEF Ends
  <2>. QED BY <2>1, <2>3, <2>6, <2>7, CacheInvKept
<1>5. ASSUME NEW g \in Procs, LookupFails(g)
      PROVE  CacheInv'
  <2>1. \A h \in Procs : look'[h] # look[h] => look'[h] = NoValue
    BY <1>5, <1>c DEF LookupFails
  <2>. QED BY <1>5, <2>1, CacheInvKept DEF LookupFails
<1>6. ASSUME NEW client \in ClientIds, CacheExpire(client)
      PROVE  CacheInv'
  <2>1. \A c \in ClientIds : cache'[c] # cache[c] => cache'[c] = NoValue
    BY <1>6, <1>c DEF CacheExpire
  <2>. QED BY <1>6, <2>1, CacheInvKept DEF CacheExpire
<1>7. ASSUME NEW r \in Rows, NEW uri \in Uris \union {NoValue}, ChangeRow(r, uri)
      PROVE  CacheInv'
  <2>1. /\ table' = [table EXCEPT ![r] = uri]
        /\ past' = [past EXCEPT ![r] = @ \union {uri}]
        /\ UNCHANGED <<cache, answer>>
    BY <1>7 DEF ChangeRow
  <2>2. \A c \in ClientIds :
          /\ PastOf(c) \subseteq PastOf(c)'
          /\ RowOf[c] = r => RowValue(table', c) = uri /\ uri \in PastOf(c)'
          /\ RowOf[c] # r => RowValue(table', c) = RowValue(table, c)
    BY <2>1 DEF PastOf, RowValue, CacheTypeOK
  <2>3. (\A q \in Rows : table[q] \in past[q])'
    BY <1>a, <2>1 DEF CacheTypeOK
  <2>4. (\A c \in ClientIds : cache[c] \in Uris => cache[c] \in PastOf(c))'
    BY <1>a, <2>1, <2>2
  <2>5. ASSUME NEW g \in Procs, look'[g] # NoValue
        PROVE  LookupInv(look[g])'
    <3>1. look[g] # NoValue
      BY <1>7, <2>5 DEF ChangeRow
    <3>2. CASE RowOf[look[g].client] = r
      <4>1. look'[g] = [look[g] EXCEPT !.seen = @ \union {uri}]
        BY <1>7, <3>1, <3>2 DEF ChangeRow
      <4>2. /\ look'[g].client = look[g].client
            /\ look'[g].step = look[g].step
            /\ look'[g].uri = look[g].uri
            /\ look'[g].seen = look[g].seen \union {uri}
        BY <1>b, <3>1, <4>1 DEF Lookup
      <4>. QED BY <1>a, <1>b, <2>2, <3>1, <3>2, <4>2 DEF LookupInv
    <3>3. CASE RowOf[look[g].client] # r
      <4>1. look'[g] = look[g]
        BY <1>7, <3>1, <3>3 DEF ChangeRow
      <4>. QED BY <1>a, <1>b, <2>2, <3>1, <3>3, <4>1 DEF LookupInv
    <3>. QED BY <3>2, <3>3
  <2>6. ASSUME NEW c \in ClientIds, answer'[c] # NoValue
        PROVE  AnswerInv(c, answer[c])'
    BY <1>a, <2>1, <2>2, <2>6 DEF AnswerInv
  <2>. QED BY <2>3, <2>4, <2>5, <2>6
      DEF CacheInv, LookupInv, AnswerInv, AnswersFromOwnRow, MissesAreCurrent
<1>8. CASE UNCHANGED cacheVars
  BY <1>8, CacheInvKept DEF cacheVars
<1>. QED
  BY <1>1, <1>2, <1>3, <1>4, <1>5, <1>6, <1>7, <1>8, CacheActions

(* The inductive invariant holds in every reachable state. *)
THEOREM CacheInvariant == CacheSpec => []CacheInv
<1>1. CacheInit => CacheInv
  BY ClientCacheAssumption
     DEF CacheInit, CacheInv, AnswersFromOwnRow, MissesAreCurrent, PastOf, RowValue
<1>2. CacheTypeOK /\ CacheInv /\ [CacheNext]_cacheVars => CacheInv'
  BY CacheInvStep
<1>. QED BY <1>1, <1>2, CacheTypeCorrect, PTL DEF CacheSpec

(* For any clients, spellings, goroutines and changes: what GetClientInfo  *)
(* answers is a value of the client's own row.                             *)
THEOREM AnswersOwnRow == CacheSpec => []AnswersFromOwnRow
<1>1. CacheInv => AnswersFromOwnRow
  BY DEF CacheInv
<1>. QED BY <1>1, CacheInvariant, PTL

(* Likewise an answer from MySQL is a value of the time of the lookup.     *)
THEOREM MissesCurrent == CacheSpec => []MissesAreCurrent
<1>1. CacheInv => MissesAreCurrent
  BY DEF CacheInv
<1>. QED BY <1>1, CacheInvariant, PTL
=============================================================================
