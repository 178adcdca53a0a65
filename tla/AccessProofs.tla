---------------------------- MODULE AccessProofs ----------------------------
(***************************************************************************)
(* Theorems of Access.  A step of Access is a step of Auth or leaves its   *)
(* variables alone, so all that AuthProofs shows of Auth holds here, and   *)
(* the inductions below only add the requests that tokens let in.          *)
(***************************************************************************)
EXTENDS Access, AuthProofs

LEMMA AccessIsAuth == AccessSpec => AuthSpec
<1>1. AccessInit => AuthInit
  BY DEF AccessInit
<1>2. [AccessNext]_accessVars => [AuthNext]_authVars
  BY DEF AccessNext, accessVars, authVars, AuthStep, CallStep, Admit,
         SyncStep, MeAnswers, CallEnds
<1>. QED BY <1>1, <1>2, PTL DEF AccessSpec, AuthSpec

(* What a step of Access does to the variables that it adds. *)
LEMMA AccessActions ==
    ASSUME [AccessNext]_accessVars
    PROVE  \/ AuthStep
           \/ \E c \in Calls, kind \in Kinds, id \in Ids : Admit(c, kind, id)
           \/ \E c \in Calls : SyncStep(c) \/ MeAnswers(c) \/ CallEnds(c)
           \/ UNCHANGED accessVars
BY DEF AccessNext, CallStep

-----------------------------------------------------------------------------
(* Every variable of Access keeps its type. *)
THEOREM AccessTypeCorrect == AccessSpec => []AccessTypeOK
<1>1. AccessInit => AccessTypeOK
  <2> SUFFICES ASSUME AccessInit PROVE AccessTypeOK
    OBVIOUS
  <2>1. AuthInit => AuthTypeOK
    BY DEF AuthInit, AuthTypeOK
  <2>. QED BY <2>1 DEF AccessInit, AccessTypeOK
<1>2. ASSUME AccessTypeOK, AuthTypeOK', [AccessNext]_accessVars
      PROVE  AccessTypeOK'
  <2> USE <1>2 DEF AccessTypeOK
  <2>1. CASE AuthStep
    <3>1. EndedNow \subseteq Nat
      BY DEF EndedNow, AuthTypeOK, Token
    <3>. QED BY <2>1, <3>1 DEF AuthStep
  <2>2. ASSUME NEW c \in Calls, NEW kind \in Kinds, NEW id \in Ids,
               Admit(c, kind, id)
        PROVE  AccessTypeOK'
    <3>1. tokens[id] \in Token
      BY <2>2 DEF Admit, AuthTypeOK
    <3>2. [kind |-> kind, id |-> id, user |-> tokens[id].user,
           by |-> tokens[id].by, n |-> tokens[id].n] \in Call
      BY <3>1 DEF Call, Token
    <3>. QED BY <2>2, <3>2 DEF Admit
  <2>3. ASSUME NEW c \in Calls, SyncStep(c) \/ MeAnswers(c) \/ CallEnds(c)
        PROVE  AccessTypeOK'
    <3>1. call[c] \in Call
      BY <2>3 DEF SyncStep, MeAnswers, CallEnds
    <3>2. Touched(call[c]) \subseteq Act
      BY <3>1 DEF Touched, UserIDFromCtx, Call, Act
    <3>. QED BY <2>3, <3>2 DEF SyncStep, MeAnswers, CallEnds
  <2>4. CASE UNCHANGED accessVars
    BY <2>4 DEF accessVars
  <2>. QED BY <2>1, <2>2, <2>3, <2>4, AccessActions
<1>. QED BY <1>1, <1>2, AccessIsAuth, AuthTypeCorrect, PTL DEF AccessSpec

-----------------------------------------------------------------------------
(* Codes are only ever added to granted: what belongs to a grant keeps     *)
(* belonging to it.                                                        *)
LEMMA GrantsKept ==
    ASSUME AuthTypeOK, [AuthNext]_authVars
    PROVE  \A v : GrantOf(v) => GrantOf(v)'
<1> DEFINE Kept == /\ Len(granted) <= Len(granted')
                   /\ \A n \in 1..Len(granted) : granted'[n] = granted[n]
<1>1. granted \in Seq(Code)
  BY DEF AuthTypeOK
<1>2. ASSUME NEW g \in Procs, StoreCode(g)
      PROVE  Kept
  <2>1. authz[g] \in Authz
    BY <1>2 DEF StoreCode, AuthTypeOK
  <2>2. PICK code : /\ code = [user |-> authz[g].user, by |-> authz[g].by,
                               client |-> authz[g].client, uri |-> authz[g].uri,
                               challenge |-> authz[g].challenge,
                               n |-> Len(granted) + 1]
                    /\ granted' = Append(granted, code) \/ granted' = granted
    BY <1>2 DEF StoreCode
  <2>3. code \in Code
    BY <1>1, <2>1, <2>2 DEF Authz, Code
  <2>. QED BY <1>1, <2>2, <2>3
<1>3. (\E g \in Procs : StoreCode(g)) \/ UNCHANGED granted
  BY AuthActions
     DEF Register, Login, Authorize, Exchange, CreateSso, SignInFail, AuthzFail,
         StoreToken, ExchFail, Logout, SsoExpire, CodeExpire, TokenExpire,
         Revoke, authVars
<1>4. Kept
  BY <1>1, <1>2, <1>3
<1>. QED BY <1>1, <1>4 DEF GrantOf

(* The tokens after a step: those before it, or a new one for the grant of *)
(* an exchange.                                                            *)
LEMMA TokensOfGrant ==
    ASSUME AuthTypeOK, CodeInv, AccessInv, [AuthNext]_authVars
    PROVE  \A id \in Ids : tokens'[id] # None => GrantOf(tokens'[id])
<1>1. ASSUME NEW g \in Procs, StoreToken(g), NEW id \in Ids, tokens'[id] # None
      PROVE  GrantOf(tokens'[id])
  <2> DEFINE p == exch[g]
             token == [user |-> p.user, by |-> p.by, client |-> p.client,
                       n |-> p.n]
  <2>1. p # None
    BY <1>1 DEF StoreToken
  <2>2. GrantOf(token)
    BY <2>1 DEF CodeInv, OfGrant, GrantOf
  <2>3. PICK i \in Ids : tokens' = SetNX(tokens, i, token)
    BY <1>1 DEF StoreToken
  <2>4. tokens'[id] = tokens[id] \/ tokens'[id] = token
    BY <2>3 DEF SetNX, AuthTypeOK
  <2>. QED BY <1>1, <2>2, <2>4 DEF AccessInv
<1>2. ASSUME NEW i \in Ids, NEW id \in Ids,
             tokens' = [tokens EXCEPT ![i] = None], tokens'[id] # None
      PROVE  GrantOf(tokens'[id])
  BY <1>2 DEF AccessInv, AuthTypeOK
<1>3. \/ \E g \in Procs : StoreToken(g)
      \/ \E i \in Ids : tokens' = [tokens EXCEPT ![i] = None]
      \/ UNCHANGED tokens
  BY AuthActions
     DEF Register, Login, Authorize, Exchange, CreateSso, SignInFail, AuthzFail,
         StoreCode, ExchFail, Logout, SsoExpire, CodeExpire, TokenExpire,
         Revoke, authVars
<1>. QED BY <1>1, <1>2, <1>3 DEF AccessInv

(* Every step keeps AccessInv. *)
LEMMA AccessInvStep ==
    ASSUME AccessTypeOK, CodeInv, AccessInv, [AccessNext]_accessVars
    PROVE  AccessInv'
<1>1. AuthTypeOK
  BY DEF AccessTypeOK
<1>2. CASE AuthStep
  <2>1. [AuthNext]_authVars
    BY <1>2 DEF AuthStep
  <2>2. \A v : GrantOf(v) => GrantOf(v)'
    BY <1>1, <2>1, GrantsKept
  <2>3. \A id \in Ids : tokens'[id] # None => GrantOf(tokens'[id])
    BY <1>1, <2>1, TokensOfGrant
  <2>4. UNCHANGED <<call, acts>>
    BY <1>2 DEF AuthStep
  <2>5. \A id \in Ids : tokens'[id] # None => GrantOf(tokens[id])'
    BY <2>2, <2>3
  <2>6. \A c \in Calls : call'[c] # None => GrantOf(call[c])'
    BY <2>2, <2>4 DEF AccessInv
  <2>7. \A a \in acts' : GrantOf(a)'
    BY <2>2, <2>4 DEF AccessInv
  <2>. QED BY <2>5, <2>6, <2>7 DEF AccessInv
<1>3. ASSUME NEW c \in Calls, NEW kind \in Kinds, NEW id \in Ids,
             Admit(c, kind, id)
      PROVE  AccessInv'
  BY <1>3 DEF Admit, AccessInv, GrantOf, authVars, AccessTypeOK
<1>4. ASSUME NEW c \in Calls, SyncStep(c) \/ MeAnswers(c) \/ CallEnds(c)
      PROVE  AccessInv'
  BY <1>4
     DEF SyncStep, MeAnswers, CallEnds, Touched, UserIDFromCtx, AccessInv,
         GrantOf, authVars, AccessTypeOK
<1>5. CASE UNCHANGED accessVars
  BY <1>5 DEF accessVars, authVars, AccessInv, GrantOf
<1>. QED BY <1>2, <1>3, <1>4, <1>5, AccessActions

(* A request only touches the data of the user behind its grant, for any   *)
(* number of users, ids, goroutines and faults, also when its token goes   *)
(* and its id is used again while it runs.                                 *)
THEOREM CallsActForGrant == AccessSpec => []ActsForGrant
<1>1. AccessInit => AccessInv
  BY DEF AccessInit, AuthInit, AccessInv
<1>2. AccessInv => ActsForGrant
  BY DEF AccessInv, ActsForGrant, GrantOf
<1>. QED
  BY <1>1, <1>2, AccessInvStep, AccessTypeCorrect, AccessIsAuth,
     CodesConsumedOnce, PTL DEF AccessSpec

-----------------------------------------------------------------------------
(* A row of users is never changed, so a request that was let in stays one *)
(* of a user who signed in with the password of the row.                   *)
THEOREM CallsSignedIn == AccessSpec => []CallersSignedIn
<1>1. AccessInit => CallersSignedIn
  BY DEF AccessInit, CallersSignedIn
<1>2. ASSUME AccessTypeOK, UserSignedIn, CallersSignedIn,
             [AccessNext]_accessVars
      PROVE  CallersSignedIn'
  <2> USE <1>2 DEF AccessTypeOK, AuthTypeOK
  <2>1. ASSUME AuthStep, NEW c \in Calls, call'[c] # None
        PROVE  users'[call'[c].user] = call'[c].by
    <3>1. /\ call'[c] = call[c] /\ call[c] \in Call
          /\ users[call[c].user] = call[c].by
      BY <2>1 DEF AuthStep, CallersSignedIn
    <3>2. users[call[c].user] # None
      BY <3>1, NoneAssumption DEF Call
    <3>3. \A l \in Logins : users[l] # None => users'[l] = users[l]
      BY <2>1, AuthActions
         DEF AuthStep, Register, CanInsert, Login, Authorize, Exchange,
             CreateSso, SignInFail, AuthzFail, StoreCode, StoreToken, ExchFail,
             Logout, SsoExpire, CodeExpire, TokenExpire, Revoke, authVars
    <3>. QED BY <3>1, <3>2, <3>3 DEF Call
  <2>2. ASSUME NEW c \in Calls, NEW kind \in Kinds, NEW id \in Ids,
               Admit(c, kind, id)
        PROVE  CallersSignedIn'
    BY <2>2 DEF Admit, CallersSignedIn, UserSignedIn, authVars
  <2>3. ASSUME NEW c \in Calls, SyncStep(c) \/ MeAnswers(c) \/ CallEnds(c)
        PROVE  CallersSignedIn'
    BY <2>3 DEF SyncStep, MeAnswers, CallEnds, CallersSignedIn, authVars
  <2>4. CASE UNCHANGED accessVars
    BY <2>4 DEF accessVars, authVars, CallersSignedIn
  <2>. QED BY <2>1, <2>2, <2>3, <2>4, AccessActions DEF CallersSignedIn
<1>. QED
  BY <1>1, <1>2, AccessTypeCorrect, AccessIsAuth, SignedIn, PTL DEF AccessSpec

-----------------------------------------------------------------------------
(* Answers are only ever added to issued. *)
LEMMA AnsweredKept ==
    ASSUME AuthTypeOK, [AuthNext]_authVars
    PROVE  \A n : Answered(n) => Answered(n)'
<1>1. issued \in Seq(Issue)
  BY DEF AuthTypeOK
<1>2. ASSUME NEW g \in Procs, StoreToken(g)
      PROVE  \A n : Answered(n) => Answered(n)'
  <2>1. exch[g] \in Exch
    BY <1>2 DEF StoreToken, AuthTypeOK
  <2>2. PICK issue : /\ issue = [user |-> exch[g].user, by |-> exch[g].by,
                                 client |-> exch[g].client, n |-> exch[g].n,
                                 form |-> exch[g].form]
                     /\ issued' = Append(issued, issue) \/ issued' = issued
    BY <1>2 DEF StoreToken
  <2>3. issue \in Issue
    BY <2>1, <2>2 DEF Exch, Issue
  <2>4. /\ Len(issued) <= Len(issued')
        /\ \A i \in 1..Len(issued) : issued'[i] = issued[i]
    BY <1>1, <2>2, <2>3
  <2>. QED BY <1>1, <2>4 DEF Answered
<1>3. (\E g \in Procs : StoreToken(g)) \/ UNCHANGED issued
  BY AuthActions
     DEF Register, Login, Authorize, Exchange, CreateSso, SignInFail, AuthzFail,
         StoreCode, ExchFail, Logout, SsoExpire, CodeExpire, TokenExpire,
         Revoke, authVars
<1>. QED BY <1>2, <1>3 DEF Answered

(* Without lost answers, a token is stored exactly when it is answered; the *)
(* number of its exchange was at no token before.                           *)
LEMMA EndedInvStoreToken ==
    ASSUME ~LostReplies, AuthTypeOK, CodeInv, EndedInv,
           NEW g \in Procs, StoreToken(g), AuthStep
    PROVE  EndedInv'
<1> DEFINE p == exch[g]
           token == [user |-> p.user, by |-> p.by, client |-> p.client,
                     n |-> p.n]
           issue == [user |-> p.user, by |-> p.by, client |-> p.client,
                     n |-> p.n, form |-> p.form]
<1>1. p # None /\ p \in Exch /\ issue \in Issue
  BY DEF StoreToken, AuthTypeOK, Exch, Issue
<1>2. PICK id \in Ids, ok \in BOOLEAN :
        /\ SetNXReplies(tokens[id], ok)
        /\ tokens' = SetNX(tokens, id, token)
        /\ issued' = IF ok THEN Append(issued, issue) ELSE issued
  BY DEF StoreToken
<1>3. \A n : Answered(n) => Answered(n)'
  BY AnsweredKept DEF AuthStep
<1>4. ok <=> tokens[id] = None
  BY <1>2 DEF SetNXReplies
<1>5. \A i \in Ids :
        tokens'[i] = IF i = id /\ ok THEN token ELSE tokens[i]
  BY <1>2, <1>4 DEF SetNX, AuthTypeOK
<1>6. EndedNow = {}
  BY <1>1, <1>4, <1>5 DEF EndedNow
<1>7. ended' = ended
  BY <1>6 DEF AuthStep
<1>8. PICK m : m = p.n
  OBVIOUS
<1>9. ~Answered(m)
  BY <1>1, <1>8 DEF CodeInv, Answered
<1>10. ok => Answered(m)'
  <2> SUFFICES ASSUME ok PROVE Answered(m)'
    OBVIOUS
  <2>1. /\ Len(issued') = Len(issued) + 1 /\ Len(issued) \in Nat
        /\ issued'[Len(issued) + 1] = issue
    BY <1>1, <1>2 DEF AuthTypeOK
  <2>. QED BY <1>8, <2>1 DEF Answered
<1>11. token.n = m
  BY <1>8
<1> HIDE DEF token, p
<1>12. \A i \in Ids : tokens'[i] # None =>
         Answered(tokens[i].n)' /\ tokens'[i].n \notin ended'
  BY <1>3, <1>5, <1>7, <1>9, <1>10, <1>11 DEF EndedInv
<1>13. \A i, j \in Ids :
         tokens'[i] # None /\ tokens'[j] # None /\ i # j =>
             tokens'[i].n # tokens'[j].n
  BY <1>5, <1>9, <1>11 DEF EndedInv
<1>14. \A n \in ended' : Answered(n)'
  BY <1>3, <1>7 DEF EndedInv
<1>. QED BY <1>12, <1>13, <1>14 DEF EndedInv

(* A token that goes takes its number out of tokens. *)
LEMMA EndedInvTokenGoes ==
    ASSUME AuthTypeOK, EndedInv, NEW id \in Ids, AuthStep,
           tokens[id] # None, tokens' = [tokens EXCEPT ![id] = None]
    PROVE  EndedInv'
<1>1. \A n : Answered(n) => Answered(n)'
  BY AnsweredKept DEF AuthStep
<1>2. \A i \in Ids : tokens'[i] = IF i = id THEN None ELSE tokens[i]
  BY DEF AuthTypeOK
<1>3. EndedNow = {tokens[id].n}
  BY <1>2 DEF EndedNow
<1>4. ended' = ended \union {tokens[id].n}
  BY <1>3 DEF AuthStep
<1>. QED BY <1>1, <1>2, <1>4 DEF EndedInv

(* Every step keeps EndedInv. *)
LEMMA EndedInvStep ==
    ASSUME ~LostReplies, AuthTypeOK, CodeInv, EndedInv, [AccessNext]_accessVars
    PROVE  EndedInv'
<1>1. ASSUME AuthStep, UNCHANGED tokens
      PROVE  EndedInv'
  <2>1. ended' = ended
    BY <1>1 DEF AuthStep, EndedNow
  <2>2. \A n : Answered(n) => Answered(n)'
    BY <1>1, AnsweredKept DEF AuthStep
  <2>. QED BY <1>1, <2>1, <2>2 DEF EndedInv
<1>2. CASE AuthStep
  <2>1. \/ \E g \in Procs : StoreToken(g)
        \/ \E id \in Ids : /\ tokens[id] # None
                           /\ tokens' = [tokens EXCEPT ![id] = None]
        \/ UNCHANGED tokens
    BY <1>2, AuthActions
       DEF AuthStep, Register, Login, Authorize, Exchange, CreateSso,
           SignInFail, AuthzFail, StoreCode, ExchFail, Logout, SsoExpire,
           CodeExpire, TokenExpire, Revoke, authVars
  <2>. QED BY <1>1, <1>2, <2>1, EndedInvStoreToken, EndedInvTokenGoes
<1>3. CASE UNCHANGED <<authVars, ended>>
  BY <1>3 DEF authVars, EndedInv, Answered
<1>. QED
  BY <1>2, <1>3, AccessActions
     DEF Admit, SyncStep, MeAnswers, CallEnds, accessVars

(* When no answer of a SETNX is lost, a grant whose token was revoked or   *)
(* has expired lets no request in again, for any number of users, ids,     *)
(* goroutines and failing handlers.                                        *)
THEOREM EndedGrantsStayOut ==
    ASSUME ~LostReplies
    PROVE  AccessSpec => EndedGrantStaysOut
<1>1. AccessInit => EndedInv
  BY DEF AccessInit, AuthInit, EndedInv
<1>2. ASSUME AccessTypeOK, EndedInv, [AccessNext]_accessVars,
             NEW c \in Calls, call[c] = None, call'[c] # None
      PROVE  call'[c].n \notin ended
  <2>1. PICK kind \in Kinds, id \in Ids : Admit(c, kind, id)
    BY <1>2, AccessActions
       DEF AuthStep, Admit, SyncStep, MeAnswers, CallEnds, accessVars,
           AccessTypeOK
  <2>. QED BY <1>2, <2>1 DEF Admit, EndedInv, AccessTypeOK
<1>3. AccessTypeOK => AuthTypeOK
  BY DEF AccessTypeOK
<1>4. AccessTypeOK /\ CodeInv /\ EndedInv /\ [AccessNext]_accessVars => EndedInv'
  BY <1>3, EndedInvStep
<1>5. AccessTypeOK /\ EndedInv /\ [AccessNext]_accessVars =>
        [\A c \in Calls :
            call[c] = None /\ call'[c] # None => call'[c].n \notin ended]_accessVars
  BY <1>2
<1>. QED
  BY <1>1, <1>4, <1>5, AccessTypeCorrect, AccessIsAuth, CodesConsumedOnce, PTL
     DEF AccessSpec, EndedGrantStaysOut
=============================================================================
