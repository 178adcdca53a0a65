----------------------------- MODULE AuthProofs -----------------------------
(***************************************************************************)
(* Theorems of Auth: type correctness, that a code buys at most one token, *)
(* for its own user and form, that whatever acts for a user goes back to a *)
(* sign-in with the user's password, and that live keys are not replaced.   *)
(***************************************************************************)
EXTENDS Auth, TLAPS

(* What SETNX leaves in a store of keys with values in S. *)
LEMMA SetNXType ==
    ASSUME NEW S, NEW store \in [Ids -> S \union {None}], NEW id \in Ids,
           NEW value \in S
    PROVE  SetNX(store, id, value) \in [Ids -> S \union {None}]
BY DEF SetNX

(* A handler after an attempt keeps its fields or is gone. *)
LEMMA AuthzAttempt ==
    ASSUME NEW p \in Authz, NEW ok \in BOOLEAN
    PROVE  \/ AfterAttempt(p, ok) = None
           \/ /\ AfterAttempt(p, ok) \in Authz
              /\ ~ok
              /\ AfterAttempt(p, ok).user = p.user
              /\ AfterAttempt(p, ok).by = p.by
BY DEF AfterAttempt, NextAttempt, Authz

LEMMA ExchAttempt ==
    ASSUME NEW p \in Exch, NEW ok \in BOOLEAN
    PROVE  \/ AfterAttempt(p, ok) = None
           \/ /\ AfterAttempt(p, ok) \in Exch
              /\ ~ok
              /\ AfterAttempt(p, ok).user = p.user
              /\ AfterAttempt(p, ok).by = p.by
              /\ AfterAttempt(p, ok).client = p.client
              /\ AfterAttempt(p, ok).n = p.n
              /\ AfterAttempt(p, ok).form = p.form
BY DEF AfterAttempt, NextAttempt, Exch

-----------------------------------------------------------------------------
(* One step of the specification, split into its actions: what every       *)
(* induction below goes through.                                           *)
LEMMA AuthActions ==
    ASSUME [AuthNext]_authVars
    PROVE  \/ \E g \in Procs, l \in Logins, pw \in Passwords :
                 Register(g, l, pw) \/ Login(g, l, pw)
           \/ \E g \in Procs, id \in Ids, client \in Clients, uri \in Uris,
                 challenge \in Challenges : Authorize(g, id, client, uri, challenge)
           \/ \E g \in Procs, id \in Ids, form \in Form : Exchange(g, id, form)
           \/ \E g \in Procs : CreateSso(g) \/ SignInFail(g)
           \/ \E g \in Procs : StoreCode(g) \/ AuthzFail(g)
           \/ \E g \in Procs : StoreToken(g) \/ ExchFail(g)
           \/ \E id \in Ids : Logout(id) \/ SsoExpire(id)
           \/ \E id \in Ids : CodeExpire(id)
           \/ \E id \in Ids : \/ TokenExpire(id)
                              \/ \E client \in Clients : Revoke(id, client)
           \/ UNCHANGED authVars
BY DEF AuthNext, Handler

(* Every step keeps the types. *)
LEMMA AuthTypeStep ==
    ASSUME AuthTypeOK, [AuthNext]_authVars
    PROVE  AuthTypeOK'
<1> USE AuthTypeOK DEF AuthTypeOK
<1>1. ASSUME NEW g \in Procs, NEW l \in Logins, NEW pw \in Passwords,
             Register(g, l, pw) \/ Login(g, l, pw)
      PROVE  AuthTypeOK'
  <2>1. [user |-> l, by |-> pw] \in SignIn
    BY DEF SignIn
  <2>. QED BY <1>1, <2>1 DEF Register, Login
<1>2. ASSUME NEW g \in Procs, NEW id \in Ids, NEW client \in Clients,
             NEW uri \in Uris, NEW challenge \in Challenges,
             Authorize(g, id, client, uri, challenge)
      PROVE  AuthTypeOK'
  <2>1. sso[id] \in Sso
    BY <1>2 DEF Authorize
  <2>2. [user |-> sso[id].user, by |-> sso[id].by, client |-> client,
         uri |-> uri, challenge |-> challenge, tries |-> 0] \in Authz
    BY <2>1 DEF Sso, Authz
  <2>. QED BY <1>2, <2>2 DEF Authorize
<1>3. ASSUME NEW g \in Procs, NEW id \in Ids, NEW form \in Form,
             Exchange(g, id, form)
      PROVE  AuthTypeOK'
  <2>1. codes[id] \in Code
    BY <1>3 DEF Exchange
  <2>2. [user |-> codes[id].user, by |-> codes[id].by, client |-> codes[id].client,
         n |-> codes[id].n, form |-> form, tries |-> 0] \in Exch
    BY <2>1 DEF Code, Exch
  <2>. QED BY <1>3, <2>2 DEF Exchange, ConsumeCode
<1>4. ASSUME NEW g \in Procs, CreateSso(g) \/ SignInFail(g)
      PROVE  AuthTypeOK'
  <2>1. CASE CreateSso(g)
    <3>1. signIn[g] \in SignIn
      BY <2>1 DEF CreateSso
    <3>2. PICK id \in Ids :
            sso' = SetNX(sso, id, [user |-> signIn[g].user, by |-> signIn[g].by])
      BY <2>1 DEF CreateSso
    <3>3. [user |-> signIn[g].user, by |-> signIn[g].by] \in Sso
      BY <3>1 DEF SignIn, Sso
    <3>4. sso' \in [Ids -> Sso \union {None}]
      BY <3>2, <3>3, SetNXType
    <3>. QED BY <2>1, <3>4 DEF CreateSso
  <2>2. CASE SignInFail(g)
    BY <2>2 DEF SignInFail
  <2>. QED BY <1>4, <2>1, <2>2
<1>5. ASSUME NEW g \in Procs, StoreCode(g) \/ AuthzFail(g)
      PROVE  AuthTypeOK'
  <2>1. CASE StoreCode(g)
    <3> DEFINE p == authz[g]
               code == [user |-> p.user, by |-> p.by, client |-> p.client,
                        uri |-> p.uri, challenge |-> p.challenge,
                        n |-> Len(granted) + 1]
    <3>1. p \in Authz
      BY <2>1 DEF StoreCode
    <3>2. PICK id \in Ids, ok \in BOOLEAN :
            /\ codes' = SetNX(codes, id, code)
            /\ granted' = IF codes[id] = None THEN Append(granted, code) ELSE granted
            /\ authz' = [authz EXCEPT ![g] = AfterAttempt(p, ok)]
      BY <2>1 DEF StoreCode
    <3>3. code \in Code
      BY <3>1 DEF Authz, Code
    <3> HIDE DEF code
    <3>4. codes' \in [Ids -> Code \union {None}]
      BY <3>2, <3>3, SetNXType
    <3>5. granted' \in Seq(Code)
      BY <3>2, <3>3
    <3>6. authz' \in [Procs -> Authz \union {None}]
      BY <3>1, <3>2, AuthzAttempt
    <3>. QED BY <2>1, <3>4, <3>5, <3>6 DEF StoreCode
  <2>2. CASE AuthzFail(g)
    BY <2>2 DEF AuthzFail
  <2>. QED BY <1>5, <2>1, <2>2
<1>6. ASSUME NEW g \in Procs, StoreToken(g) \/ ExchFail(g)
      PROVE  AuthTypeOK'
  <2>1. CASE StoreToken(g)
    <3> DEFINE p == exch[g]
               token == [user |-> p.user, by |-> p.by, client |-> p.client,
                         n |-> p.n]
               issue == [user |-> p.user, by |-> p.by, client |-> p.client,
                         n |-> p.n, form |-> p.form]
    <3>1. p \in Exch
      BY <2>1 DEF StoreToken
    <3>2. PICK id \in Ids, ok \in BOOLEAN :
            /\ tokens' = SetNX(tokens, id, token)
            /\ issued' = IF ok THEN Append(issued, issue) ELSE issued
            /\ exch' = [exch EXCEPT ![g] = AfterAttempt(p, ok)]
      BY <2>1 DEF StoreToken
    <3>3. token \in Token /\ issue \in Issue
      BY <3>1 DEF Exch, Token, Issue
    <3> HIDE DEF token, issue
    <3>4. tokens' \in [Ids -> Token \union {None}]
      BY <3>2, <3>3, SetNXType
    <3>5. issued' \in Seq(Issue)
      BY <3>2, <3>3
    <3>6. exch' \in [Procs -> Exch \union {None}]
      BY <3>1, <3>2, ExchAttempt
    <3>. QED BY <2>1, <3>4, <3>5, <3>6 DEF StoreToken
  <2>2. CASE ExchFail(g)
    BY <2>2 DEF ExchFail
  <2>. QED BY <1>6, <2>1, <2>2
<1>7. ASSUME NEW id \in Ids, Logout(id) \/ SsoExpire(id)
      PROVE  AuthTypeOK'
  BY <1>7 DEF Logout, SsoExpire
<1>8. ASSUME NEW id \in Ids, CodeExpire(id)
      PROVE  AuthTypeOK'
  BY <1>8 DEF CodeExpire
<1>9. ASSUME NEW id \in Ids,
             TokenExpire(id) \/ \E client \in Clients : Revoke(id, client)
      PROVE  AuthTypeOK'
  BY <1>9 DEF TokenExpire, Revoke
<1>10. CASE UNCHANGED authVars
  BY <1>10 DEF authVars
<1>. QED
  BY <1>1, <1>2, <1>3, <1>4, <1>5, <1>6, <1>7, <1>8, <1>9, <1>10, AuthActions

(* Every variable keeps its type. *)
THEOREM AuthTypeCorrect == AuthSpec => []AuthTypeOK
<1>1. AuthInit => AuthTypeOK
  BY DEF AuthInit, AuthTypeOK
<1>. QED BY <1>1, AuthTypeStep, PTL DEF AuthSpec

-----------------------------------------------------------------------------
(* A step that leaves the codes, the exchanges and the histories alone. *)
LEMMA CodeInvUnchanged ==
    ASSUME CodeInv, UNCHANGED <<codes, exch, granted, issued>>
    PROVE  CodeInv'
BY DEF CodeInv, OfGrant, OneTokenPerCode

(* A code that goes, or an exchange that fails, takes its number with it. *)
LEMMA CodeInvLess ==
    ASSUME AuthTypeOK, CodeInv, UNCHANGED <<granted, issued>>,
           \A id \in Ids : codes'[id] \in {codes[id], None},
           \A g \in Procs : exch'[g] \in {exch[g], None}
    PROVE  CodeInv'
BY DEF CodeInv, OfGrant, OneTokenPerCode

(* A new code gets a number that is nowhere yet. *)
LEMMA CodeInvStoreCode ==
    ASSUME AuthTypeOK, CodeInv, NEW g \in Procs, StoreCode(g)
    PROVE  CodeInv'
<1> DEFINE p == authz[g]
           code == [user |-> p.user, by |-> p.by, client |-> p.client,
                    uri |-> p.uri, challenge |-> p.challenge,
                    n |-> Len(granted) + 1]
<1>1. PICK id \in Ids :
        /\ codes' = SetNX(codes, id, code)
        /\ granted' = IF codes[id] = None THEN Append(granted, code) ELSE granted
  BY DEF StoreCode
<1>2. UNCHANGED <<exch, issued>>
  BY DEF StoreCode
<1>3. code.n = Len(granted) + 1 /\ code \in Code
  BY DEF StoreCode, AuthTypeOK, Authz, Code
<1>4. CASE codes[id] # None
  BY <1>1, <1>2, <1>4, CodeInvUnchanged DEF SetNX
<1>5. CASE codes[id] = None
  <2> HIDE DEF code
  <2>1. /\ codes' = [codes EXCEPT ![id] = code]
        /\ granted' = Append(granted, code)
    BY <1>1, <1>5 DEF SetNX
  <2>2. /\ Len(granted) \in Nat
        /\ Len(granted') = Len(granted) + 1
        /\ granted'[Len(granted) + 1] = code
        /\ \A i \in 1..Len(granted) : granted'[i] = granted[i]
    BY <1>3, <2>1 DEF AuthTypeOK
  <2>3. \A i \in Ids : codes'[i] = IF i = id THEN code ELSE codes[i]
    BY <2>1 DEF AuthTypeOK
  <2>4. /\ \A i \in Ids : codes[i] # None => codes[i].n \in 1..Len(granted)
        /\ \A h \in Procs : exch[h] # None => exch[h].n \in 1..Len(granted)
        /\ \A i \in 1..Len(issued) : issued[i].n \in 1..Len(granted)
    BY DEF CodeInv, OfGrant
  <2>5. \A i \in Ids : codes'[i] # None =>
          /\ codes'[i].n \in 1..Len(granted')
          /\ codes'[i] = granted'[codes'[i].n]
    BY <1>3, <2>2, <2>3, <2>4 DEF CodeInv
  <2>6. \A i, j \in Ids :
          codes'[i] # None /\ codes'[j] # None /\ i # j => codes'[i].n # codes'[j].n
    BY <1>3, <2>2, <2>3, <2>4 DEF CodeInv
  <2>7. /\ \A h \in Procs : exch'[h] # None => OfGrant(exch[h])'
        /\ \A i \in 1..Len(issued') : OfGrant(issued[i])'
    <3>1. \A v : OfGrant(v) => OfGrant(v)'
      BY <2>2 DEF OfGrant
    <3>. QED BY <1>2, <3>1 DEF CodeInv
  <2>8. /\ \A h \in Procs, i \in Ids :
              exch[h] # None /\ codes'[i] # None => exch[h].n # codes'[i].n
        /\ \A k \in 1..Len(issued) : \A i \in Ids :
              codes'[i] # None => codes'[i].n # issued[k].n
    BY <1>3, <2>2, <2>3, <2>4 DEF CodeInv
  <2>9. /\ \A h, k \in Procs :
              exch'[h] # None /\ exch'[k] # None /\ h # k => exch'[h].n # exch'[k].n
        /\ \A k \in 1..Len(issued') : \A h \in Procs :
              exch'[h] # None => exch'[h].n # issued'[k].n
        /\ OneTokenPerCode'
    BY <1>2 DEF CodeInv, OneTokenPerCode
  <2>. QED
    BY <1>2, <2>5, <2>6, <2>7, <2>8, <2>9 DEF CodeInv
<1>. QED BY <1>4, <1>5

(* An exchange takes the number from the code's key. *)
LEMMA CodeInvExchange ==
    ASSUME AuthTypeOK, CodeInv, NEW g \in Procs, NEW id \in Ids, NEW form \in Form,
           Exchange(g, id, form)
    PROVE  CodeInv'
<1> DEFINE code == codes[id]
           p == [user |-> code.user, by |-> code.by, client |-> code.client,
                 n |-> code.n, form |-> form, tries |-> 0]
<1>1. /\ codes' = [codes EXCEPT ![id] = None]
      /\ UNCHANGED <<granted, issued>>
      /\ exch[g] = None
      /\ code # None
  BY DEF Exchange, ConsumeCode
<1>2. CASE UNCHANGED exch
  BY <1>1, <1>2, CodeInvLess DEF AuthTypeOK
<1>3. CASE /\ CodeBinding(code, form)
           /\ exch' = [exch EXCEPT ![g] = p]
  <2>1. \A i \in Ids : codes'[i] = IF i = id THEN None ELSE codes[i]
    BY <1>1 DEF AuthTypeOK
  <2>2. \A h \in Procs : exch'[h] = IF h = g THEN p ELSE exch[h]
    BY <1>3 DEF AuthTypeOK
  <2>3. /\ p.n = code.n
        /\ p.n \in 1..Len(granted)
        /\ code = granted[p.n]
    BY <1>1 DEF CodeInv
  <2>4. /\ p.user = granted[p.n].user
        /\ p.client = granted[p.n].client
        /\ p.form.client = granted[p.n].client
        /\ p.form.uri = granted[p.n].uri
        /\ S256[p.form.verifier] = granted[p.n].challenge
    BY <1>3, <2>3 DEF CodeBinding
  <2>5. /\ \A h \in Procs : exch[h] # None => exch[h].n # p.n
        /\ \A i \in Ids : codes[i] # None /\ i # id => codes[i].n # p.n
        /\ \A i \in 1..Len(issued) : issued[i].n # p.n
    BY <1>1, <2>3 DEF CodeInv
  <2> HIDE DEF p
  <2>6. \A h \in Procs : exch'[h] # None => OfGrant(exch[h])'
    <3>1. \A h \in Procs : exch[h] # None => OfGrant(exch[h])
      BY DEF CodeInv
    <3>2. OfGrant(p)
      BY <2>3, <2>4 DEF OfGrant
    <3>3. \A v : OfGrant(v) => OfGrant(v)'
      BY <1>1 DEF OfGrant
    <3>. QED
      BY <2>2, <3>1, <3>2, <3>3
  <2>7. \A h, k \in Procs :
          exch'[h] # None /\ exch'[k] # None /\ h # k => exch'[h].n # exch'[k].n
    BY <2>2, <2>5 DEF CodeInv
  <2>8. \A h \in Procs, i \in Ids :
          exch'[h] # None /\ codes'[i] # None => exch'[h].n # codes'[i].n
    BY <2>1, <2>2, <2>5 DEF CodeInv
  <2>9. \A i \in 1..Len(issued) :
          /\ \A j \in Ids : codes'[j] # None => codes'[j].n # issued[i].n
          /\ \A h \in Procs : exch'[h] # None => exch'[h].n # issued[i].n
    BY <2>1, <2>2, <2>5 DEF CodeInv
  <2>10. \A i \in 1..Len(issued) : OfGrant(issued[i])'
    BY <1>1 DEF CodeInv, OfGrant
  <2>. QED
    BY <1>1, <2>1, <2>6, <2>7, <2>8, <2>9, <2>10 DEF CodeInv, OneTokenPerCode
<1>. QED BY <1>2, <1>3 DEF Exchange

(* An answer takes the number from the exchange, which ends; an attempt    *)
(* that was not answered leaves it there, whether or not it stored a key.  *)
LEMMA CodeInvStoreToken ==
    ASSUME AuthTypeOK, CodeInv, NEW g \in Procs, StoreToken(g)
    PROVE  CodeInv'
<1> DEFINE p == exch[g]
           issue == [user |-> p.user, by |-> p.by, client |-> p.client,
                     n |-> p.n, form |-> p.form]
<1>1. /\ p # None /\ p \in Exch
      /\ UNCHANGED <<codes, granted>>
  BY DEF StoreToken, AuthTypeOK
<1>2. PICK ok \in BOOLEAN :
        /\ issued' = IF ok THEN Append(issued, issue) ELSE issued
        /\ exch' = [exch EXCEPT ![g] = AfterAttempt(p, ok)]
  BY DEF StoreToken
<1>3. issue \in Issue /\ issue.n = p.n /\ issue.user = p.user
      /\ issue.client = p.client /\ issue.form = p.form
  BY <1>1 DEF Exch, Issue
<1>4. \A h \in Procs : exch'[h] = IF h = g THEN AfterAttempt(p, ok) ELSE exch[h]
  BY <1>2 DEF AuthTypeOK
<1> HIDE DEF issue
<1>5. CASE ok
  <2>1. /\ Len(issued) \in Nat
        /\ Len(issued') = Len(issued) + 1
        /\ issued'[Len(issued) + 1] = issue
        /\ \A i \in 1..Len(issued) : issued'[i] = issued[i]
    BY <1>2, <1>3, <1>5 DEF AuthTypeOK
  <2>2. \A h \in Procs : exch'[h] = IF h = g THEN None ELSE exch[h]
    BY <1>4, <1>5 DEF AfterAttempt
  <2>3. \A i \in 1..Len(issued') :
          \/ i \in 1..Len(issued) /\ issued'[i] = issued[i]
          \/ i = Len(issued) + 1 /\ issued'[i] = issue
    BY <2>1
  <2>4. \A i \in 1..Len(issued') : OfGrant(issued[i])'
    BY <1>1, <1>3, <2>3 DEF CodeInv, OfGrant
  <2>5. \A i \in 1..Len(issued') :
          /\ \A j \in Ids : codes'[j] # None => codes'[j].n # issued'[i].n
          /\ \A h \in Procs : exch'[h] # None => exch'[h].n # issued'[i].n
    BY <1>1, <1>3, <2>2, <2>3 DEF CodeInv
  <2>6. OneTokenPerCode'
    BY <1>1, <1>3, <2>3 DEF CodeInv, OneTokenPerCode
  <2>7. \A h \in Procs : exch'[h] # None => OfGrant(exch[h])'
    BY <1>1, <2>2 DEF CodeInv, OfGrant
  <2>. QED
    BY <1>1, <2>2, <2>4, <2>5, <2>6, <2>7 DEF CodeInv
<1>6. CASE ~ok
  <2>1. issued' = issued
    BY <1>2, <1>6
  <2>2. \A h \in Procs : exch'[h] # None =>
          /\ exch[h] # None
          /\ exch'[h].n = exch[h].n
          /\ exch'[h].user = exch[h].user
          /\ exch'[h].client = exch[h].client
          /\ exch'[h].form = exch[h].form
    BY <1>1, <1>4, ExchAttempt
  <2>3. \A h \in Procs : exch'[h] # None => OfGrant(exch[h])'
    BY <1>1, <2>2 DEF CodeInv, OfGrant
  <2>4. \A i \in 1..Len(issued') :
          /\ OfGrant(issued[i])'
          /\ \A j \in Ids : codes'[j] # None => codes'[j].n # issued'[i].n
          /\ \A h \in Procs : exch'[h] # None => exch'[h].n # issued'[i].n
    BY <1>1, <2>1, <2>2 DEF CodeInv, OfGrant
  <2>5. OneTokenPerCode'
    BY <2>1 DEF CodeInv, OneTokenPerCode
  <2>6. \A h, k \in Procs :
          exch'[h] # None /\ exch'[k] # None /\ h # k => exch'[h].n # exch'[k].n
    BY <2>2 DEF CodeInv
  <2>7. \A h \in Procs, j \in Ids :
          exch'[h] # None /\ codes'[j] # None => exch'[h].n # codes'[j].n
    BY <1>1, <2>2 DEF CodeInv
  <2>. QED
    BY <1>1, <2>3, <2>4, <2>5, <2>6, <2>7 DEF CodeInv
<1>. QED BY <1>5, <1>6

(* Every step keeps the numbers of the codes apart. *)
LEMMA CodeInvStep ==
    ASSUME AuthTypeOK, CodeInv, [AuthNext]_authVars
    PROVE  CodeInv'
<1>1. ASSUME NEW g \in Procs, NEW l \in Logins, NEW pw \in Passwords,
             Register(g, l, pw) \/ Login(g, l, pw)
      PROVE  CodeInv'
  BY <1>1, CodeInvUnchanged DEF Register, Login
<1>2. ASSUME NEW g \in Procs, NEW id \in Ids, NEW client \in Clients,
             NEW uri \in Uris, NEW challenge \in Challenges,
             Authorize(g, id, client, uri, challenge)
      PROVE  CodeInv'
  BY <1>2, CodeInvUnchanged DEF Authorize
<1>3. ASSUME NEW g \in Procs, CreateSso(g) \/ SignInFail(g)
      PROVE  CodeInv'
  BY <1>3, CodeInvUnchanged DEF CreateSso, SignInFail
<1>4. ASSUME NEW g \in Procs, StoreCode(g) \/ AuthzFail(g)
      PROVE  CodeInv'
  BY <1>4, CodeInvStoreCode, CodeInvUnchanged DEF AuthzFail
<1>5. ASSUME NEW g \in Procs, ExchFail(g)
      PROVE  CodeInv'
  BY <1>5, CodeInvLess DEF ExchFail, AuthTypeOK
<1>6. ASSUME NEW id \in Ids, Logout(id) \/ SsoExpire(id)
      PROVE  CodeInv'
  BY <1>6, CodeInvUnchanged DEF Logout, SsoExpire
<1>7. ASSUME NEW id \in Ids, CodeExpire(id)
      PROVE  CodeInv'
  BY <1>7, CodeInvLess DEF CodeExpire, AuthTypeOK
<1>8. ASSUME NEW id \in Ids,
             TokenExpire(id) \/ \E client \in Clients : Revoke(id, client)
      PROVE  CodeInv'
  BY <1>8, CodeInvUnchanged DEF TokenExpire, Revoke
<1>9. CASE UNCHANGED authVars
  BY <1>9, CodeInvUnchanged DEF authVars
<1>. QED
  BY <1>1, <1>2, <1>3, <1>4, <1>5, <1>6, <1>7, <1>8, <1>9, AuthActions,
     CodeInvExchange, CodeInvStoreToken

(* The number of a code is always in one place: at its key, in one         *)
(* exchangeToken handler, or in one answer.                                *)
THEOREM CodesConsumedOnce == AuthSpec => []CodeInv
<1>1. AuthInit => CodeInv
  BY DEF AuthInit, CodeInv, OneTokenPerCode
<1>. QED BY <1>1, CodeInvStep, AuthTypeCorrect, PTL DEF AuthSpec

(* exchangeToken answers at most one token for a code, for any number of   *)
(* goroutines, ids and attempts.                                           *)
THEOREM OneToken == AuthSpec => []OneTokenPerCode
<1>1. CodeInv => OneTokenPerCode
  BY DEF CodeInv
<1>. QED BY <1>1, CodesConsumedOnce, PTL

(* exchangeToken answers a token of the code's user and client, to a form  *)
(* with the code's client, redirect URI and verifier.                      *)
THEOREM TokenOfGrant == AuthSpec => []TokenAnswersGrant
<1>1. CodeInv => TokenAnswersGrant
  BY DEF CodeInv, TokenAnswersGrant
<1>. QED BY <1>1, CodesConsumedOnce, PTL

-----------------------------------------------------------------------------
(* A sign-in is with the password that users has from then on. *)
LEMMA UserInvSignIn ==
    ASSUME AuthTypeOK, UserInv, NEW g \in Procs, NEW l \in Logins,
           NEW pw \in Passwords, Register(g, l, pw) \/ Login(g, l, pw)
    PROVE  UserInv'
<1>1. \A m \in Logins : users[m] # None => users'[m] = users[m]
  BY DEF Register, Login, CanInsert, AuthTypeOK
<1>2. users'[l] = pw
  BY DEF Register, Login, PasswordMatches, AuthTypeOK
<1>3. signIn' = [signIn EXCEPT ![g] = [user |-> l, by |-> pw]]
  BY DEF Register, Login
<1>4. UNCHANGED <<sso, codes, tokens, authz, exch, issued>>
  BY DEF Register, Login
<1>5. \A m \in Logins, by \in Passwords : users[m] = by => users'[m] = by
  BY <1>1, NoneAssumption
<1>6. UserSignedIn'
  <2>1. \A id \in Ids : sso'[id] # None => users'[sso'[id].user] = sso'[id].by
    BY <1>4, <1>5 DEF UserInv, UserSignedIn, AuthTypeOK, Sso
  <2>2. \A id \in Ids : codes'[id] # None => users'[codes'[id].user] = codes'[id].by
    BY <1>4, <1>5 DEF UserInv, UserSignedIn, AuthTypeOK, Code
  <2>3. \A id \in Ids :
          tokens'[id] # None => users'[tokens'[id].user] = tokens'[id].by
    BY <1>4, <1>5 DEF UserInv, UserSignedIn, AuthTypeOK, Token
  <2>4. \A i \in 1..Len(issued) : issued[i] \in Issue
    BY DEF AuthTypeOK
  <2>5. \A i \in 1..Len(issued') : users'[issued'[i].user] = issued'[i].by
    BY <1>4, <1>5, <2>4 DEF UserInv, UserSignedIn, Issue
  <2>. QED BY <2>1, <2>2, <2>3, <2>5 DEF UserSignedIn
<1>7. \A h \in Procs :
        /\ authz'[h] # None => users'[authz'[h].user] = authz'[h].by
        /\ exch'[h] # None => users'[exch'[h].user] = exch'[h].by
  BY <1>4, <1>5 DEF UserInv, AuthTypeOK, Authz, Exch
<1>8. \A h \in Procs : signIn'[h] # None => users'[signIn'[h].user] = signIn'[h].by
  BY <1>2, <1>3, <1>5 DEF UserInv, AuthTypeOK, SignIn
<1>. QED BY <1>6, <1>7, <1>8 DEF UserInv

(* A step that adds no key, no handler and no answer. *)
LEMMA UserInvLess ==
    ASSUME AuthTypeOK, UserInv, UNCHANGED <<users, issued>>,
           \A id \in Ids : /\ sso'[id] \in {sso[id], None}
                           /\ codes'[id] \in {codes[id], None}
                           /\ tokens'[id] \in {tokens[id], None},
           \A g \in Procs : /\ signIn'[g] \in {signIn[g], None}
                            /\ authz'[g] \in {authz[g], None}
                            /\ exch'[g] \in {exch[g], None}
    PROVE  UserInv'
BY DEF UserInv, UserSignedIn

(* The session takes the user from the sign-in. *)
LEMMA UserInvCreateSso ==
    ASSUME AuthTypeOK, UserInv, NEW g \in Procs, CreateSso(g)
    PROVE  UserInv'
<1>1. signIn[g] # None /\ signIn[g] \in SignIn
  BY DEF CreateSso, AuthTypeOK
<1>2. PICK id \in Ids :
        sso' = SetNX(sso, id, [user |-> signIn[g].user, by |-> signIn[g].by])
  BY DEF CreateSso
<1>3. /\ signIn' = [signIn EXCEPT ![g] = None]
      /\ UNCHANGED <<users, codes, tokens, authz, exch, issued>>
  BY DEF CreateSso
<1>4. users[signIn[g].user] = signIn[g].by
  BY <1>1 DEF UserInv
<1>5. \A i \in Ids : sso'[i] # None => users[sso'[i].user] = sso'[i].by
  BY <1>2, <1>4 DEF SetNX, UserInv, UserSignedIn, AuthTypeOK
<1>6. \A h \in Procs : signIn'[h] # None => users[signIn'[h].user] = signIn'[h].by
  BY <1>3 DEF UserInv, AuthTypeOK
<1>. QED BY <1>3, <1>5, <1>6 DEF UserInv, UserSignedIn

(* The code takes the user from the session, by way of the handler. *)
LEMMA UserInvAuthorize ==
    ASSUME AuthTypeOK, UserInv, NEW g \in Procs, NEW id \in Ids,
           NEW client \in Clients, NEW uri \in Uris, NEW challenge \in Challenges,
           Authorize(g, id, client, uri, challenge)
    PROVE  UserInv'
<1>1. UNCHANGED <<users, sso, codes, tokens, signIn, exch, issued>>
  BY DEF Authorize
<1>2. users[sso[id].user] = sso[id].by
  BY DEF Authorize, UserInv, UserSignedIn
<1>3. \A h \in Procs : authz'[h] # None => users[authz'[h].user] = authz'[h].by
  BY <1>2 DEF Authorize, UserInv, AuthTypeOK
<1>. QED BY <1>1, <1>3 DEF UserInv, UserSignedIn

LEMMA UserInvStoreCode ==
    ASSUME AuthTypeOK, UserInv, NEW g \in Procs, StoreCode(g)
    PROVE  UserInv'
<1> DEFINE p == authz[g]
           code == [user |-> p.user, by |-> p.by, client |-> p.client,
                    uri |-> p.uri, challenge |-> p.challenge,
                    n |-> Len(granted) + 1]
<1>1. p # None /\ p \in Authz
  BY DEF StoreCode, AuthTypeOK
<1>2. PICK id \in Ids, ok \in BOOLEAN :
        /\ codes' = SetNX(codes, id, code)
        /\ authz' = [authz EXCEPT ![g] = AfterAttempt(p, ok)]
  BY DEF StoreCode
<1>3. UNCHANGED <<users, sso, tokens, signIn, exch, issued>>
  BY DEF StoreCode
<1>4. users[p.user] = p.by
  BY <1>1 DEF UserInv
<1>5. \A i \in Ids : codes'[i] # None => users[codes'[i].user] = codes'[i].by
  BY <1>2, <1>4 DEF SetNX, UserInv, UserSignedIn, AuthTypeOK
<1>6. \A h \in Procs : authz'[h] # None => users[authz'[h].user] = authz'[h].by
  BY <1>1, <1>2, <1>4, AuthzAttempt DEF UserInv, AuthTypeOK
<1>. QED BY <1>3, <1>5, <1>6 DEF UserInv, UserSignedIn

(* The token takes the user from the code, by way of the handler. *)
LEMMA UserInvExchange ==
    ASSUME AuthTypeOK, UserInv, NEW g \in Procs, NEW id \in Ids, NEW form \in Form,
           Exchange(g, id, form)
    PROVE  UserInv'
<1>1. /\ UNCHANGED <<users, sso, tokens, signIn, authz, issued>>
      /\ codes' = [codes EXCEPT ![id] = None]
  BY DEF Exchange, ConsumeCode
<1>2. users[codes[id].user] = codes[id].by
  BY DEF Exchange, UserInv, UserSignedIn
<1>3. \A h \in Procs : exch'[h] # None => users[exch'[h].user] = exch'[h].by
  BY <1>2 DEF Exchange, UserInv, AuthTypeOK
<1>4. \A i \in Ids : codes'[i] # None => users[codes'[i].user] = codes'[i].by
  BY <1>1 DEF UserInv, UserSignedIn, AuthTypeOK
<1>. QED BY <1>1, <1>3, <1>4 DEF UserInv, UserSignedIn

LEMMA UserInvStoreToken ==
    ASSUME AuthTypeOK, UserInv, NEW g \in Procs, StoreToken(g)
    PROVE  UserInv'
<1> DEFINE p == exch[g]
           token == [user |-> p.user, by |-> p.by, client |-> p.client, n |-> p.n]
           issue == [user |-> p.user, by |-> p.by, client |-> p.client,
                     n |-> p.n, form |-> p.form]
<1>1. p # None /\ p \in Exch
  BY DEF StoreToken, AuthTypeOK
<1>2. PICK id \in Ids, ok \in BOOLEAN :
        /\ tokens' = SetNX(tokens, id, token)
        /\ issued' = IF ok THEN Append(issued, issue) ELSE issued
        /\ exch' = [exch EXCEPT ![g] = AfterAttempt(p, ok)]
  BY DEF StoreToken
<1>3. UNCHANGED <<users, sso, codes, signIn, authz>>
  BY DEF StoreToken
<1>4. users[p.user] = p.by
  BY <1>1 DEF UserInv
<1>5. \A i \in Ids : tokens'[i] # None => users[tokens'[i].user] = tokens'[i].by
  BY <1>2, <1>4 DEF SetNX, UserInv, UserSignedIn, AuthTypeOK
<1>6. \A h \in Procs : exch'[h] # None => users[exch'[h].user] = exch'[h].by
  BY <1>1, <1>2, <1>4, ExchAttempt DEF UserInv, AuthTypeOK
<1>7. issue \in Issue /\ issue.user = p.user /\ issue.by = p.by
  BY <1>1 DEF Exch, Issue
<1> HIDE DEF issue
<1>8. \A i \in 1..Len(issued') :
        \/ i \in 1..Len(issued) /\ issued'[i] = issued[i]
        \/ issued'[i] = issue
  BY <1>2, <1>7 DEF AuthTypeOK
<1>9. \A i \in 1..Len(issued') : users[issued'[i].user] = issued'[i].by
  BY <1>4, <1>7, <1>8 DEF UserInv, UserSignedIn
<1>. QED BY <1>3, <1>5, <1>6, <1>9 DEF UserInv, UserSignedIn

(* Every step keeps the chain to the sign-in. *)
LEMMA UserInvStep ==
    ASSUME AuthTypeOK, UserInv, [AuthNext]_authVars
    PROVE  UserInv'
<1>1. ASSUME NEW g \in Procs, SignInFail(g) \/ AuthzFail(g) \/ ExchFail(g)
      PROVE  UserInv'
  BY <1>1, UserInvLess DEF SignInFail, AuthzFail, ExchFail, AuthTypeOK
<1>2. ASSUME NEW id \in Ids,
             \/ Logout(id) \/ SsoExpire(id) \/ CodeExpire(id) \/ TokenExpire(id)
             \/ \E client \in Clients : Revoke(id, client)
      PROVE  UserInv'
  BY <1>2, UserInvLess
     DEF Logout, SsoExpire, CodeExpire, TokenExpire, Revoke, AuthTypeOK
<1>3. CASE UNCHANGED authVars
  BY <1>3, UserInvLess DEF authVars
<1>. QED
  BY <1>1, <1>2, <1>3, AuthActions, UserInvSignIn, UserInvCreateSso,
     UserInvAuthorize, UserInvStoreCode, UserInvExchange, UserInvStoreToken

(* Sessions, codes, tokens and answers go back to a sign-in with the       *)
(* password of the user's row, whatever registers, logs in or fails when.  *)
THEOREM SignedIn == AuthSpec => []UserSignedIn
<1>1. AuthInit => UserInv
  BY DEF AuthInit, UserInv, UserSignedIn
<1>2. AuthSpec => []UserInv
  BY <1>1, UserInvStep, AuthTypeCorrect, PTL DEF AuthSpec
<1>3. UserInv => UserSignedIn
  BY DEF UserInv
<1>. QED BY <1>2, <1>3, PTL

-----------------------------------------------------------------------------
(* No step replaces the value of a live session, code or token.  Together  *)
(* with the expiry of a key this is all a holder of an id relies on.       *)
THEOREM KeysKept == AuthSpec => KeysNeverReplaced
<1> DEFINE Kept == \A id \in Ids :
                      /\ sso[id] # None => sso'[id] \in {sso[id], None}
                      /\ codes[id] # None => codes'[id] \in {codes[id], None}
                      /\ tokens[id] # None => tokens'[id] \in {tokens[id], None}
<1>1. ASSUME AuthTypeOK, [AuthNext]_authVars
      PROVE  Kept
  <2> USE AuthTypeOK DEF AuthTypeOK
  <2>1. ASSUME NEW g \in Procs, CreateSso(g)
        PROVE  Kept
    <3>1. \E id \in Ids : \E value : sso' = SetNX(sso, id, value)
      BY <2>1 DEF CreateSso
    <3>2. \A i \in Ids : sso[i] # None => sso'[i] = sso[i]
      BY <3>1 DEF SetNX
    <3>. QED BY <2>1, <3>2 DEF CreateSso
  <2>2. ASSUME NEW g \in Procs, StoreCode(g)
        PROVE  Kept
    <3>1. \E id \in Ids : \E value : codes' = SetNX(codes, id, value)
      BY <2>2 DEF StoreCode
    <3>2. \A i \in Ids : codes[i] # None => codes'[i] = codes[i]
      BY <3>1 DEF SetNX
    <3>. QED BY <2>2, <3>2 DEF StoreCode
  <2>3. ASSUME NEW g \in Procs, StoreToken(g)
        PROVE  Kept
    <3>1. \E id \in Ids : \E value : tokens' = SetNX(tokens, id, value)
      BY <2>3 DEF StoreToken
    <3>2. \A i \in Ids : tokens[i] # None => tokens'[i] = tokens[i]
      BY <3>1 DEF SetNX
    <3>. QED BY <2>3, <3>2 DEF StoreToken
  <2>4. ASSUME NEW g \in Procs,
               \/ SignInFail(g) \/ AuthzFail(g) \/ ExchFail(g)
               \/ \E l \in Logins, pw \in Passwords :
                     Register(g, l, pw) \/ Login(g, l, pw)
        PROVE  Kept
    BY <2>4 DEF SignInFail, AuthzFail, ExchFail, Register, Login
  <2>5. ASSUME NEW g \in Procs, NEW id \in Ids, NEW client \in Clients,
               NEW uri \in Uris, NEW challenge \in Challenges,
               Authorize(g, id, client, uri, challenge)
        PROVE  Kept
    BY <2>5 DEF Authorize
  <2>6. ASSUME NEW g \in Procs, NEW id \in Ids, NEW form \in Form,
               Exchange(g, id, form)
        PROVE  Kept
    BY <2>6 DEF Exchange, ConsumeCode
  <2>7. ASSUME NEW id \in Ids,
               \/ Logout(id) \/ SsoExpire(id) \/ CodeExpire(id) \/ TokenExpire(id)
               \/ \E client \in Clients : Revoke(id, client)
        PROVE  Kept
    BY <2>7 DEF Logout, SsoExpire, CodeExpire, TokenExpire, Revoke
  <2>8. CASE UNCHANGED authVars
    BY <2>8 DEF authVars
  <2> HIDE DEF Kept
  <2>. QED
    BY <1>1, <2>1, <2>2, <2>3, <2>4, <2>5, <2>6, <2>7, <2>8, AuthActions
<1>. QED BY <1>1, AuthTypeCorrect, PTL DEF AuthSpec, KeysNeverReplaced

=============================================================================
