-------------------------------- MODULE Auth --------------------------------
(***************************************************************************)
(* Accounts, single sign-on and the OAuth authorization server: register,  *)
(* login, logout, authorize, exchangeToken and revoke running as           *)
(* goroutines over MySQL (users) and Redis (SSO sessions, authorization    *)
(* codes, access tokens).                                                  *)
(*                                                                         *)
(* The three kinds of Redis keys are random ids, and the generator may     *)
(* repeat one, live or dead.  Each key is written with SETNX; when the id  *)
(* is taken, codes and tokens try another one, MaxAttempts times at most.  *)
(*                                                                         *)
(* A request that is refused without changing a store is not an action.    *)
(* The field by of a value is history: the password that was presented at  *)
(* the sign-in it goes back to.                                            *)
(***************************************************************************)
EXTENDS Naturals, Sequences

CONSTANTS
    None,         \* an absent row or key, an idle goroutine
    Logins,       \* login ids, each standing for the user that has it
    Passwords,    \* passwords
    Ids,          \* what the random id generator may return
    Clients,      \* client_id strings; two spellings of an id are two of them
    Uris,         \* redirect URIs
    UriOf,        \* the redirect URI of the client that a client_id denotes
    Verifiers,    \* PKCE code verifiers
    Challenges,   \* PKCE code challenges
    S256,         \* the challenge of each verifier
    Procs,        \* goroutines available to each handler
    MaxAttempts,  \* ids tried for one key
    MaxCodes,     \* bound: authorization codes stored
    Faults,       \* may stores fail and answers be lost?
    LostReplies   \* may the answer of a SETNX be lost?

Sso   == [user: Logins, by: Passwords]
Code  == [user: Logins, by: Passwords, client: Clients, uri: Uris,
          challenge: Challenges, n: Nat]
Token == [user: Logins, by: Passwords, client: Clients, n: Nat]

(* The form that exchangeToken is posted with a code. *)
Form == [client: Clients, uri: Uris, verifier: Verifiers]

(* The handlers that are about to store a key, and the ids they have tried. *)
SignIn == [user: Logins, by: Passwords]
Authz  == [user: Logins, by: Passwords, client: Clients, uri: Uris,
           challenge: Challenges, tries: Nat]
Exch   == [user: Logins, by: Passwords, client: Clients, n: Nat,
           form: Form, tries: Nat]

(* A token as it was answered to a form; n is the place of its code in     *)
(* granted.                                                                *)
Issue == [user: Logins, by: Passwords, client: Clients, n: Nat, form: Form]

ASSUME NoneAssumption ==
    None \notin Passwords \union Uris \union Sso \union Code \union Token
                  \union SignIn \union Authz \union Exch

ASSUME ClientsAssumption ==
    /\ UriOf \in [Clients -> Uris \union {None}]
    /\ S256 \in [Verifiers -> Challenges]

ASSUME AuthBoundsAssumption ==
    /\ MaxAttempts \in Nat \ {0}
    /\ MaxCodes \in Nat
    /\ Faults \in BOOLEAN /\ LostReplies \in BOOLEAN

VARIABLES
    users,    \* the users table: the password of each login
    sso,      \* the keys sso:{id}
    codes,    \* the keys oauth:session:{id}
    tokens,   \* the keys oauth:access_token:{id}
    signIn,   \* register and login handlers with a user to sign in
    authz,    \* authorize handlers with a request to grant
    exch,     \* exchangeToken handlers with a consumed code
    granted,  \* history: every code stored, in order
    issued    \* history: every token answered, in order

authVars == <<users, sso, codes, tokens, signIn, authz, exch, granted, issued>>

AuthTypeOK ==
    /\ users \in [Logins -> Passwords \union {None}]
    /\ sso \in [Ids -> Sso \union {None}]
    /\ codes \in [Ids -> Code \union {None}]
    /\ tokens \in [Ids -> Token \union {None}]
    /\ signIn \in [Procs -> SignIn \union {None}]
    /\ authz \in [Procs -> Authz \union {None}]
    /\ exch \in [Procs -> Exch \union {None}]
    /\ granted \in Seq(Code)
    /\ issued \in Seq(Issue)

AuthInit ==
    /\ users = [l \in Logins |-> None]
    /\ sso = [i \in Ids |-> None]
    /\ codes = [i \in Ids |-> None]
    /\ tokens = [i \in Ids |-> None]
    /\ signIn = [g \in Procs |-> None]
    /\ authz = [g \in Procs |-> None]
    /\ exch = [g \in Procs |-> None]
    /\ granted = <<>>
    /\ issued = <<>>

-----------------------------------------------------------------------------
(***************************************************************************)
(* SETNX, and the retries of codes and tokens.                             *)
(***************************************************************************)
\* Mutant: SET, which replaces the key.
SetReplaces(store, id, value) == [store EXCEPT ![id] = value]

SetNX(store, id, value) ==
    IF store[id] = None THEN [store EXCEPT ![id] = value] ELSE store

(* Does SETNX say that it stored the key?  The Redis client sends a command *)
(* again when its answer was lost: the second one finds the key of the      *)
(* first and reports a collision.                                           *)
SetNXReplies(old, ok) == IF old = None THEN ok \/ LostReplies ELSE ~ok

\* Mutant: the attempts are not counted.
RetryForEver(p) == p

(* After a collision: another attempt, or the handler fails. *)
NextAttempt(p) ==
    IF p.tries + 1 = MaxAttempts THEN None ELSE [p EXCEPT !.tries = p.tries + 1]

AfterAttempt(p, ok) == IF ok THEN None ELSE NextAttempt(p)

-----------------------------------------------------------------------------
(***************************************************************************)
(* Accounts.  Two registrations of one login meet at the unique key.       *)
(***************************************************************************)
\* Mutant: login_id is not unique: a second row shadows the first.
InsertAlways(l) == TRUE

CanInsert(l) == users[l] = None

Register(g, l, password) ==
    /\ signIn[g] = None
    /\ CanInsert(l)
    /\ users' = [users EXCEPT ![l] = password]
    /\ signIn' = [signIn EXCEPT ![g] = [user |-> l, by |-> password]]
    /\ UNCHANGED <<sso, codes, tokens, authz, exch, granted, issued>>

(* GetPasswordHash finds the row, and bcrypt says that the password fits. *)
PasswordMatches(l, password) == users[l] # None /\ users[l] = password

Login(g, l, password) ==
    /\ signIn[g] = None
    /\ PasswordMatches(l, password)
    /\ signIn' = [signIn EXCEPT ![g] = [user |-> l, by |-> password]]
    /\ UNCHANGED <<users, sso, codes, tokens, authz, exch, granted, issued>>

(* RedisSSOStore.Create, the last step of both, ends after one attempt:    *)
(* the store is built without its log, so a collision panics at the        *)
(* warning before the second one, and PanicRecovery answers.               *)
CreateSso(g) ==
    LET p == signIn[g] IN
    /\ p # None
    /\ \E id \in Ids : sso' = SetNX(sso, id, [user |-> p.user, by |-> p.by])
    /\ signIn' = [signIn EXCEPT ![g] = None]
    /\ UNCHANGED <<users, codes, tokens, authz, exch, granted, issued>>

Logout(id) ==
    /\ sso[id] # None
    /\ sso' = [sso EXCEPT ![id] = None]
    /\ UNCHANGED <<users, codes, tokens, signIn, authz, exch, granted, issued>>

-----------------------------------------------------------------------------
(***************************************************************************)
(* Authorization codes.                                                    *)
(***************************************************************************)
(* GetClientInfo finds the client.  Its cache in Redis holds copies of rows *)
(* that the server never changes.                                           *)
KnownClient(client) == UriOf[client] # None

(* What rejectInvalidRequest lets through: a registered client and its own *)
(* redirect URI.                                                           *)
ValidRequest(client, uri) == KnownClient(client) /\ uri = UriOf[client]

Authorize(g, id, client, uri, challenge) ==
    /\ authz[g] = None
    /\ Len(granted) < MaxCodes
    /\ sso[id] # None
    /\ ValidRequest(client, uri)
    /\ authz' = [authz EXCEPT
          ![g] = [user |-> sso[id].user, by |-> sso[id].by, client |-> client,
                  uri |-> uri, challenge |-> challenge, tries |-> 0]]
    /\ UNCHANGED <<users, sso, codes, tokens, signIn, exch, granted, issued>>

(* GenCodeStoreSession.  The user may have logged out since. *)
StoreCode(g) ==
    LET p == authz[g]
        code == [user |-> p.user, by |-> p.by, client |-> p.client,
                 uri |-> p.uri, challenge |-> p.challenge, n |-> Len(granted) + 1]
    IN
    /\ p # None
    /\ \E id \in Ids, ok \in BOOLEAN :
          /\ codes[id] = None => Len(granted) < MaxCodes
          /\ SetNXReplies(codes[id], ok)
          /\ codes' = SetNX(codes, id, code)
          /\ granted' = IF codes[id] = None THEN Append(granted, code) ELSE granted
          /\ authz' = [authz EXCEPT ![g] = AfterAttempt(p, ok)]
    /\ UNCHANGED <<users, sso, tokens, signIn, exch, issued>>

-----------------------------------------------------------------------------
(***************************************************************************)
(* Access tokens.                                                          *)
(***************************************************************************)
\* Mutant: the user of the code is blanked, the key is not deleted.
BlankCode(id) == [codes EXCEPT ![id].user = None]

\* Mutant: GET instead of GETDEL.
ReadCode(id) == codes

ConsumeCode(id) == [codes EXCEPT ![id] = None]

\* Mutant: the code verifier is not compared.
BindingIgnoresVerifier(code, form) ==
    form.uri = code.uri /\ form.client = code.client

CodeBinding(code, form) ==
    /\ form.uri = code.uri
    /\ form.client = code.client
    /\ S256[form.verifier] = code.challenge

(* A wrong form, or a lost answer of GETDEL, uses the code up as well. *)
Exchange(g, id, form) ==
    LET code == codes[id] IN
    /\ exch[g] = None
    /\ code # None
    /\ codes' = ConsumeCode(id)
    /\ \/ /\ CodeBinding(code, form)
          /\ exch' = [exch EXCEPT
                ![g] = [user |-> code.user, by |-> code.by, client |-> code.client,
                        n |-> code.n, form |-> form, tries |-> 0]]
       \/ /\ Faults \/ ~CodeBinding(code, form)
          /\ UNCHANGED exch
    /\ UNCHANGED <<users, sso, tokens, signIn, authz, granted, issued>>

(* GenAccessToken and the answer. *)
StoreToken(g) ==
    LET p == exch[g]
        token == [user |-> p.user, by |-> p.by, client |-> p.client, n |-> p.n]
        issue == [user |-> p.user, by |-> p.by, client |-> p.client, n |-> p.n,
                  form |-> p.form]
    IN
    /\ p # None
    /\ \E id \in Ids, ok \in BOOLEAN :
          /\ SetNXReplies(tokens[id], ok)
          /\ tokens' = SetNX(tokens, id, token)
          /\ issued' = IF ok THEN Append(issued, issue) ELSE issued
          /\ exch' = [exch EXCEPT ![g] = AfterAttempt(p, ok)]
    /\ UNCHANGED <<users, sso, codes, signIn, authz, granted>>

Revocable(token, client) == KnownClient(client) /\ token.client = client

Revoke(id, client) ==
    /\ tokens[id] # None
    /\ Revocable(tokens[id], client)
    /\ tokens' = [tokens EXCEPT ![id] = None]
    /\ UNCHANGED <<users, sso, codes, signIn, authz, exch, granted, issued>>

-----------------------------------------------------------------------------
(* TTLs: 8 hours, 10 minutes, 24 hours. *)
SsoExpire(id) ==
    /\ sso[id] # None
    /\ sso' = [sso EXCEPT ![id] = None]
    /\ UNCHANGED <<users, codes, tokens, signIn, authz, exch, granted, issued>>

CodeExpire(id) ==
    /\ codes[id] # None
    /\ codes' = [codes EXCEPT ![id] = None]
    /\ UNCHANGED <<users, sso, tokens, signIn, authz, exch, granted, issued>>

TokenExpire(id) ==
    /\ tokens[id] # None
    /\ tokens' = [tokens EXCEPT ![id] = None]
    /\ UNCHANGED <<users, sso, codes, signIn, authz, exch, granted, issued>>

(* A failing store call or a crash ends a handler between two steps. *)
SignInFail(g) ==
    /\ Faults /\ signIn[g] # None
    /\ signIn' = [signIn EXCEPT ![g] = None]
    /\ UNCHANGED <<users, sso, codes, tokens, authz, exch, granted, issued>>

AuthzFail(g) ==
    /\ Faults /\ authz[g] # None
    /\ authz' = [authz EXCEPT ![g] = None]
    /\ UNCHANGED <<users, sso, codes, tokens, signIn, exch, granted, issued>>

ExchFail(g) ==
    /\ Faults /\ exch[g] # None
    /\ exch' = [exch EXCEPT ![g] = None]
    /\ UNCHANGED <<users, sso, codes, tokens, signIn, authz, granted, issued>>

-----------------------------------------------------------------------------
Handler(g) ==
    \/ \E l \in Logins, pw \in Passwords : Register(g, l, pw) \/ Login(g, l, pw)
    \/ \E id \in Ids :
          \/ \E client \in Clients, uri \in Uris, challenge \in Challenges :
                Authorize(g, id, client, uri, challenge)
          \/ \E form \in Form : Exchange(g, id, form)

AuthNext ==
    \/ \E g \in Procs : \/ Handler(g) \/ CreateSso(g) \/ StoreCode(g)
                        \/ StoreToken(g) \/ SignInFail(g) \/ AuthzFail(g)
                        \/ ExchFail(g)
    \/ \E id \in Ids : \/ Logout(id) \/ SsoExpire(id) \/ CodeExpire(id)
                       \/ TokenExpire(id)
                       \/ \E client \in Clients : Revoke(id, client)

AuthSpec == AuthInit /\ [][AuthNext]_authVars

(* A goroutine that can run runs. *)
AuthFairness ==
    \A g \in Procs : /\ WF_authVars(CreateSso(g))
                     /\ WF_authVars(StoreCode(g))
                     /\ WF_authVars(StoreToken(g))

-----------------------------------------------------------------------------
(* A code buys at most one token, however many exchanges present it at the *)
(* same time, and whichever of them fails or loses its answer.             *)
OneTokenPerCode ==
    \A i, j \in 1..Len(issued) : issued[i].n = issued[j].n => i = j

(* v's token is that of the code numbered v.n, for the user and the client *)
(* of the authorization, and its form is that of the client that asked for *)
(* the authorization: its id and redirect URI, and the verifier behind its *)
(* challenge.                                                              *)
OfGrant(v) ==
    /\ v.n \in 1..Len(granted)
    /\ LET code == granted[v.n] IN
          /\ v.user = code.user /\ v.client = code.client
          /\ v.form.client = code.client /\ v.form.uri = code.uri
          /\ S256[v.form.verifier] = code.challenge

(* A token is answered only to a form with the client, the redirect URI    *)
(* and the verifier of its authorization, and is for the user and the      *)
(* client of that authorization, even when ids repeat.                     *)
TokenAnswersGrant == \A i \in 1..Len(issued) : OfGrant(issued[i])

(* Whatever acts for a user, a session, a code or a token, goes back to a  *)
(* sign-in with the password that the users table has for the user: two    *)
(* people who register one login at once do not both get in.               *)
UserSignedIn ==
    /\ \A id \in Ids :
          /\ sso[id] # None => users[sso[id].user] = sso[id].by
          /\ codes[id] # None => users[codes[id].user] = codes[id].by
          /\ tokens[id] # None => users[tokens[id].user] = tokens[id].by
    /\ \A i \in 1..Len(issued) : users[issued[i].user] = issued[i].by

(* A live key is never replaced by another user's, not even when the       *)
(* generator repeats its id: it keeps its value until it goes.             *)
KeysNeverReplaced ==
    [][\A id \in Ids :
          /\ sso[id] # None => sso'[id] \in {sso[id], None}
          /\ codes[id] # None => codes'[id] \in {codes[id], None}
          /\ tokens[id] # None => tokens'[id] \in {tokens[id], None}]_authVars

(* A handler that looks for a free id ends, even if it never finds one. *)
KeyHandlersEnd ==
    \A g \in Procs : /\ signIn[g] # None ~> signIn[g] = None
                     /\ authz[g] # None ~> authz[g] = None
                     /\ exch[g] # None ~> exch[g] = None

-----------------------------------------------------------------------------
(***************************************************************************)
(* The inductive invariants behind OneTokenPerCode, TokenAnswersGrant and  *)
(* UserSignedIn.                                                           *)
(***************************************************************************)
(* The number of a code is in one place at a time: at one key, then in one *)
(* exchange, then in one answer.                                           *)
CodeInv ==
    /\ \A id \in Ids : codes[id] # None =>
          /\ codes[id].n \in 1..Len(granted)
          /\ codes[id] = granted[codes[id].n]
    /\ \A id, jd \in Ids :
          codes[id] # None /\ codes[jd] # None /\ id # jd => codes[id].n # codes[jd].n
    /\ \A g \in Procs : exch[g] # None => OfGrant(exch[g])
    /\ \A g, h \in Procs :
          exch[g] # None /\ exch[h] # None /\ g # h => exch[g].n # exch[h].n
    /\ \A g \in Procs, id \in Ids :
          exch[g] # None /\ codes[id] # None => exch[g].n # codes[id].n
    /\ \A i \in 1..Len(issued) :
          /\ OfGrant(issued[i])
          /\ \A id \in Ids : codes[id] # None => codes[id].n # issued[i].n
          /\ \A g \in Procs : exch[g] # None => exch[g].n # issued[i].n
    /\ OneTokenPerCode

(* UserSignedIn, of the handlers as well. *)
UserInv ==
    /\ UserSignedIn
    /\ \A g \in Procs :
          /\ signIn[g] # None => users[signIn[g].user] = signIn[g].by
          /\ authz[g] # None => users[authz[g].user] = authz[g].by
          /\ exch[g] # None => users[exch[g].user] = exch[g].by
=============================================================================
