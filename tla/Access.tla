------------------------------- MODULE Access -------------------------------
(***************************************************************************)
(* The callers of the API: the requests that present an access token, on   *)
(* top of the authorization server of Auth that stores, revokes and        *)
(* expires the tokens.  The sync interceptor and the endpoint me look the  *)
(* token up once, on entry, and act for the user they found.  A sync RPC   *)
(* takes many steps after that (SyncServer models them for one user), and  *)
(* meanwhile its token may be revoked or expire, and its id may even be    *)
(* given to another user's token.                                          *)
(*                                                                         *)
(* A request without a bearer token, or with one that is not found, is     *)
(* refused and changes nothing: it is not an action.                       *)
(***************************************************************************)
EXTENDS Auth

CONSTANT Calls   \* goroutines that serve API requests

(* An admitted request.  n, the place of the grant in granted, and by, the *)
(* password of the sign-in behind the token, are history.                  *)
Kinds == {"sync", "me"}
Call  == [kind: Kinds, id: Ids, user: Logins, by: Passwords, n: Nat]

(* A request's access to the data of a user. *)
Act == [user: Logins, n: Nat]

ASSUME CallsAssumption == None \notin Call

VARIABLES
    call,   \* admitted requests
    acts,   \* history: whose data requests have touched, and by which grant
    ended   \* history: grants that had a token revoked or expired

accessVars == <<authVars, call, acts, ended>>

AccessTypeOK ==
    /\ AuthTypeOK
    /\ call \in [Calls -> Call \union {None}]
    /\ acts \subseteq Act
    /\ ended \subseteq Nat

AccessInit ==
    /\ AuthInit
    /\ call = [c \in Calls |-> None]
    /\ acts = {}
    /\ ended = {}

-----------------------------------------------------------------------------
(* NewAuthInterceptor and the beginning of me. *)
Admit(c, kind, id) ==
    LET t == tokens[id] IN
    /\ call[c] = None
    /\ t # None
    /\ call' = [call EXCEPT ![c] =
          [kind |-> kind, id |-> id, user |-> t.user, by |-> t.by, n |-> t.n]]
    /\ UNCHANGED <<authVars, acts, ended>>

\* Mutant: the user is looked up again, by the token, when it is needed.
UserByToken(p) == IF tokens[p.id] = None THEN p.user ELSE tokens[p.id].user

(* The user a handler acts for: the one in its context. *)
UserIDFromCtx(p) == p.user

Touched(p) == acts \union {[user |-> UserIDFromCtx(p), n |-> p.n]}

(* A step of a sync handler on the session or the rows of its user. *)
SyncStep(c) ==
    /\ call[c] # None /\ call[c].kind = "sync"
    /\ acts' = Touched(call[c])
    /\ UNCHANGED <<authVars, call, ended>>

(* GetUserProfile and the answer. *)
MeAnswers(c) ==
    /\ call[c] # None /\ call[c].kind = "me"
    /\ users[UserIDFromCtx(call[c])] # None
    /\ acts' = Touched(call[c])
    /\ call' = [call EXCEPT ![c] = None]
    /\ UNCHANGED <<authVars, ended>>

(* A sync handler answers, or either of them fails or loses its caller. *)
CallEnds(c) ==
    /\ call[c] # None
    /\ call[c].kind = "sync" \/ Faults
    /\ call' = [call EXCEPT ![c] = None]
    /\ UNCHANGED <<authVars, acts, ended>>

(* The grants whose token goes in this step. *)
EndedNow == {tokens[id].n : id \in {i \in Ids : /\ tokens[i] # None
                                                /\ tokens'[i] = None}}

AuthStep ==
    /\ AuthNext
    /\ ended' = ended \union EndedNow
    /\ UNCHANGED <<call, acts>>

-----------------------------------------------------------------------------
CallStep(c) ==
    \/ \E kind \in Kinds, id \in Ids : Admit(c, kind, id)
    \/ SyncStep(c) \/ MeAnswers(c) \/ CallEnds(c)

AccessNext == AuthStep \/ \E c \in Calls : CallStep(c)

AccessSpec == AccessInit /\ [][AccessNext]_accessVars

AccessFairSpec == AccessSpec /\ AuthFairness

-----------------------------------------------------------------------------
(* Whatever happens to a token while a request that presented it runs, the *)
(* request touches the data of one user only: the one that authorized the  *)
(* client, as the grant behind the token says.                             *)
ActsForGrant ==
    \A a \in acts : a.n \in 1..Len(granted) /\ a.user = granted[a.n].user

(* Whoever acts for a user signed in with the password of that user's row, *)
(* and the row that me reads is there.                                     *)
CallersSignedIn ==
    \A c \in Calls : call[c] # None => users[call[c].user] = call[c].by

(* Once the token of a grant is revoked or has expired, the grant lets no  *)
(* request in any more: there is no second token to present.  (Unless the  *)
(* answer of a SETNX is lost, which leaves a second key behind.)           *)
EndedGrantStaysOut ==
    [][\A c \in Calls :
          call[c] = None /\ call'[c] # None => call'[c].n \notin ended]_accessVars

-----------------------------------------------------------------------------
(* The inductive invariant behind ActsForGrant: tokens, and the requests   *)
(* they let in, belong to their grant.                                     *)
GrantOf(v) == v.n \in 1..Len(granted) /\ v.user = granted[v.n].user

AccessInv ==
    /\ \A id \in Ids : tokens[id] # None => GrantOf(tokens[id])
    /\ \A c \in Calls : call[c] # None => GrantOf(call[c])
    /\ \A a \in acts : GrantOf(a)

(* The inductive invariant behind EndedGrantStaysOut, when no answer of a  *)
(* SETNX is lost: a grant's number is at one token at most, which was      *)
(* answered; once it has left it, it is at none.                           *)
Answered(n) == \E i \in 1..Len(issued) : issued[i].n = n

EndedInv ==
    /\ \A id \in Ids : tokens[id] # None =>
          Answered(tokens[id].n) /\ tokens[id].n \notin ended
    /\ \A id, jd \in Ids :
          tokens[id] # None /\ tokens[jd] # None /\ id # jd =>
              tokens[id].n # tokens[jd].n
    /\ \A n \in ended : Answered(n)
=============================================================================
