# A TLA+ model of the EnLangMemo server

EnLangMemo is a flash-card application; this repository is its server. The part
with most state worth verifying is the **sync service**: several devices of a
user exchange their changes through it, under a lock kept in Redis and with the
data in MySQL. Beside it stand the **authorization server** that gives those
devices their access tokens, the check of these tokens at the API, and the
process around it all. This directory holds TLA+ modules of these, the TLC
configurations that check them on small instances, and TLAPS proofs of the
properties that hold for every instance.

## 1. The system

| component | state | operations | interacts with |
|---|---|---|---|
| sync session (`sync/session`) | Redis hash `sync:{userID}:sync_lock`: id, state, expected batch number, cursor, cursors at the handshake, queue of types; TTL 60 s | one Lua script each: create, claim pull batch, update pull progress, mark pull finished, claim push batch, mark push finished, check finish, release | called by the four handlers; the script is the unit of atomicity |
| handshake (`sync/handshake*.go`) | none of its own | read the collection row, decide the status, read the types with changes, create the session | MySQL, session |
| pull (`sync/pull*.go`, `sync/collector`) | a response being collected | claim, query type after type and page after page, save the progress | MySQL, session |
| push (`sync/push*.go`, `sync/sql`) | a MySQL transaction | claim (reserves USNs), one upsert or delete with its sync unit per change, move `sync_cursor_usn`, commit; the empty `finish_push` batch | MySQL, session |
| finish (`sync/finish_sync.go`, `session/finish.go`) | none | check, write `last_sync_time`, release | MySQL, session |
| tables (`docker/mysql`) | entity tables (usn, is_deleted), `sync_units` (usn, op), `collections` (id, sync_cursor_usn, last_sync_time) | | |
| upload-all, cancel | none | answer `Unimplemented` | a handshake may still create an upload-all session |
| OAuth (`oauth`) | authorization codes and access tokens in Redis | authorize, exchange, revoke, look up | sync interceptor, SSO |
| client lookup (`oauth/client_store.go`) | rows of `oauth_clients`, copies of them in Redis with a TTL of 10 minutes that every read renews | GETEX, SELECT, SET, DEL of an unreadable text | authorize, revoke |
| API callers (`sync/interceptor`, `apps/enlangmemo`) | the user in a request's context | look the token up on entry, act for its user | OAuth tokens; the sync handlers run behind it |
| process (`cmd/server`, `serverapp`, `server`, `infra`, `sql/pull_stmt_cache.go`) | listener, database, prepared statements, running handlers | listen, connect, prepare, serve, drain, close, exit; recover panics | net/http, every handler |
| accounts, SSO (`auth`, `server/session/sso`) | users in MySQL, SSO sessions in Redis | register, login, logout | OAuth |
| request logging, tracing, JSON, validation, config, web | none of the protocol | | |

A sync is: handshake -> pulls -> pushes -> finish_push -> finish. Every entity row
carries a **USN**, assigned from the collection's cursor when the row is pushed;
a device keeps the cursor up to which it has everything, and pulls the rows at
or above it.

What is hard here: handlers are goroutines whose steps interleave and that take
no lock besides the session; the session can expire under a running handler;
requests are lost, late and repeated; a push moves the Redis session first and
MySQL later, and either may fail; a pull pages through seven tables with one
cursor. `PROJECT.json` lists these hazards at their lines.

What makes it correct:

* the session is a lock: one sync at a time, one batch at a time in a sync;
* every batch commits once, and no two batches share USNs;
* the cursor only grows and is above every row's USN;
* a device has every row below its cursor;
* `sync_units`, which decides what is pulled, agrees with the tables;
* collections of different devices are not mixed;
* every request is answered, and a device that keeps syncing catches up;
* an authorization code buys one token, for the user, client, redirect URI and
  verifier it was issued to, and whatever acts for a user goes back to a sign-in with the user's
  password;
* a response of a pull is filled, bounded and in order, and a type that was
  pulled is complete from where it began;
* a request acts for one user, whatever happens to its token;
* a cached client is never another client's, and a change is seen in the end;
* a signal ends the process without losing a request that it handles.

## 2. The modules

| module | what it is |
|---|---|
| `SyncSession` | the session and its Lua scripts, each as the code it returns and the session it leaves |
| `SyncServer` | the handlers over session and tables, the devices, the specification, the properties |
| `UsnLog` | the abstract specification: a lock and a log of USN ranges |
| `SyncInv` | the inductive invariants, and the refinement mapping to `UsnLog` |
| `MCSync` | constants and symmetry sets for TLC |
| `SyncProtocolProofs` | proofs under any timing: types, units, the protocol |
| `SyncCursorProofs` | proofs about cursor, lock and log; it extends the former |
| `SyncDataProofs` | proofs about what the devices have; it extends the former |
| `Auth` | accounts, SSO sessions, authorization codes, access tokens: handlers, specification, properties, inductive invariants |
| `MCAuth` | constants and symmetry for TLC |
| `AuthProofs` | proofs |
| `PullBatch`, `MCPullBatch` | one pull row by row: the loop of `GetChangesSinceUSN`, the seven collectors, limits in rows and in bytes, the responses |
| `PullPages` | the abstract specification of a pull: any pages, any cuts; `PullBatch` extends it with the detail and implements it |
| `PullProofs` | proofs about `PullPages`, `PullBatch` and the refinement |
| `Access`, `MCAccess`, `AccessProofs` | the API callers, composed with `Auth` (which it extends) |
| `ClientCache`, `MCClientCache`, `ClientCacheProofs` | the lookup of OAuth clients through the cache |
| `ServerLife`, `MCServerLife`, `ServerLifeProofs` | the process from start to exit |

The sync service and the authorization server share no state; the interceptor
is where they meet. `Access` composes it with `Auth`: the many steps of a sync
handler are `SyncStep` there, a touch of some user's data, and what the steps
are is `SyncServer`, for one user. `PullBatch` is the same loop as `PullQuery` of
`SyncServer` in finer steps, without the session and the other devices; the lock
(`HandlersHoldLock`) is why rows do not change under it.

### State

`session` is the Redis hash (`NoSession` when the key is gone). `rows`, `units`,
`cursor`, `colId`, `lastSync` are the tables of the user; USN 0 stands for "no
row". `hsk`, `pull`, `push`, `fin` are the goroutines that are between two steps,
with their local variables. `dev` is what the devices know. `nextSid` stands for
the random session ids, which are never reused; `landed` is a history variable
with the USN range of every committed batch.

### Actions

Each handler is cut where another goroutine can intervene: at every script and
every SQL statement whose result others can change.

| handler | actions |
|---|---|
| Handshake | `HskRead` (collection row and status), `HskQueue`, `HskCreate` |
| Pull | `PullClaim`, `PullQuery` (one iteration of `GetChangesSinceUSN`), `PullSave` |
| Push | `PushClaim`, `PushUpsert`, `PushDelete` (one change each), `PushCommit`; `FinishPush` |
| FinishSync | `FinCheck`, `FinUpdateTime`, `FinRelease` |
| TTL | `Expire` |
| failures | `HskFail`, `PullFail`, `PushFail`, `FinFail` |
| devices (external) | `StartSync`, `SendPull`, `SendPush`, `SendFinishPush`, `SendFinishSync`, `GiveUp` |

A failing step ends its handler with an error; a script that ran but whose
answer was lost is the script's step followed by the failure. A crash of the
server is the failure of all its handlers. A device that gets an error, or stops
waiting, abandons its session and starts over with a handshake; its last request
may still arrive, and arrive again. This behaviour of the client is not in this
repository; `FinishOnlyAfterCommit` depends on it (a client that went on after a
failed push could finish with a gap in the USNs).

### The authorization server

`users` is the table, with a password where the row has its bcrypt hash; a user
is identified with the login, which is unique. `sso`, `codes`, `tokens` are the
three kinds of Redis keys; `signIn`, `authz`, `exch` are the handlers that are
about to store one. `granted` and `issued` are history: the codes stored and the
tokens answered; a code's `n` is its place in `granted`, and `by` is the password
presented at the sign-in a value goes back to.

| handler | actions |
|---|---|
| register, login | `Register` (the INSERT) or `Login` (the SELECT and the comparison), then `CreateSso` |
| logout | `Logout` |
| authorize | `Authorize` (SSO lookup and validation), then `StoreCode` |
| exchangeToken | `Exchange` (GETDEL and the checks), then `StoreToken` |
| revoke | `Revoke` |
| TTLs, failures | `SsoExpire`, `CodeExpire`, `TokenExpire`; `SignInFail`, `AuthzFail`, `ExchFail` |

`StoreCode` and `StoreToken` are one attempt of the same loop: SETNX under a random
id, another id after a collision, an error after `MaxAttempts`. `CreateSso` is
written as such a loop too, but ends after its first attempt: the store has no log
in this program, and a collision panics (see the observations).
The generator may return any id of `Ids`, also one that is or was in use, so the
properties do not rest on ids being unique. go-redis sends a command again when
the answer was lost: a SETNX may store its key and report a collision
(`SetNXReplies`; the constant `LostReplies` switches this), a GETDEL may delete its
key and report that there was none (the second case of `Exchange`). The form of an
exchange stays with the token it was answered (`form`), so that each of the three
comparisons of `invalidCodeBinding` shows in `TokenAnswersGrant`. Requests carry any
parameters; those that are refused without changing a store are no actions. A `client_id` is the string that was
presented: `uuid.Parse` accepts several spellings of one id, and codes and tokens
keep the spelling. `S256` stands for SHA-256 and base64; nothing is assumed of it.
The cache of clients is left out here: as long as no row changes it is invisible,
which is what `ClientCache` shows.

### The pull, row by row

`PullBatch` starts with any set of rows of `Databases`. `ClaimBatch` begins a
response with a new collector at the session's cursor; `QueryRows` is one SELECT
with LIMIT + 1; each `Add...Changes` is one turn of a collector's loop: no row left,
at the limit, full, or one more row of the type's size; `QueryDone` is the rest of
the loop in `GetChangesSinceUSN`; `SaveProgress` answers. The sizes are the
constants of the collectors: a sum of fixed fields and the length of the texts
(`text`), 33 for a deleted row. The collection has no row limit, as in the code,
where the check is commented out. An empty queue is answered by one empty batch.

`PullPages` forgets limits, sizes and the order of reading: a page is any non-empty
prefix of what a query finds, a response may end after any page. `from` is history:
the cursor with which each type was first queried. The finding of section 3 stays
visible in it (`Cut` moves `start`); what it promises is what is left: a type is
complete from `from` on, and as long as no response was cut inside a type, the
whole pull is. `PullBatch` has the variables of `PullPages` among its own, so the
refinement mapping is the identity and `ImplementsPages` is `PagesSpec` itself.

### The API callers

`Admit` is the lookup of the interceptor and of `me`: from then on the request has
its user in the context. `AuthStep` is any step of `Auth`: in it the token may be
revoked, expire, and its id be given to another token. A refused request changes
nothing and is no action.

### The client cache

`GetCached`, `DeleteCached`, `SelectClient`, `CacheClientInfo` are the Redis and MySQL
calls of `GetClientInfo`; any of them may fail. Initially the cache may hold texts
that do not parse (an older version's). No code of the repository changes a
client: `ChangeRow` is the operator, external, and shows what the cache would make
of it. `CacheExpire` may happen at any time, which covers both the TTL and an
eviction. Two `client_id` strings may spell one row; each has its own key. A text
that parses but holds another client, or none, would be a hit; the server writes no
such text, and none is among the initial ones. The run has one client under two
spellings; two clients are within the theorem, which is for any rows.

### The process

`phase` is where `main` is; the accept loop (`accepting`, `errCh`) and the handlers
(`req`) run beside it. `net/http` is external: `StopAccepting` and `Idle` are what
`Shutdown` does. A panic while starting unwinds through the deferred `db.Close`
once that is deferred. A panic in a handler is two steps, `HandlerPanics` and the
deferred `Recover`, and `Shutdown` waits for the second as well. A handler that finds the stores closed becomes `broken`;
one that the process does not wait for, `lost`.

### Abstractions

* One user: all keys and all rows are per user, and users share nothing.
* Payloads are left out; a row is its USN and its deletion flag. In `SyncServer` a
  row has size 1 in a response, so `MaxBatchSize` and `Limit` are numbers of rows;
  `PullBatch` counts bytes and rows as the code does.
* Entity ids are globally unique. The primary key of `sync_units` is the user and the
  entity, and a collection is an entity there: `units` has one entry for the user's
  collection. With stale handshakes two collections created offline could leave two
  rows, which the model does not tell apart; with fresh ones the second collection
  is refused (`OneCollection`).
* The queue of types is a set: it is created in ascending order and loses its
  head only.
* A change in a push is chosen when it is applied; the device learns the USNs of
  the whole batch from the answer, as in the code.
* InnoDB row locks: a row written by an open transaction is not written by
  another (`Unlocked`); a deadlock is one of the failures.
* `last_sync_time` is the id of the session that wrote it.
* What a device does with a row it has changed itself (conflicts) is the
  client's business and not modelled.

### Constants and bounds

`MaxUsn`, `MaxSid`, `MaxChanges` bound the pushes, the syncs and the size of a
batch; they guard device actions only. `Faults` switches failures, clock skew,
late and repeated requests and giving up. Two more constants say what the
environment may do, because the code depends on it:

* `SlowHandlers`: may the 60 s TTL elapse under a running handler? The code
  assumes not and does not check.
* `StaleHandshake`: may a session that has committed end between the read and
  the create of a handshake? Again the code does not check.

With both FALSE the service keeps all its promises; each of them alone breaks
some (`late_commit`, `stale_handshake`). The theorems of section 4 say which of
the two they assume; `ProtocolInv` and what follows from it assume neither.

## 3. The runs

| run | instance | shows |
|---|---|---|
| `any_timing` | 1 device, 2 goroutines per handler, 2 entities, 2 sessions, slow handlers, stale handshakes, faults | a batch runs and commits at most once, ranges of a session are disjoint, `sync_units` agrees, a late FinishSync releases no other session's lock, a sync is recorded only when it is over; `ProtocolInv` |
| `two_devices` | 2 devices of one collection, 3 sessions, 1 goroutine per handler, faults, prompt handlers | the session is a lock, USNs unique, reserved ranges, nothing missed, a sync finishes only after its pushes committed; refinement of `UsnLog` |
| `paging` | every order of 4 USNs, one row per response, only the last type has two rows | no row missed, no query of a queued type comes back empty, the device catches up |
| `answered` | 3 devices, one of which created its own collection, 2 goroutines, no faults, prompt handlers | every request is answered, collections are not mixed |
| `codes` | 2 goroutines per handler, 2 ids, 2 verifiers, 2 redirect URIs, 3 `client_id` strings, 2 codes, faults, lost replies | one token per code, for its user, client, redirect URI and verifier |
| `callers` | 2 users, 2 passwords, 2 spellings of a client, 1 id that repeats, 2 codes, 2 requests at a time, faults | a request acts for the user of its grant, who signed in; a grant whose token ended lets nobody in; live keys are not replaced; a handler that never finds a free id ends |
| `client_lookups` | 2 spellings of a client and a malformed id, 2 goroutines, 1 change, faults | answers from the client's own row, misses current; an entry that keeps expiring becomes current for good |
| `pull_responses` | every spread of 5 USNs over the 7 types, and no row at all; queries of 1 or 2 rows, responses filled by 1 to 4 rows, faults | responses filled, rows in order and once; a type is complete from its first cursor, only a cut makes a pull omit rows or fail; refinement of `PullPages` |
| `shutdown` | 3 clients, 2 statements, every call may fail and every handler panic | no request lost, nothing left open, a signal ends the process |
| `pull_skips` (violation) | two types with two rows each, one row per response | rows are skipped |
| `stale_handshake` (violation) | 2 devices, handshake overtaken by a whole sync | USNs assigned twice |
| `late_commit` (violation) | 2 devices, a push that outlives its session | equal cursors, different data |

The inductive invariants that are proved (section 4) were model-checked in the
runs' instances before they were proved (`CursorInv`, `SyncedInv`, `FoundInv` and
`CutInv` in `two_devices` and `paging`); of them only `ProtocolInv` is kept in the
runs. What `CursorInv` is for is checked by name: `HandlersHoldLock`, `UsnsUnique`,
`ReservedForOneBatch` and `FinishOnlyAfterCommit` are among its conjuncts, and
`ImplementsLog` says that the cursor never goes back. `AccessTypeOK` contains
`AuthTypeOK`, `PullTypeOK` contains `PagesTypeOK`; a wrong user anywhere on the way
from a sign-in to a token would show in `CallersSignedIn`.

Why the bounds are enough: two sessions are what it takes for a late step of one
to meet the other; two devices for one to overtake the other; a batch of two
changes for a range to overlap in part and for a delete to follow an upsert of
the same row (`any_timing`); two goroutines per handler for a request to run
twice (`any_timing`; `two_devices` has one each, but requests still repeat one
after the other). In `two_devices` a response has room for more rows than there
are entities; in `answered` no type has two; in `paging` every response is cut, inside
a type only if that is the last. All three are instances of `OnlyLastTypeLarge` (section 4);
`pull_skips` is the smallest one that is not, with two types of two rows. The orders
of USNs are enumerated completely, because what a pull sends depends on how the
USNs of the types interleave. In `pull_responses` the sizes are the code's own and
the texts and the capacity are chosen so that responses end below, at and above
it. In `callers` a single id makes a token's id be given again to another user's
token. Three clients leave one running, one waiting and one sending when the
process drains.

`paging`, `answered` and `pull_skips` say `CHECK_DEADLOCK FALSE`: without faults
and with a bounded number of syncs the devices have nothing left to do. So do
`pull_responses`, where a pull ends, and `shutdown`, where the process does.

**Fairness.** `FairSpec` gives weak fairness to each device (it wants to sync),
to the arrival of each request, to each goroutine (the Go scheduler and the
stores make progress) and to the TTL (Redis expires keys). It is used without
`Faults`: nothing can be promised about a request that the network loses.
`AuthFairness`, in `AccessFairSpec`, gives weak fairness to the three steps that
store a key (with one goroutine each: `MaxCodes`, which bounds the history, could
hold up a second one that is about to store its code),
`CacheFairSpec` to the steps of a lookup (with faults: a lookup that fails has
ended), `LifeFairSpec` to `main` and to each handler. The last assumes that every
handler ends, which `Shutdown` needs: it is called without a time limit.
`ForgottenOnceExpired` assumes of the TTL only what it says, that the entry keeps
expiring; under lookups that keep coming it need not.

In the runs of `Auth` and `Access` two attempts stand for the code's three: what
matters is that there is a second attempt and a last one. Two goroutines and two
ids are what it takes for two exchanges to present one code and for a key to
collide or to be used again.

### Findings

1. **A pull skips rows** (`pull_skips`). After the last page of a type the code
   resets the cursor to the one *this response* began with
   (`pull_change_store.go:102,110`). If that response continued a type which an
   earlier one had cut, the cursor is in the middle, and the following types
   lose everything below it. The comment at `session/sync_session.go:32` says
   the cursor is reset to the client's cursor at the handshake. With the same
   cause a query may find nothing at all: then the pull fails with the error that
   `pull_change_store.go:91` says "in theory cannot happen", and fails again at the
   next sync, which meets the same rows. `FailsOnlyAfterCut` shows that this is the
   only way to it.
2. **A stale handshake** (`stale_handshake`): `handshake.go:39` reads the cursor
   before line 163 takes the lock.
3. **A late commit** (`late_commit`): nothing fences a push whose session has
   expired.

### Observations

Met while modelling; they contradict no statement a run could be held against, or
lie outside the models.

* Two executions of one FinishSync, or a late one of an older session, may write
  `last_sync_time` in either order, so the older time may stay. Nothing reads it to
  decide anything.
* A SETNX whose answer was lost leaves a second token behind that was answered to
  nobody, and lets requests in after the first one was revoked;
  `EndedGrantStaysOut` is therefore checked without such losses
  (`LostReplies = FALSE`), though with every other fault.
* A revocation with another spelling of the `client_id` than the token's is
  answered 200 and leaves the token.
* When the accept loop fails, `Serve` returns and closes the database under
  running handlers (`NoRequestLost` excludes this case), and does not close the
  statements. When `Shutdown` returns an error, the statements stay to
  `db.Close` as well.
* `server.go:41` builds `RedisSSOStore` without its `log`, a nil interface. The first
  collision of an SSO session's id panics at the warning (`sso_store.go:51`) instead of
  trying another id, so the loop of three attempts never goes round, and the caller
  gets 500 from `PanicRecovery`; a user who was just registered exists and has to
  log in. `CreateSso` follows what runs.
* A handshake may create an upload-all session (`handshake.go`), whose requests are
  not implemented: it holds the user's lock until the TTL ends it. It needs a device
  whose cursor is above the server's, which the third finding can leave behind.
* `extractExchangeForm` returns after a failing `ParseForm` without an answer.

## 4. The proofs

### The sync service under any timing

The theorems of `SyncProtocolProofs` are about `Spec` under any timing, with any sets
of devices, goroutines and entities and any bounds, from the named assumptions on the
constants only (`DevicesAssumption`, `EntitiesAssumption`,
`CollectionsAssumption`, `InitRowsAssumption`, `BoundsAssumption`).

* `TypeCorrect`: `Spec => []TypeOK`.
* `UnitsAgree`: `Spec => []UnitsMatchRows`. Inductive with
  `TxUnitsMatch`: the writes of an open transaction agree with one another.
* `ProtocolCorrect`: `Spec => []ProtocolInv`, and from it
  `OneBatch` (`[]OneBatchInFlight`) and `BatchesDisjoint`
  (`[]BatchesOfASessionDisjoint`).

Why `ProtocolInv` is needed: that a repeated request is refused depends on what
its device has done since. The invariant says that

* session ids are handed out once and known to one device (`SidsHandedOut`,
  `SidsPrivate`);
* while a handler works, its device waits for it or has left the session for
  good (`RequestsInService`), so nothing else can move the session meanwhile;
* a session in use is as the claim of its handler left it
  (`HandlersFitSession`), otherwise as its device believes
  (`SessionFollowsDevice`), and the device's last request is one that the
  session would refuse (`Outdated`);
* what a session has committed lies below what it hands out next
  (`LandedInSession`).

The proof has one lemma per action. `ProtocolFrame` covers the steps in which
devices at most give up and handlers at most retire, `ProtocolSessionEnds` the
end of a session, `ClaimIsFirst` is the heart: a claim succeeds only for a
request that its device waits for and that nobody serves, and
`AnsweredWithoutSession` covers the answers that move a device on.

Two more results of this kind are in `SyncCursorProofs`. `RecordedIsOver`
(`[]RecordedSyncIsOver`) needs `RecordedInv`: a FinishSync has its session to itself
(`FinishAlone`), and the sync whose time is recorded has asked for nothing after
its FinishSync (`RecordedDevicesOver`). `ReleasedByHolder` (`LockReleasedByHolder`)
is an action property: the delete script compares session ids, and ids are private.

### Cursor, lock and log

The rest of `SyncCursorProofs` assumes `~SlowHandlers` and `~StaleHandshake`, and
nothing else: the runs `late_commit` and `stale_handshake` show that neither can be
dropped. `CursorCorrect` (`[]CursorInv`) is the induction; `LockHeld`, `UsnsOrdered`,
`ReservedOnce`, `FinishAfterCommit` and `CollectionsKeptApart` are its conjuncts.
None of these is inductive alone: that USNs are unique needs that a batch in flight
starts at or above the server's cursor (`PushAboveCursor`) and assigns USNs within
its range (`TxUsnsOK`); that needs the session's cursor to be the server's in the
states from which a push may start (`SessionCursorOK`), and that needs the same of a
handshake that is about to create a session (`HandshakeCursorOK`).
`UncommittedHeldBack` is why a sync does not finish over a gap: while USNs
that were handed out are not committed, the device that pushed them waits or has
left. `HandshakeSawCollection` carries the comparison of collections from the read
of the handshake to the session.

`LogImplemented` (`Spec => ImplementsLog`) is a step simulation: `HskCreate` is
`Acquire`, `FinRelease` and `Expire` are `Release`, `PushCommit` is `Append`, every
other step stutters. The range of a batch lies at or above the end of the log by
`PushAboveCursor`, and its session still holds the lock by `HandlersHoldLock`.

### What the devices have

`SyncDataProofs`, under the same two hypotheses:

* `NothingMissed`: `Spec /\ []PullsCutBetweenTypes => []NothingMissedBelowCursor`.
  The third hypothesis is about the behaviour: when a response has moved the
  session's pull cursor, only the type it is in the middle of is left. This is what
  finding 1 violates, so the theorem says that the finding is the only way to lose
  a row. It holds in `paging`, and in every pull that no response cuts inside a type.
* `EqualCursorsEqualData`: then a device whose cursor equals the server's has all
  that the server has, which is what lets a handshake skip the pull.
* `PullsFind`: `Spec /\ []PullsCutBetweenTypes => []PullsFindRows`. A pull never asks
  for a type that has no rows left, the error of which `pull_change_store.go:90` says
  that it cannot happen in theory. Under finding 1 it does happen.
* `CutsOnlyInLastType`: `Spec => []PullsCutBetweenTypes` for every collection with
  `OnlyLastTypeLarge`, a condition on the entities alone: of each type that is not
  the last there is one entity, or all entities up to that type are fewer than
  `MaxBatchSize` (rows have size 1 in `SyncServer`). The last type may be as large as it
  likes; in the code that is the review log. Hence, with no hypothesis about the
  behaviour left, `LargeLastTypeSynced` (`[]NothingMissedBelowCursor`) and
  `LargeLastTypePulled` (`[]PullsFindRows`), and as the simplest case
  `SmallCollectionsSynced`, where the whole collection is smaller than a response.

`SyncedInv` follows a row from the tables to a device. A handshake queues every type
with a row to pull (`HandshakePlanOK`); the device of a pulling session has what the
session's queue and cursor have gone beyond (`PullSessionOK`), and what a handler
has gone beyond is in its response or at the device already (`PullHandlersOK`); a
device that may push has everything (`PusherUpToDate`), so the cursor it gets after
a push promises nothing it has not; no device is ahead of the server
(`DeviceCursorOK`). The queries are the hard step: `QueriedFits` and
`PullQueryTakes` show that a query takes the lowest rows of its type first.

`FoundInv` says the converse, that there is something to take: every type in a queue
has a row in the range, the type being pulled one from the cursor on
(`AllFound`). It starts from `sync_units` (`QueueFound`, by `UnitsMatchRows`). A query that
leaves rows behind leaves some at or above its cursor, because USNs are unique
(`QueriedFinds`). When a response saves its progress all other types get its cursor
(`SavedFinds`): the step that needs `PullsCutBetweenTypes` also of the new session.

`CutInv` is where a response is cut. Its size is the number of distinct rows in it
(`CountsRows`), they are of types up to the head of its queue, and it is in the middle
of a type only if that has several entities (`CutFits`). A full response in the middle
of a type that is not the last would hold `MaxBatchSize` rows of types that have
fewer entities (`FullCutLast`); that a type is the last of its queue needs `FoundInv`,
for a queue could otherwise name a type without entities. So the three are inductive
together (`LargeLastTypeInv`). Most actions touch nothing of this: `StepKinds` sorts
them into those that are `Quiet` and the four that the lemmas go through.

### Accounts, tokens and callers

The theorems of `AuthProofs` are about `AuthSpec`, from `NoneAssumption`,
`ClientsAssumption` and `AuthBoundsAssumption`:

* `AuthTypeCorrect`: `AuthSpec => []AuthTypeOK`.
* `CodesConsumedOnce`: `AuthSpec => []CodeInv`. `OneTokenPerCode` alone is not
  inductive: it says nothing of tokens not yet answered. `CodeInv` follows the
  number of a code from its key through one exchange to one answer and says that
  it is never in two of these places; each of them agrees with `granted`.
  `OneToken` and `TokenOfGrant` follow.
* `SignedIn`: `AuthSpec => []UserSignedIn`, inductive with the handlers added
  (`UserInv`); the step that matters is `Register`, where the unique key keeps
  the password of an existing row.
* `KeysKept`: `AuthSpec => KeysNeverReplaced`, an action property.

`AccessProofs` (from `CallsAssumption` and those of `Auth`) reuses the invariants of
`AuthProofs`, since every step of `Access` is a step of `Auth` or leaves its
variables alone. `CallsActForGrant` needs `AccessInv`: tokens, admitted requests
and touches all agree with `granted`, and `CodeInv` for a token that is about to
be stored. `CallsSignedIn` follows from `UserInv`. `EndedGrantsStayOut`
(`EndedGrantStaysOut`) assumes `~LostReplies` (see the observations): then a token is
stored exactly when it is answered. `EndedInv` says that the number of a grant is at
one token at most, which was answered, and after that at none; that an exchange
never has the number of an answered token is `CodeInv`.

### Client cache, pull and process

`ClientCacheProofs` (from `ClientCacheAssumption`): `CacheTypeCorrect`,
`CacheInvariant`, hence `AnswersOwnRow` and `MissesCurrent`. The two alone are not
inductive; `CacheInv` adds what is cached and what running lookups carry.

`PullProofs` first proves `PullPages` (from `PullPagesAssumption`, for any set of rows,
also an infinite one): `PagesTypeCorrect`, `PagesCorrect` (`[]PagesInv`), hence
`TypesComplete` and `UncutPullsComplete`. `PagesInv` says of the type being pulled
that everything between its first cursor and the current one is collected and that
rows are left; of the types after it that they are untouched. The page that ends a
type and the one that does not have a lemma each.

Then `PullBatch` (from `PullBatchAssumption`: finite databases, a USN is given once, one
collection per user; any limits and any capacity above 0):

* `BatchCorrect` (`[](PullTypeOK /\ BatchInv)`), hence `PullTypeCorrect` and
  `ChangesInOrder` (`[]SentInOrder`). `QueryInv` says that a collector has taken the
  first rows of its query, in order, and how many; `HandlerInv` that all that was
  ever added is behind the queue and the cursor. The row that a collector reads next
  is the one with the least USN, which exists by well-foundedness of the naturals.
* `PagesImplemented` (`PullSpec => ImplementsPages`), a step simulation: the end of a
  query is a page or finds nothing, a claimed batch is a cut, a fault an error, the
  rows in between stutter. The lemma it rests on is that of LIMIT + 1: a query that
  stops at its limit has left a row of its type behind, and one that runs out of
  rows has left none. `ProgramTypesComplete` and `ProgramUncutPullsComplete` carry the
  theorems of `PullPages` over to the rows.
* `ResponsesWellFilled` (`[]ResponsesFilled`), by `FillInv`: the collector's `size` is
  the sum of the sizes of its rows, and only the last row of a response reaches the
  capacity. The sum is the recursive function `Totals`; that it exists, is unique and
  grows by one row's size with `Append` is proved by least counterexample
  (`TotalsUnique`, `TotalsChosen`, `TotalsAppend`).

`ServerLifeProofs` (from `ServerLifeAssumption`): `LifeTypeCorrect`, `LifeInvariant`,
hence `ShutdownLosesNothing` and `ExitLeavesNothingOpen`. `LifeInv` says what is
open in which phase and that no handler runs once the server has drained.

**Only model-checked:** liveness (`DeviceCatchesUp`, `EveryRequestAnswered`,
`KeyHandlersEnd`, `ForgottenOnceExpired`, `SignalExits`), which is beyond the prover.
Every safety property of a passing run is a theorem. `NothingMissedBelowCursor` and
`PullsFindRows` need a hypothesis on the collection or on the behaviour, as finding 1
shows.

## 5. Not modelled, and why

* The validation of logins, passwords and request parameters, and the error
  responses: they decide what is refused, not what a step does.
* `upload_all.go`, `cancel.go`: they answer `Unimplemented`. The session that an
  UPLOAD_ALL handshake creates is modelled: it holds the lock until its TTL.
* Retries inside the Redis client: a script that is run twice by the client
  library reports a mismatch the second time, which is the step followed by an
  error.
* Sync handlers of several users in one model: all keys and rows are per user, so
  `Access` keeps of a handler only whose data it touches.
* Web client, request logging and tracing, JSON, configuration: no state of the
  protocol.
* Integer widths: USNs are 64-bit, one per pushed change.

## 6. Plan

1. *(done)* session, server, abstract log; runs; findings; types, units and
   protocol proved. `Auth`: accounts, SSO, codes, tokens; proved.
2. *(done)* the API callers over `Auth`, the client cache, the pull row by row and
   its abstract specification, the process; their invariants proved.
3. *(done)* proofs under prompt handlers and fresh handshakes: `CursorInv`, the lock,
   the USNs, the refinement of `UsnLog`, what the devices have. Under any timing:
   `LockReleasedByHolder`, `RecordedSyncIsOver`.
4. *(done)* proofs of `PullBatch`: order, size, the refinement of `PullPages`; of
   `EndedGrantStaysOut`.
5. *(done)* the collections for which `PullsCutBetweenTypes` holds by itself, and that
   their pulls find what the handshake queued.
6. Left: rows of different sizes in `OnlyLastTypeLarge` (`PullBatch` has the code's
   sizes, without the sessions); what a lost answer of a SETNX leaves of
   `EndedGrantStaysOut` (at most `MaxAttempts` tokens of one grant).
