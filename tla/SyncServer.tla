----------------------------- MODULE SyncServer -----------------------------
(***************************************************************************)
(* The sync service of one user: the RPC handlers Handshake, Pull, Push    *)
(* and FinishSync running as goroutines over two stores, the Redis session *)
(* (SyncSession) and the user's rows in MySQL, with the user's devices as  *)
(* their callers.                                                          *)
(*                                                                         *)
(* A handler is a sequence of atomic steps, one per script it runs and one *)
(* per SQL statement whose result another goroutine could have changed.    *)
(* Between two of its steps anything may happen: other handlers run, the   *)
(* session's TTL elapses, the caller gives up, the request arrives again.  *)
(*                                                                         *)
(* A failing store call (MySQL or Redis down, a cancelled context, a crash *)
(* of the server) ends a handler between two steps (the actions ...Fail).  *)
(* A call that took effect but whose answer was lost is that call followed *)
(* by the caller giving up, so it needs no action of its own.              *)
(***************************************************************************)
EXTENDS SyncSession

CONSTANTS
    Devices,        \* the devices of the user
    NoDevice,       \* "no device": marks an idle goroutine
    Procs,          \* goroutines available to each handler
    Entities,       \* entity ids (globally unique, as sync_units requires)
    TypeOf,         \* the entity type of each entity id
    Col,            \* the collection entity: its row holds sync_cursor_usn
    CollectionIds,  \* collection ids that devices may have created
    NoCollectionId, \* the id a handshake reads when there is no collection row
    CollectionOf,   \* the collection id each device has
    InitRows,       \* what earlier syncs may have left in the entity tables
    MaxBatchSize,   \* capacity of a pull response, in rows
    Limit,          \* rows of one query
    MaxChanges,     \* bound: changes in one push batch
    MaxUsn,         \* bound: no push beyond this USN
    MaxSid,         \* bound: sessions created
    SlowHandlers,   \* may the TTL elapse under a running handler?
    StaleHandshake, \* may a session end between a handshake's read and create?
    Faults          \* may stores fail, clocks differ, requests arrive late or
                    \* twice, and devices give up?

ASSUME DevicesAssumption == NoDevice \notin Devices

ASSUME EntitiesAssumption ==
    /\ IsFiniteSet(Entities)
    /\ TypeOf \in [Entities -> Types]
    /\ Col \in Entities
    /\ \A e \in Entities : TypeOf[e] = 1 <=> e = Col

ASSUME CollectionsAssumption ==
    /\ CollectionOf \in [Devices -> CollectionIds]
    /\ NoCollectionId \notin CollectionIds

ASSUME InitRowsAssumption ==
    /\ InitRows \subseteq [Entities -> [usn: Nat, del: BOOLEAN]]
    /\ \A r \in InitRows : \A e, f \in Entities :
          r[e].usn # 0 => /\ r[Col].usn # 0
                          /\ e # f => r[e].usn # r[f].usn

ASSUME BoundsAssumption ==
    /\ MaxBatchSize \in Nat \ {0}
    /\ Limit \in Nat \ {0}
    /\ MaxChanges \in Nat \ {0}
    /\ MaxUsn \in Nat
    /\ MaxSid \in Nat

ASSUME TimingAssumption ==
    /\ SlowHandlers \in BOOLEAN
    /\ StaleHandshake \in BOOLEAN
    /\ Faults \in BOOLEAN

VARIABLES
    session,   \* the Redis hash sync:{userID}:sync_lock
    nextSid,   \* the next session id
    rows,      \* the entity tables: usn and is_deleted of each entity's row
    units,     \* the sync_units table: usn and op of each entity
    cursor,    \* collections.sync_cursor_usn
    colId,     \* collections.id
    lastSync,  \* collections.last_sync_time, as the session that wrote it
    hsk,       \* Handshake handlers between two steps
    pull,      \* Pull handlers between two steps
    push,      \* Push handlers between two steps
    fin,       \* FinishSync handlers between two steps
    dev,       \* the devices (external: callers of the service)
    landed     \* history: the USN range of every committed push batch

dbVars  == <<rows, units, cursor, colId, lastSync>>
hdlVars == <<hsk, pull, push, fin>>
vars    == <<session, nextSid, dbVars, hdlVars, dev, landed>>

-----------------------------------------------------------------------------
(* Data.  usn 0 stands for "no row": USNs start at 1. *)
NoRow  == [usn |-> 0, del |-> FALSE]
Row    == [usn: Nat, del: BOOLEAN]
NoUnit == [usn |-> 0, op |-> "none"]
Unit   == [usn: Nat, op: {"none", "upsert", "delete"}]

NoRows  == [e \in Entities |-> NoRow]
NoUnits == [e \in Entities |-> NoUnit]

Exists(row) == row.usn # 0

(* The rows of new where it has one, those of old elsewhere. *)
Overlay(old, new) ==
    [e \in Entities |-> IF new[e].usn # 0 THEN new[e] ELSE old[e]]

RequestTypes == {"none", "handshake", "pull", "push", "finishPush", "finishSync"}

Request == [type: RequestTypes, sid: Nat, seq: Nat, n: Nat,
            cli: Nat, local: BOOLEAN]

NoRequest == [type |-> "none", sid |-> NoSid, seq |-> 0, n |-> 0,
              cli |-> 0, local |-> FALSE]

SessionRequest(type, sid, seq, n) ==
    [type |-> type, sid |-> sid, seq |-> seq, n |-> n, cli |-> 0, local |-> FALSE]

(* Goroutines.  A handler that is between two steps has a device. *)
DeviceOrNone == Devices \union {NoDevice}

HskProc == [dev: DeviceOrNone, req: Request, srv: Nat, state: SessionStates,
            cursor: Nat, queue: SUBSET Types, queued: BOOLEAN]
IdleHsk == [dev |-> NoDevice, req |-> NoRequest, srv |-> 0,
            state |-> "Unspecified", cursor |-> 0, queue |-> {}, queued |-> FALSE]

PullProc == [dev: DeviceOrNone, req: Request, start: Nat, cur: Nat, end: Nat,
             queue: SUBSET Types, got: [Entities -> Row], size: Nat,
             done: BOOLEAN]
IdlePull == [dev |-> NoDevice, req |-> NoRequest, start |-> 0, cur |-> 0,
             end |-> 0, queue |-> {}, got |-> NoRows, size |-> 0, done |-> FALSE]

PushProc == [dev: DeviceOrNone, req: Request, start: Nat, i: Nat,
             txRows: [Entities -> Row], txUnits: [Entities -> Unit]]
IdlePush == [dev |-> NoDevice, req |-> NoRequest, start |-> 0, i |-> 0,
             txRows |-> NoRows, txUnits |-> NoUnits]

FinProc == [dev: DeviceOrNone, req: Request, stamped: BOOLEAN]
IdleFin == [dev |-> NoDevice, req |-> NoRequest, stamped |-> FALSE]

Busy(p) == p.dev # NoDevice

(* The devices. *)
Phases == {"idle", "pull", "either", "push", "finish"}

Device == [phase: Phases, waiting: BOOLEAN, req: Request, sid: Nat, seq: Nat,
           cursor: Nat, has: [Entities -> Row]]

NewDevice == [phase |-> "idle", waiting |-> FALSE, req |-> NoRequest,
              sid |-> NoSid, seq |-> 0, cursor |-> 1, has |-> NoRows]

Batch == [sid: Nat, seq: Nat, lo: Nat, hi: Nat]

TypeOK ==
    /\ session \in Session
    /\ nextSid \in Nat
    /\ rows \in [Entities -> Row]
    /\ units \in [Entities -> Unit]
    /\ cursor \in Nat
    /\ colId \in CollectionIds \union {NoCollectionId}
    /\ lastSync \in Nat
    /\ hsk \in [Procs -> HskProc]
    /\ pull \in [Procs -> PullProc]
    /\ push \in [Procs -> PushProc]
    /\ fin \in [Procs -> FinProc]
    /\ dev \in [Devices -> Device]
    /\ landed \subseteq Batch

UnitOf(row) ==
    [usn |-> row.usn,
     op |-> IF row.usn = 0 THEN "none" ELSE IF row.del THEN "delete" ELSE "upsert"]

(* No sync is under way, and the devices are new.  The tables may hold what *)
(* other devices pushed before: a user without rows has no collection row.  *)
Init ==
    /\ session = NoSession
    /\ nextSid = 1
    /\ rows \in InitRows
    /\ units = [e \in Entities |-> UnitOf(rows[e])]
    /\ IF Exists(rows[Col])
       THEN /\ cursor \in 1..(MaxUsn + 1)
            /\ \A e \in Entities : rows[e].usn < cursor
            /\ colId \in CollectionIds
       ELSE cursor = 0 /\ colId = NoCollectionId
    /\ lastSync = 0
    /\ hsk = [g \in Procs |-> IdleHsk]
    /\ pull = [g \in Procs |-> IdlePull]
    /\ push = [g \in Procs |-> IdlePush]
    /\ fin = [g \in Procs |-> IdleFin]
    /\ dev = [d \in Devices |-> NewDevice]
    /\ landed = {}

-----------------------------------------------------------------------------
(***************************************************************************)
(* The devices (external).  A device sends one request at a time and waits *)
(* for its answer; after an error, or when it stops waiting, it abandons   *)
(* the session and will start over with a handshake.  Its last request     *)
(* stays in the network: it may arrive late, and more than once.           *)
(***************************************************************************)
Abandoned(dv) ==
    [dv EXCEPT !.phase = "idle", !.waiting = FALSE, !.sid = NoSid, !.seq = 0]

(* The answer to request r reaches its device only while that waits for it. *)
Answer(d, r, dv) ==
    dev' = IF dev[d].waiting /\ dev[d].req = r
           THEN [dev EXCEPT ![d] = dv]
           ELSE dev

AnswerError(d, r) == Answer(d, r, Abandoned(dev[d]))

Send(d, r) ==
    /\ dev' = [dev EXCEPT ![d].req = r, ![d].waiting = TRUE]
    /\ UNCHANGED <<session, nextSid, dbVars, hdlVars, landed>>

StartSync(d) ==
    /\ dev[d].phase = "idle" /\ ~dev[d].waiting
    /\ nextSid <= MaxSid
    /\ \E local \in BOOLEAN :
          Send(d, [NoRequest EXCEPT !.type = "handshake",
                                    !.cli = dev[d].cursor, !.local = local])

SendPull(d) ==
    /\ dev[d].phase = "pull" /\ ~dev[d].waiting
    /\ Send(d, SessionRequest("pull", dev[d].sid, dev[d].seq, 0))

SendPush(d) ==
    /\ dev[d].phase \in {"either", "push"} /\ ~dev[d].waiting
    /\ \E n \in 1..MaxChanges :
          /\ dev[d].cursor + n <= MaxUsn + 1
          /\ Send(d, SessionRequest("push", dev[d].sid, dev[d].seq, n))

SendFinishPush(d) ==
    /\ dev[d].phase = "push" /\ ~dev[d].waiting
    /\ Send(d, SessionRequest("finishPush", dev[d].sid, dev[d].seq, 0))

SendFinishSync(d) ==
    /\ dev[d].phase \in {"either", "finish"} /\ ~dev[d].waiting
    /\ Send(d, SessionRequest("finishSync", dev[d].sid, 0, 0))

GiveUp(d) ==
    /\ Faults
    /\ dev[d].phase # "idle" \/ dev[d].waiting
    /\ dev' = [dev EXCEPT ![d] = Abandoned(dev[d])]
    /\ UNCHANGED <<session, nextSid, dbVars, hdlVars, landed>>

(* A request of the type arrives at the server.  Without faults it arrives  *)
(* once; otherwise it may arrive again, and after its device gave it up.    *)
InHand(d) == \E g \in Procs : \/ hsk[g].dev = d \/ pull[g].dev = d
                              \/ push[g].dev = d \/ fin[g].dev = d

Arrives(d, type) ==
    /\ dev[d].req.type = type
    /\ Faults \/ (dev[d].waiting /\ ~InHand(d))

-----------------------------------------------------------------------------
(***************************************************************************)
(* Handshake: reads the collection row; decides; for a pull reads which    *)
(* types have changes; creates the session.  Three steps, and nothing      *)
(* keeps the collection as it was read until the session exists.           *)
(***************************************************************************)
ServerCursor == IF Exists(rows[Col]) THEN cursor ELSE 1

\* Mutant: the collection's id is not compared.
HandshakeIgnoresId(d, r, timeSkew) ==
    IF timeSkew THEN "TIME_SKEW_TOO_LARGE"
    ELSE IF r.cli = ServerCursor THEN "NO_REMOTE_CHANGES"
    ELSE IF r.cli < ServerCursor THEN "NEED_PULL"
    ELSE "UPLOAD_ALL"

HandshakeStatus(d, r, timeSkew) ==
    IF timeSkew THEN "TIME_SKEW_TOO_LARGE"
    ELSE IF colId # NoCollectionId /\ colId # CollectionOf[d]
         THEN "COLLECTION_ID_MISMATCH"
    ELSE IF r.cli = ServerCursor THEN "NO_REMOTE_CHANGES"
    ELSE IF r.cli < ServerCursor THEN "NEED_PULL"
    ELSE "UPLOAD_ALL"

(* No session for a refused device, nor for one with nothing to do. *)
NeedsSession(status, r) ==
    \/ status \in {"NEED_PULL", "UPLOAD_ALL"}
    \/ status = "NO_REMOTE_CHANGES" /\ r.local

(* The session fields that the status determines. *)
HskSession(d, r, status) ==
    [IdleHsk EXCEPT
        !.dev = d, !.req = r, !.srv = ServerCursor,
        !.state = CASE status = "NEED_PULL" -> "Pulling"
                    [] status = "UPLOAD_ALL" -> "AwaitingUploadAllConfirm"
                    [] OTHER -> "Pushing",
        !.cursor = CASE status = "NEED_PULL" -> r.cli
                     [] status = "UPLOAD_ALL" -> 0
                     [] OTHER -> ServerCursor,
        !.queued = status # "NEED_PULL"]

HskRead(g, d) ==
    LET r == dev[d].req IN
    /\ Arrives(d, "handshake")
    /\ ~Busy(hsk[g])
    /\ \E timeSkew \in {FALSE, Faults} :
         LET status == HandshakeStatus(d, r, timeSkew) IN
         \/ /\ NeedsSession(status, r)
            /\ hsk' = [hsk EXCEPT ![g] = HskSession(d, r, status)]
            /\ UNCHANGED dev
         \/ /\ ~NeedsSession(status, r)
            /\ AnswerError(d, r)
            /\ UNCHANGED hsk
    /\ UNCHANGED <<session, nextSid, dbVars, pull, push, fin, landed>>

(* The types that have a sync unit in the range to pull. *)
PullEntityQueue(lo, hi) ==
    {TypeOf[e] : e \in {x \in Entities : /\ Exists(units[x])
                                         /\ lo <= units[x].usn
                                         /\ units[x].usn < hi}}

HskQueue(g) ==
    LET p == hsk[g] IN
    /\ Busy(p) /\ ~p.queued
    /\ hsk' = [hsk EXCEPT ![g].queued = TRUE,
                          ![g].queue = PullEntityQueue(p.req.cli, p.srv)]
    /\ UNCHANGED <<session, nextSid, dbVars, pull, push, fin, dev, landed>>

(* What the device does with a new session; uploading all is not served. *)
Joined(dv, sid, state) ==
    IF state = "AwaitingUploadAllConfirm" THEN Abandoned(dv)
    ELSE [dv EXCEPT !.phase = IF state = "Pulling" THEN "pull" ELSE "push",
                    !.waiting = FALSE, !.sid = sid, !.seq = 1]

HskCreate(g) ==
    LET p == hsk[g] IN
    /\ Busy(p) /\ p.queued
    /\ hsk' = [hsk EXCEPT ![g] = IdleHsk]
    /\ \/ /\ CreateSessionResult(session) = "ok"
          /\ Faults => nextSid <= MaxSid
          /\ session' = CreatedSession(nextSid, p.state, p.cursor,
                                       p.req.cli, p.srv, p.queue)
          /\ nextSid' = nextSid + 1
          /\ Answer(p.dev, p.req, Joined(dev[p.dev], nextSid, p.state))
       \/ /\ CreateSessionResult(session) = "exists"
          /\ AnswerError(p.dev, p.req)
          /\ UNCHANGED <<session, nextSid>>
    /\ UNCHANGED <<dbVars, pull, push, fin, landed>>

HskFail(g) ==
    /\ Faults
    /\ Busy(hsk[g])
    /\ hsk' = [hsk EXCEPT ![g] = IdleHsk]
    /\ AnswerError(hsk[g].dev, hsk[g].req)
    /\ UNCHANGED <<session, nextSid, dbVars, pull, push, fin, landed>>

-----------------------------------------------------------------------------
(***************************************************************************)
(* Pull: claims the batch, then queries one type after the other into the  *)
(* collector until that is full or no type is left, then saves the         *)
(* progress in the session.  A loop iteration is one query.                *)
(***************************************************************************)

(* What a handler takes from the session it claims a batch of. *)
ClaimPullBatchResult(d, r) ==
    [IdlePull EXCEPT !.dev = d, !.req = r,
                     !.start = session.cursor, !.cur = session.cursor,
                     !.end = session.srvAt, !.queue = session.queue]

PullClaim(g, d) ==
    LET r == dev[d].req IN
    /\ Arrives(d, "pull")
    /\ ~Busy(pull[g])
    /\ \/ /\ ClaimPullResult(session, r.sid, r.seq) = "ok"
          /\ session' = PullClaimed(session, r.seq)
          /\ pull' = [pull EXCEPT ![g] = ClaimPullBatchResult(d, r)]
          /\ UNCHANGED dev
       \/ /\ ClaimPullResult(session, r.sid, r.seq) # "ok"
          /\ AnswerError(d, r)
          /\ UNCHANGED <<session, pull>>
    /\ UNCHANGED <<nextSid, dbVars, hsk, push, fin, landed>>

HeadOf(queue) == CHOOSE t \in queue : \A u \in queue : t <= u

\* Mutant: the lower end of the range is left out.
SelectedAbove(type, lo, hi) ==
    {e \in Entities : /\ TypeOf[e] = type
                      /\ Exists(rows[e])
                      /\ lo < rows[e].usn
                      /\ rows[e].usn < hi}

(* The rows a query for the type finds, before its LIMIT. *)
Selected(type, lo, hi) ==
    {e \in Entities : /\ TypeOf[e] = type
                      /\ Exists(rows[e])
                      /\ lo <= rows[e].usn
                      /\ rows[e].usn < hi}

(* first is what the collector takes of the selected rows: the lowest USNs, *)
(* at most Limit of them and no more than the response has room for.        *)
CollectedFrom(selected, size, first) ==
    /\ first \subseteq selected
    /\ \A x \in first, y \in selected \ first : rows[x].usn <= rows[y].usn
    /\ \/ first = selected
       \/ Cardinality(first) = Limit
       \/ size + Cardinality(first) = MaxBatchSize
    /\ Cardinality(first) <= Limit
    /\ size + Cardinality(first) <= MaxBatchSize

\* Mutant: the cursor is the last row's USN, not one above it.
SyncCursorAtLast(first) ==
    IF first = {} THEN {0}
    ELSE {rows[e].usn :
             e \in {x \in first : \A y \in first : rows[y].usn <= rows[x].usn}}

(* SyncCursorUsn of a collected set: one above its last row, 0 for none. *)
SyncCursorUsn(first) ==
    IF first = {} THEN {0}
    ELSE {rows[e].usn + 1 :
             e \in {x \in first : \A y \in first : rows[y].usn <= rows[x].usn}}

(* One iteration of GetChangesSinceUSN on the head type of the queue. *)
PullQuery(g) ==
    LET p == pull[g]
        type == HeadOf(p.queue)
        selected == Selected(type, p.cur, p.end)
    IN
    /\ Busy(p) /\ ~p.done /\ p.queue # {}
    /\ \E first \in SUBSET selected : \E after \in SyncCursorUsn(first) :
         LET size == p.size + Cardinality(first)
             more == first # selected
             full == size >= MaxBatchSize
         IN
         /\ CollectedFrom(selected, p.size, first)
         /\ \/ /\ after > p.cur
               /\ pull' = [pull EXCEPT ![g] =
                     [p EXCEPT
                        !.got = [e \in Entities |-> IF e \in first
                                                    THEN rows[e] ELSE p.got[e]],
                        !.size = size,
                        !.queue = IF more THEN @ ELSE @ \ {type},
                        !.cur = IF more THEN after ELSE p.start,
                        !.done = full]]
               /\ UNCHANGED dev
            \/ /\ after <= p.cur
               /\ pull' = [pull EXCEPT ![g] = IdlePull]
               /\ AnswerError(p.dev, p.req)
    /\ UNCHANGED <<session, nextSid, dbVars, hsk, push, fin, landed>>

(* What the device does with a pull response. *)
Received(dv, p) ==
    LET merged == [dv EXCEPT !.has = Overlay(dv.has, p.got), !.waiting = FALSE]
    IN  IF p.queue = {}
        THEN [merged EXCEPT !.phase = "either", !.seq = 1, !.cursor = p.end]
        ELSE [merged EXCEPT !.seq = dv.seq + 1]

(* MarkPullFinished when no type is left, UpdatePullProgress otherwise. *)
PullSave(g) ==
    LET p == pull[g]
        result == IF p.queue = {}
                  THEN MarkPullFinishedResult(session, p.req.sid)
                  ELSE UpdatePullProgressResult(session, p.req.sid)
    IN
    /\ Busy(p)
    /\ p.done \/ p.queue = {}
    /\ pull' = [pull EXCEPT ![g] = IdlePull]
    /\ \/ /\ result = "ok"
          /\ session' = IF p.queue = {} THEN PullFinished(session)
                        ELSE PullProgressed(session, p.queue, p.cur)
          /\ Answer(p.dev, p.req, Received(dev[p.dev], p))
       \/ /\ result # "ok"
          /\ AnswerError(p.dev, p.req)
          /\ UNCHANGED session
    /\ UNCHANGED <<nextSid, dbVars, hsk, push, fin, landed>>

PullFail(g) ==
    /\ Faults
    /\ Busy(pull[g])
    /\ pull' = [pull EXCEPT ![g] = IdlePull]
    /\ AnswerError(pull[g].dev, pull[g].req)
    /\ UNCHANGED <<session, nextSid, dbVars, hsk, push, fin, landed>>

-----------------------------------------------------------------------------
(***************************************************************************)
(* Push: claims the batch and with it a range of USNs, then applies the    *)
(* changes and advances the collection's cursor in one transaction.  The   *)
(* transaction's writes stay in txRows and txUnits until it commits; the   *)
(* rows it wrote are locked until then.                                    *)
(***************************************************************************)

(* The batch starts at the session's cursor, as it was before the claim. *)
ClaimPushBatchResult(d, r) ==
    [IdlePush EXCEPT !.dev = d, !.req = r, !.start = session.cursor]

\* Mutant: the device is answered before the transaction commits.
PushClaimAnswersEarly(g, d) ==
    LET r == dev[d].req IN
    /\ Arrives(d, "push")
    /\ ~Busy(push[g])
    /\ \/ /\ ClaimPushResult(session, r.sid, r.seq, r.n) = "ok"
          /\ session' = PushClaimed(session, r.seq, r.n)
          /\ push' = [push EXCEPT ![g] = ClaimPushBatchResult(d, r)]
          /\ Answer(d, r, [dev[d] EXCEPT !.phase = "push", !.waiting = FALSE,
                                         !.seq = @ + 1])
       \/ /\ ClaimPushResult(session, r.sid, r.seq, r.n) # "ok"
          /\ AnswerError(d, r)
          /\ UNCHANGED <<session, push>>
    /\ UNCHANGED <<nextSid, dbVars, hsk, pull, fin, landed>>

PushClaim(g, d) ==
    LET r == dev[d].req IN
    /\ Arrives(d, "push")
    /\ ~Busy(push[g])
    /\ \/ /\ ClaimPushResult(session, r.sid, r.seq, r.n) = "ok"
          /\ session' = PushClaimed(session, r.seq, r.n)
          /\ push' = [push EXCEPT ![g] = ClaimPushBatchResult(d, r)]
          /\ UNCHANGED dev
       \/ /\ ClaimPushResult(session, r.sid, r.seq, r.n) # "ok"
          /\ AnswerError(d, r)
          /\ UNCHANGED <<session, push>>
    /\ UNCHANGED <<nextSid, dbVars, hsk, pull, fin, landed>>

(* No other transaction holds the lock on the row of e. *)
Unlocked(g, e) == \A h \in Procs \ {g} : ~Exists(push[h].txRows[e])

(* The USN of the change a transaction applies next. *)
AssignedUsn(p) == p.start + p.i

PushUpsert(g, e) ==
    LET p == push[g] IN
    /\ Busy(p) /\ p.i < p.req.n
    /\ Unlocked(g, e)
    /\ push' = [push EXCEPT
          ![g].txRows[e] = [usn |-> AssignedUsn(p), del |-> FALSE],
          ![g].txUnits[e] = [usn |-> AssignedUsn(p), op |-> "upsert"],
          ![g].i = p.i + 1]
    /\ UNCHANGED <<session, nextSid, dbVars, hsk, pull, fin, dev, landed>>

(* Collections and review logs are never deleted. *)
Deletable(e) == TypeOf[e] \notin {1, 7}

(* The row as the transaction sees it: its own write, else the committed one. *)
Visible(p, e) == IF Exists(p.txRows[e]) THEN p.txRows[e] ELSE rows[e]

\* Mutant: a delete does not write its sync unit.
PushDeleteWithoutUnit(g, e) ==
    LET p == push[g] IN
    /\ Busy(p) /\ p.i < p.req.n
    /\ Deletable(e)
    /\ Unlocked(g, e)
    /\ Exists(Visible(p, e)) /\ ~Visible(p, e).del
    /\ push' = [push EXCEPT
          ![g].txRows[e] = [usn |-> AssignedUsn(p), del |-> TRUE],
          ![g].i = p.i + 1]
    /\ UNCHANGED <<session, nextSid, dbVars, hsk, pull, fin, dev, landed>>

(* A delete of a row that is missing or already deleted is skipped, but it  *)
(* has used up its USN.                                                     *)
PushDelete(g, e) ==
    LET p == push[g] IN
    /\ Busy(p) /\ p.i < p.req.n
    /\ Deletable(e)
    /\ Unlocked(g, e)
    /\ \/ /\ Exists(Visible(p, e)) /\ ~Visible(p, e).del
          /\ push' = [push EXCEPT
                ![g].txRows[e] = [usn |-> AssignedUsn(p), del |-> TRUE],
                ![g].txUnits[e] = [usn |-> AssignedUsn(p), op |-> "delete"],
                ![g].i = p.i + 1]
       \/ /\ ~Exists(Visible(p, e)) \/ Visible(p, e).del
          /\ push' = [push EXCEPT ![g].i = p.i + 1]
    /\ UNCHANGED <<session, nextSid, dbVars, hsk, pull, fin, dev, landed>>

(* UPDATE collections SET sync_cursor_usn reports a row only when the       *)
(* collection row exists and the value changes.                             *)
CursorUpdateAffectsRow(p) ==
    /\ Exists(Visible(p, Col))
    /\ cursor # p.start + p.req.n

(* What the device does with the assigned USNs. *)
Assigned(dv, p) ==
    [dv EXCEPT !.phase = "push", !.waiting = FALSE, !.seq = dv.seq + 1,
               !.cursor = p.start + p.req.n, !.has = Overlay(dv.has, p.txRows)]

PushCommit(g) ==
    LET p == push[g] IN
    /\ Busy(p) /\ p.i = p.req.n
    /\ Unlocked(g, Col)
    /\ CursorUpdateAffectsRow(p)
    /\ rows' = Overlay(rows, p.txRows)
    /\ units' = Overlay(units, p.txUnits)
    /\ cursor' = p.start + p.req.n
    /\ colId' = IF Exists(p.txRows[Col]) THEN CollectionOf[p.dev] ELSE colId
    /\ push' = [push EXCEPT ![g] = IdlePush]
    /\ landed' = landed \union {[sid |-> p.req.sid, seq |-> p.req.seq,
                                 lo |-> p.start, hi |-> p.start + p.req.n]}
    /\ Answer(p.dev, p.req, Assigned(dev[p.dev], p))
    /\ UNCHANGED <<session, nextSid, lastSync, hsk, pull, fin>>

\* Mutant: a cursor update that affects no row is not noticed.
PushFailOnFaultOnly(g) ==
    /\ Faults
    /\ Busy(push[g])
    /\ push' = [push EXCEPT ![g] = IdlePush]
    /\ AnswerError(push[g].dev, push[g].req)
    /\ UNCHANGED <<session, nextSid, dbVars, hsk, pull, fin, landed>>

(* An invalid change, a failing statement, a cursor update that affects no  *)
(* row, a deadlock or a failing commit: the transaction rolls back.  The    *)
(* batch stays claimed.                                                     *)
PushFail(g) ==
    /\ Busy(push[g])
    /\ \/ Faults
       \/ push[g].i = push[g].req.n /\ ~CursorUpdateAffectsRow(push[g])
    /\ push' = [push EXCEPT ![g] = IdlePush]
    /\ AnswerError(push[g].dev, push[g].req)
    /\ UNCHANGED <<session, nextSid, dbVars, hsk, pull, fin, landed>>

(* The empty batch with finish_push set. *)
FinishPush(d) ==
    LET r == dev[d].req
        result == MarkPushFinishedResult(session, r.sid, r.seq)
    IN
    /\ Arrives(d, "finishPush")
    /\ \/ /\ result = "ok"
          /\ session' = PushFinished(session)
          /\ Answer(d, r, [dev[d] EXCEPT !.phase = "finish", !.waiting = FALSE])
       \/ /\ result # "ok"
          /\ AnswerError(d, r)
          /\ UNCHANGED session
    /\ UNCHANGED <<nextSid, dbVars, hdlVars, landed>>

-----------------------------------------------------------------------------
(***************************************************************************)
(* FinishSync: checks the session, records the time, releases the session. *)
(***************************************************************************)
FinCheck(g, d) ==
    LET r == dev[d].req IN
    /\ Arrives(d, "finishSync")
    /\ ~Busy(fin[g])
    /\ \/ /\ CheckFinishResult(session, r.sid) = "ok"
          /\ fin' = [fin EXCEPT ![g] = [IdleFin EXCEPT !.dev = d, !.req = r]]
          /\ UNCHANGED dev
       \/ /\ CheckFinishResult(session, r.sid) # "ok"
          /\ AnswerError(d, r)
          /\ UNCHANGED fin
    /\ UNCHANGED <<session, nextSid, dbVars, hsk, pull, push, landed>>

FinUpdateTime(g) ==
    /\ Busy(fin[g]) /\ ~fin[g].stamped
    /\ lastSync' = IF Exists(rows[Col]) THEN fin[g].req.sid ELSE lastSync
    /\ fin' = [fin EXCEPT ![g].stamped = TRUE]
    /\ UNCHANGED <<session, nextSid, rows, units, cursor, colId,
                   hsk, pull, push, dev, landed>>

(* No handshake between its read and its create has missed a commit. *)
HandshakesFresh ==
    \A g \in Procs : Busy(hsk[g]) => hsk[g].srv = ServerCursor

FinRelease(g) ==
    LET p == fin[g] IN
    /\ Busy(p) /\ p.stamped
    /\ fin' = [fin EXCEPT ![g] = IdleFin]
    /\ \/ /\ ReleaseResult(session, p.req.sid) = "ok"
          /\ StaleHandshake \/ HandshakesFresh
          /\ session' = NoSession
          /\ Answer(p.dev, p.req, Abandoned(dev[p.dev]))
       \/ /\ ReleaseResult(session, p.req.sid) # "ok"
          /\ AnswerError(p.dev, p.req)
          /\ UNCHANGED session
    /\ UNCHANGED <<nextSid, dbVars, hsk, pull, push, landed>>

FinFail(g) ==
    /\ Faults
    /\ Busy(fin[g])
    /\ fin' = [fin EXCEPT ![g] = IdleFin]
    /\ AnswerError(fin[g].dev, fin[g].req)
    /\ UNCHANGED <<session, nextSid, dbVars, hsk, pull, push, landed>>

-----------------------------------------------------------------------------
(***************************************************************************)
(* The TTL.  Unless SlowHandlers, handlers are short beside its 60 seconds:*)
(* it does not elapse under a handler of the session, nor do 60 seconds    *)
(* without traffic fit between the read and the create of a handshake.     *)
(* Without faults a device does not let its session elapse.                *)
(***************************************************************************)
Serves(p, sid) == Busy(p) /\ p.req.sid = sid

HandlersPrompt ==
    /\ \A g \in Procs : /\ ~Serves(pull[g], session.sid)
                        /\ ~Serves(push[g], session.sid)
                        /\ ~Serves(fin[g], session.sid)
    /\ HandshakesFresh

Expire ==
    /\ session.sid # NoSid
    /\ SlowHandlers \/ HandlersPrompt
    /\ Faults \/ \A d \in Devices : dev[d].sid # session.sid
    /\ session' = NoSession
    /\ UNCHANGED <<nextSid, dbVars, hdlVars, dev, landed>>

-----------------------------------------------------------------------------
DeviceStep(d) ==
    \/ StartSync(d) \/ SendPull(d) \/ SendPush(d)
    \/ SendFinishPush(d) \/ SendFinishSync(d) \/ GiveUp(d)

RequestStep(g, d) ==
    \/ HskRead(g, d) \/ PullClaim(g, d) \/ PushClaim(g, d)
    \/ FinishPush(d) \/ FinCheck(g, d)

HskStep(g)  == HskQueue(g) \/ HskCreate(g) \/ HskFail(g)
PullStep(g) == PullQuery(g) \/ PullSave(g) \/ PullFail(g)
FinStep(g)  == FinUpdateTime(g) \/ FinRelease(g) \/ FinFail(g)
PushStep(g) ==
    \/ \E e \in Entities : PushUpsert(g, e) \/ PushDelete(g, e)
    \/ PushCommit(g) \/ PushFail(g)

Next ==
    \/ \E d \in Devices : DeviceStep(d)
    \/ \E g \in Procs, d \in Devices : RequestStep(g, d)
    \/ \E g \in Procs : HskStep(g) \/ PullStep(g) \/ PushStep(g) \/ FinStep(g)
    \/ Expire

Spec == Init /\ [][Next]_vars

(* Devices that want to sync do, requests arrive, a goroutine that can run  *)
(* runs, and the TTL of an idle session elapses.                            *)
Fairness ==
    /\ \A d \in Devices : /\ WF_vars(DeviceStep(d))
                          /\ WF_vars(\E g \in Procs : RequestStep(g, d))
    /\ \A g \in Procs : /\ WF_vars(HskStep(g))
                        /\ WF_vars(PullStep(g))
                        /\ WF_vars(PushStep(g))
                        /\ WF_vars(FinStep(g))
    /\ WF_vars(Expire)

FairSpec == Spec /\ Fairness

-----------------------------------------------------------------------------
(***************************************************************************)
(* What must hold whatever the timing is.                                  *)
(***************************************************************************)

(* A session has at most one claimed batch in flight: the sequence number  *)
(* that claim_*_batch.lua moves keeps a repeated request, however late,    *)
(* from running the same batch a second time beside the first.             *)
OneBatchInFlight ==
    \A g, h \in Procs :
        /\ Busy(pull[g]) /\ Busy(push[h]) => pull[g].req.sid # push[h].req.sid
        /\ g # h /\ Busy(pull[g]) /\ Busy(pull[h])
              => pull[g].req.sid # pull[h].req.sid
        /\ g # h /\ Busy(push[g]) /\ Busy(push[h])
              => push[g].req.sid # push[h].req.sid

(* A push batch of a session is committed once, however often its request  *)
(* arrives, and the batches of one session get disjoint USN ranges.        *)
BatchesOfASessionDisjoint ==
    \A b, c \in landed :
        b # c /\ b.sid = c.sid => /\ b.seq # c.seq
                                  /\ b.hi <= c.lo \/ c.hi <= b.lo

(* sync_units, from which a handshake takes the types to pull, and the     *)
(* entity tables, from which the pull takes the rows, always agree: a row  *)
(* has a unit with its USN, and the unit's op says whether it is deleted.  *)
UnitsMatchRows ==
    \A e \in Entities :
        /\ units[e].usn = rows[e].usn
        /\ Exists(rows[e]) =>
              units[e].op = IF rows[e].del THEN "delete" ELSE "upsert"

(* last_sync_time never tells of a sync that is still going on: when a     *)
(* FinishSync of a session has recorded its time, however late it runs, no *)
(* batch of that session is in flight any more.                            *)
RecordedSyncIsOver ==
    \A g \in Procs :
        lastSync # 0 => /\ Busy(push[g]) => push[g].req.sid # lastSync
                        /\ Busy(pull[g]) => pull[g].req.sid # lastSync

(* A FinishSync releases only the session it was called for: one that runs *)
(* on after its session expired leaves the lock of the next device alone.  *)
LockReleasedByHolder ==
    [][session'.sid # session.sid /\ fin' # fin =>
          \E g \in Procs : Serves(fin[g], session.sid)]_vars

-----------------------------------------------------------------------------
(***************************************************************************)
(* What holds as long as no handler outlives its session and no session    *)
(* ends inside a handshake (~SlowHandlers and ~StaleHandshake).            *)
(***************************************************************************)

(* A handler that has claimed a batch still holds the user's sync lock     *)
(* when it applies it: no other device's sync can run beside it.           *)
HandlersHoldLock ==
    \A g \in Procs : /\ Busy(pull[g]) => pull[g].req.sid = session.sid
                     /\ Busy(push[g]) => push[g].req.sid = session.sid

(* No two rows have the same USN, and sync_cursor_usn is above all of      *)
(* them: what a pull pages through is totally ordered and complete.        *)
UsnsUnique ==
    /\ \A e, f \in Entities :
          e # f /\ Exists(rows[e]) => rows[e].usn # rows[f].usn
    /\ \A e \in Entities : rows[e].usn < ServerCursor

(* The USN range that claim_push_batch.lua reserves for a batch is used by *)
(* no other batch that commits, of whichever session.                      *)
ReservedForOneBatch ==
    \A b, c \in landed : b # c => b.hi <= c.lo \/ c.hi <= b.lo

(* Nothing below a device's cursor is news to the device: it has every row *)
(* that a later pull, which starts at the cursor, will not send.           *)
NothingMissedBelowCursor ==
    \A d \in Devices, e \in Entities :
        Exists(rows[e]) /\ rows[e].usn < dev[d].cursor =>
            dev[d].has[e] = rows[e]

(* A pull never asks for a type that has nothing left to send, which the   *)
(* code takes for an error that "in theory cannot happen": the queue of    *)
(* the handshake and the cursor of the session agree with the tables.      *)
PullsFindRows ==
    \A g \in Procs :
        LET p == pull[g] IN
        Busy(p) /\ ~p.done /\ p.queue # {} =>
            Selected(HeadOf(p.queue), p.cur, p.end) # {}

(* A device that holds the lock has the collection the server has: two     *)
(* devices that each created a collection never mix their data.            *)
OneCollection ==
    \A d \in Devices :
        /\ dev[d].sid # NoSid /\ dev[d].sid = session.sid
        /\ colId # NoCollectionId
        => colId = CollectionOf[d]

(* FinishSync is allowed after a push only when every USN that the session *)
(* handed out is committed.                                                *)
FinishOnlyAfterCommit ==
    session.state = "AwaitingFinish" => session.cursor = ServerCursor

(* A device whose cursor equals the server's has everything the server has: *)
(* this is what lets a handshake skip the pull.                             *)
EqualCursorsMeanEqualData ==
    \A d \in Devices :
        dev[d].cursor = ServerCursor /\ Exists(rows[Col]) =>
            \A e \in Entities : Exists(rows[e]) => dev[d].has[e] = rows[e]

-----------------------------------------------------------------------------
(***************************************************************************)
(* Liveness, without faults and under FairSpec.                            *)
(***************************************************************************)

(* A device that keeps syncing gets to the server's cursor again and again: *)
(* no data on the server can make its pull fail for good.                   *)
DeviceCatchesUp == \A d \in Devices : []<>(dev[d].cursor = ServerCursor)

(* Every request is answered: no handler waits for ever, whether another   *)
(* device holds the session it needs or its session has expired, and a     *)
(* push that cannot move the cursor is rolled back and reported.           *)
EveryRequestAnswered ==
    \A d \in Devices : dev[d].waiting ~> ~dev[d].waiting

=============================================================================
