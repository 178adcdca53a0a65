------------------------------- MODULE SyncInv -------------------------------
(***************************************************************************)
(* The inductive invariants behind the safety properties of SyncServer, in *)
(* named parts, and the abstract log that SyncServer implements.           *)
(***************************************************************************)
EXTENDS SyncServer

-----------------------------------------------------------------------------
(* The tables, under any timing. *)

(* A transaction's writes to the entity tables and to sync_units agree. *)
TxUnitsMatch ==
    \A g \in Procs, e \in Entities :
        LET row == push[g].txRows[e]
            unit == push[g].txUnits[e]
        IN  /\ unit.usn = row.usn
            /\ Exists(row) => unit.op = IF row.del THEN "delete" ELSE "upsert"

UnitsInv == UnitsMatchRows /\ TxUnitsMatch

-----------------------------------------------------------------------------
(***************************************************************************)
(* The protocol between devices, handlers and session, under any timing:   *)
(* ProtocolInv.  It says why a request that arrives again is refused.      *)
(***************************************************************************)

(* Session ids in use were handed out. *)
SidsHandedOut ==
    /\ session.sid < nextSid
    /\ \A d \in Devices : dev[d].sid < nextSid /\ dev[d].req.sid < nextSid
    /\ \A g \in Procs : /\ pull[g].req.sid < nextSid
                        /\ push[g].req.sid < nextSid
                        /\ fin[g].req.sid < nextSid
    /\ \A b \in landed : b.sid < nextSid

(* A device and its last request. *)
DeviceOK(dv) ==
    /\ dv.phase = "idle" <=> dv.sid = NoSid
    /\ dv.req.type \in {"none", "handshake"} <=> dv.req.sid = NoSid
    /\ dv.req.type = "push" => dv.req.n > 0
    /\ dv.sid # NoSid /\ dv.req.sid # NoSid => dv.req.sid = dv.sid
    /\ dv.waiting => dv.req.sid = dv.sid
    /\ dv.waiting /\ dv.req.type = "pull" => dv.phase = "pull"
    /\ dv.waiting /\ dv.req.type \in {"pull", "push", "finishPush"} =>
          dv.req.seq = dv.seq

DevicesOK == \A d \in Devices : DeviceOK(dev[d])

(* A session id is known to one device only. *)
KnownTo(dv, sid) == dv.sid = sid \/ dv.req.sid = sid

SidsPrivate ==
    \A d, e \in Devices : \A sid \in {dev[d].sid, dev[d].req.sid} :
        sid # NoSid /\ KnownTo(dev[e], sid) => d = e

(* While a handler works on a request, the device that sent it waits for   *)
(* the answer or has abandoned the session; in either case no other        *)
(* request of that session is, or will ever be, on its way.                *)
InService(p, type, dvs) ==
    Busy(p) =>
        /\ p.req.type = type
        /\ p.req.sid # NoSid
        /\ \A d \in Devices :
              /\ KnownTo(dvs[d], p.req.sid) => d = p.dev /\ dvs[d].req = p.req
              /\ dvs[d].sid = p.req.sid => dvs[d].waiting

HandshakeOK(p) ==
    /\ p.req.type = "handshake" /\ p.req.sid = NoSid
    /\ p.state \in {"Pulling", "Pushing", "AwaitingUploadAllConfirm"}

RequestsInService ==
    \A g \in Procs : /\ InService(pull[g], "pull", dev)
                     /\ InService(push[g], "push", dev)
                     /\ InService(fin[g], "finishSync", dev)
                     /\ Busy(hsk[g]) => HandshakeOK(hsk[g])

(* A handler whose session still exists finds it as its claim left it. *)
HandlersFitSession ==
    \A g \in Procs :
        /\ Serves(pull[g], session.sid) =>
              session.state = "Pulling" /\ session.seq = pull[g].req.seq + 1
        /\ Serves(push[g], session.sid) =>
              /\ session.state = "Pushing"
              /\ session.seq = push[g].req.seq + 1
              /\ session.cursor = push[g].start + push[g].req.n
        /\ Serves(fin[g], session.sid) =>
              session.state \in {"AwaitingPushOrFinish", "AwaitingFinish"}

(* The request has claimed its batch and the batch is in flight. *)
Claimed(d) ==
    \E g \in Procs : \/ Serves(pull[g], dev[d].sid)
                     \/ Serves(push[g], dev[d].sid)

StateOf(phase) == CASE phase = "pull" -> "Pulling"
                    [] phase = "either" -> "AwaitingPushOrFinish"
                    [] phase = "push" -> "Pushing"
                    [] OTHER -> "AwaitingFinish"

(* An answered request would be refused if it came again. *)
Outdated(dv) ==
    CASE dv.req.type = "pull" -> dv.phase # "pull" \/ dv.req.seq # dv.seq
      [] dv.req.type = "push" -> dv.phase = "push" /\ dv.req.seq # dv.seq
      [] dv.req.type = "finishPush" -> dv.phase = "finish"
      [] dv.req.type = "finishSync" -> FALSE
      [] OTHER -> TRUE

(* A device in a session that still exists agrees with it on the state and *)
(* the sequence number, except while its batch is in flight.               *)
SessionFollowsDevice ==
    \A d \in Devices :
        LET dv == dev[d] IN
        dv.sid # NoSid /\ dv.sid = session.sid /\ ~Claimed(d) =>
            /\ session.state = StateOf(dv.phase)
            /\ session.seq = dv.seq
            /\ ~dv.waiting => Outdated(dv)

(* Committed batches lie below what their session hands out next. *)
LandedInSession ==
    \A b \in landed :
        /\ b.sid # NoSid
        /\ b.sid = session.sid => /\ session.state \in {"Pushing", "AwaitingFinish"}
                                  /\ b.seq < session.seq
                                  /\ b.hi <= session.cursor
        /\ \A g \in Procs : Serves(push[g], b.sid) =>
              b.seq < push[g].req.seq /\ b.hi <= push[g].start

ProtocolInv ==
    /\ TypeOK
    /\ SidsHandedOut
    /\ DevicesOK
    /\ SidsPrivate
    /\ RequestsInService
    /\ HandlersFitSession
    /\ SessionFollowsDevice
    /\ OneBatchInFlight
    /\ LandedInSession
    /\ BatchesOfASessionDisjoint

-----------------------------------------------------------------------------
(***************************************************************************)
(* The recorded time, under any timing: RecordedInv.                       *)
(***************************************************************************)

(* While a FinishSync works, its session has no batch in flight. *)
FinishAlone ==
    \A g, h \in Procs : Busy(fin[g]) => /\ ~Serves(pull[h], fin[g].req.sid)
                                        /\ ~Serves(push[h], fin[g].req.sid)

(* The last request of the sync whose time is recorded was its FinishSync, *)
(* and a device still in that sync waits for the answer to it.             *)
RecordedDevicesOver ==
    lastSync # 0 =>
        \A d \in Devices :
            /\ KnownTo(dev[d], lastSync) => dev[d].req.type = "finishSync"
            /\ dev[d].sid = lastSync => dev[d].waiting

RecordedInv ==
    /\ lastSync < nextSid
    /\ FinishAlone
    /\ RecordedDevicesOver
    /\ RecordedSyncIsOver

-----------------------------------------------------------------------------
(***************************************************************************)
(* The cursor and the USNs, while no handler outlives its session and no   *)
(* session that has committed ends inside a handshake: CursorInv.          *)
(***************************************************************************)

(* The range of a batch in flight lies above everything committed. *)
PushAboveCursor ==
    \A g \in Procs : Busy(push[g]) =>
        /\ push[g].req.n > 0
        /\ push[g].i <= push[g].req.n
        /\ ServerCursor <= push[g].start

(* The session's cursor and the collection's. *)
SessionCursorOK ==
    session.sid # NoSid =>
        /\ session.state = "Pulling" => session.srvAt = ServerCursor
        /\ session.state = "AwaitingPushOrFinish" => session.cursor = ServerCursor
        /\ session.state \in {"Pushing", "AwaitingFinish"} =>
              session.cursor >= ServerCursor

(* A handshake that would get a session has seen the current cursor. *)
HandshakeCursorOK ==
    \A g \in Procs : Busy(hsk[g]) =>
        /\ session.sid = NoSid => hsk[g].srv = ServerCursor
        /\ hsk[g].state = "Pushing" => hsk[g].cursor = hsk[g].srv

(* The USNs a transaction has assigned lie in the range of its batch. *)
TxUsnsOK ==
    \A g \in Procs : Busy(push[g]) => \A e \in Entities :
        Exists(push[g].txRows[e]) =>
            /\ push[g].start <= push[g].txRows[e].usn
            /\ push[g].txRows[e].usn < push[g].start + push[g].i
            /\ \A f \in Entities :
                  e # f => push[g].txRows[e].usn # push[g].txRows[f].usn

CollectionRowOK == IF Exists(rows[Col]) THEN cursor >= 1 ELSE cursor = 0

LandedBelowCursor == \A b \in landed : b.lo < b.hi /\ b.hi <= ServerCursor

(* While USNs that a session has handed out are not committed, nobody can  *)
(* ask to finish its push: the device that pushed them waits for the       *)
(* answer, or has given the session up.                                    *)
UncommittedHeldBack ==
    session.sid # NoSid /\ session.state = "Pushing" /\ session.cursor # ServerCursor =>
        \A d \in Devices : KnownTo(dev[d], session.sid) =>
            /\ dev[d].req.type = "push"
            /\ dev[d].sid = session.sid => dev[d].waiting

(* A handshake whose cursor is current has compared the collection that is *)
(* there now: the collection row appears only with a commit, which moves   *)
(* the cursor.                                                             *)
HandshakeSawCollection ==
    \A g \in Procs : Busy(hsk[g]) =>
        /\ hsk[g].srv <= ServerCursor
        /\ hsk[g].srv = ServerCursor /\ colId # NoCollectionId =>
              colId = CollectionOf[hsk[g].dev]

CursorInv ==
    /\ HandlersHoldLock
    /\ PushAboveCursor
    /\ SessionCursorOK
    /\ HandshakeCursorOK
    /\ TxUsnsOK
    /\ CollectionRowOK
    /\ UsnsUnique
    /\ LandedBelowCursor
    /\ ReservedForOneBatch
    /\ UncommittedHeldBack
    /\ FinishOnlyAfterCommit
    /\ HandshakeSawCollection
    /\ OneCollection

-----------------------------------------------------------------------------
(***************************************************************************)
(* What the devices have, while in addition no pull response is cut in the *)
(* middle of a type that others follow: SyncedInv.                         *)
(***************************************************************************)

OneType(queue) == \A t, u \in queue : t = u

(* The session's pull cursor is the client's, or only the type it is in    *)
(* the middle of is left: then the cursor that every response resets to is *)
(* one that skips nothing.                                                 *)
CutBetweenTypes(s) ==
    s.state = "Pulling" /\ s.cursor # s.cliAt => OneType(s.queue)

PullsCutBetweenTypes == CutBetweenTypes(session)

(* A pull with this queue and cursor has gone beyond the row of e. *)
Beyond(queue, cur, e) ==
    \/ TypeOf[e] \notin queue
    \/ TypeOf[e] = HeadOf(queue) /\ rows[e].usn < cur

(* The row of e is one that the session has to pull. *)
InPull(e) ==
    Exists(rows[e]) /\ session.cliAt <= rows[e].usn /\ rows[e].usn < session.srvAt

Holds(d) == dev[d].sid # NoSid /\ dev[d].sid = session.sid

(* A device never has a cursor that the server has not reached, and the    *)
(* handshake it waits for has the cursor it still has.                     *)
DeviceCursorOK ==
    \A d \in Devices :
        /\ dev[d].cursor <= ServerCursor
        /\ dev[d].waiting /\ dev[d].req.type = "handshake" =>
              dev[d].req.cli = dev[d].cursor

(* What a handshake would create: the queue has every type with a row to   *)
(* pull, unless a commit has made the handshake stale.                     *)
HandshakePlanOK ==
    \A g \in Procs : Busy(hsk[g]) =>
        /\ hsk[g].state = "Pushing" => hsk[g].req.cli = hsk[g].srv
        /\ hsk[g].state = "Pulling" => hsk[g].cursor = hsk[g].req.cli
        /\ hsk[g].state = "Pulling" /\ hsk[g].queued /\ hsk[g].srv = ServerCursor =>
              \A e \in Entities :
                  Exists(rows[e]) /\ hsk[g].req.cli <= rows[e].usn =>
                      TypeOf[e] \in hsk[g].queue

(* The device of a pulling session has what the session has gone beyond. *)
PullSessionOK ==
    session.state = "Pulling" =>
        \A d \in Devices : Holds(d) =>
            /\ dev[d].cursor = session.cliAt
            /\ \A e \in Entities :
                  InPull(e) /\ Beyond(session.queue, session.cursor, e) =>
                      dev[d].has[e] = rows[e]

(* A response in the making has current rows, and completes what its       *)
(* device has up to the handler's queue and cursor.                        *)
PullHandlersOK ==
    \A g \in Procs : Busy(pull[g]) =>
        /\ pull[g].start = session.cursor /\ pull[g].end = session.srvAt
        /\ pull[g].queue \subseteq session.queue
        /\ \A e \in Entities :
              /\ Exists(pull[g].got[e]) => pull[g].got[e] = rows[e]
              /\ InPull(e) /\ Beyond(pull[g].queue, pull[g].cur, e) =>
                    \/ pull[g].got[e] = rows[e]
                    \/ \A d \in Devices : Holds(d) => dev[d].has[e] = rows[e]

(* A device that may push has everything. *)
PusherUpToDate ==
    session.state \in {"AwaitingPushOrFinish", "Pushing", "AwaitingFinish"} =>
        \A d \in Devices : Holds(d) =>
            \A e \in Entities : Exists(rows[e]) => dev[d].has[e] = rows[e]

SyncedInv ==
    /\ DeviceCursorOK
    /\ HandshakePlanOK
    /\ PullSessionOK
    /\ PullHandlersOK
    /\ PusherUpToDate
    /\ NothingMissedBelowCursor

-----------------------------------------------------------------------------
(***************************************************************************)
(* What there is left to pull, under the same condition: FoundInv.         *)
(***************************************************************************)

(* A queue has only types with rows to send: the one that is being pulled  *)
(* has some from its cursor on, the others have some from start on.        *)
AllFound(queue, cur, start, end) ==
    \A t \in queue : \E e \in Entities :
        e \in Selected(t, IF t = HeadOf(queue) THEN cur ELSE start, end)

PlanFinds(p) ==
    p.state = "Pulling" /\ p.queued /\ p.srv = ServerCursor =>
        AllFound(p.queue, p.req.cli, p.req.cli, p.srv)

SessionFinds(s) ==
    s.state = "Pulling" => AllFound(s.queue, s.cursor, s.cursor, s.srvAt)

PullFinds(p) == AllFound(p.queue, p.cur, p.start, p.end)

FoundInv ==
    /\ SessionFinds(session)
    /\ \A g \in Procs : /\ Busy(hsk[g]) => PlanFinds(hsk[g])
                        /\ Busy(pull[g]) => PullFinds(pull[g])

-----------------------------------------------------------------------------
(***************************************************************************)
(* Which collections are never cut elsewhere: CutInv.                      *)
(***************************************************************************)

(* Of a type that is not the last, either there is one entity, or all up   *)
(* to that type are fewer than a response holds.                           *)
OnlyLastTypeLarge ==
    \A e, f \in Entities :
        e # f /\ TypeOf[e] = TypeOf[f] =>
            \/ \A x \in Entities : TypeOf[x] <= TypeOf[e]
            \/ Cardinality({x \in Entities : TypeOf[x] <= TypeOf[e]}) < MaxBatchSize

(* The size of a response is the number of rows in it, and all of them are *)
(* behind it: no row is counted twice.                                     *)
CountsRows(p) ==
    /\ p.size = Cardinality({e \in Entities : Exists(p.got[e])})
    /\ \A e \in Entities : Exists(p.got[e]) => Beyond(p.queue, p.cur, e)
    /\ p.done => p.size >= MaxBatchSize

(* A response takes the types in order, and is in the middle of one only   *)
(* if that has several entities.                                           *)
CutFits(p, cliAt) ==
    /\ \A e \in Entities, t \in p.queue : Exists(p.got[e]) => TypeOf[e] <= t
    /\ \/ p.cur = cliAt
       \/ OneType(p.queue)
       \/ \E e, f \in Entities : /\ e # f /\ TypeOf[e] = TypeOf[f]
                                 /\ TypeOf[e] = HeadOf(p.queue)

CutInv ==
    /\ PullsCutBetweenTypes
    /\ \A g \in Procs : Busy(pull[g]) => /\ CountsRows(pull[g])
                                         /\ CutFits(pull[g], session.cliAt)

-----------------------------------------------------------------------------
(* The log: the session is the lock, ServerCursor its end. *)
Log == INSTANCE UsnLog WITH holder <- session.sid,
                            last <- nextSid - 1,
                            end <- ServerCursor,
                            log <- landed

(* The service implements the log: a batch commits only under its own     *)
(* session's lock, at or above every USN that was ever committed.         *)
ImplementsLog == Log!LogSpec
=============================================================================
