-------------------------- MODULE SyncCursorProofs --------------------------
(***************************************************************************)
(* The cursor, the USNs and the collection, while no handler outlives its  *)
(* session and no session that has committed ends inside a handshake:      *)
(* CursorInv is inductive beside ProtocolInv, and the service implements   *)
(* the log of UsnLog.  Then, under any timing again, the recorded time.    *)
(***************************************************************************)
EXTENDS SyncProtocolProofs

LEMMA CursorInit == Init => CursorInv
<1> SUFFICES ASSUME Init PROVE CursorInv
  OBVIOUS
<1>1. \A g \in Procs : /\ ~Busy(hsk[g]) /\ ~Busy(pull[g])
                       /\ ~Busy(push[g]) /\ ~Busy(fin[g])
  BY IdleFacts DEF Init
<1>2. session.sid = NoSid /\ session.state = "Unspecified" /\ landed = {}
  BY DEF Init, NoSession
<1>3. /\ rows \in [Entities -> Row] /\ Col \in Entities /\ rows \in InitRows
      /\ cursor \in Nat
  BY InitRowsAssumption, EntitiesAssumption, BoundsAssumption DEF Init, Row
<1>4. CollectionRowOK
  BY <1>3, BoundsAssumption DEF Init, CollectionRowOK
<1>5. UsnsUnique
  <2>1. ASSUME NEW e \in Entities, NEW f \in Entities, e # f, Exists(rows[e])
        PROVE  rows[e].usn # rows[f].usn
    BY <1>3, <2>1, InitRowsAssumption DEF Exists
  <2>2. ASSUME NEW e \in Entities PROVE rows[e].usn < ServerCursor
    <3>1. CASE Exists(rows[Col])
      BY <3>1 DEF Init, ServerCursor
    <3>2. CASE ~Exists(rows[Col])
      <4>1. rows[e].usn = 0
        BY <1>3, <3>2, InitRowsAssumption DEF Exists
      <4> QED
        BY <3>2, <4>1 DEF ServerCursor
    <3> QED
      BY <3>1, <3>2
  <2> QED
    BY <2>1, <2>2 DEF UsnsUnique
<1>6. HandlersHoldLock /\ PushAboveCursor /\ HandshakeCursorOK /\ TxUsnsOK
      /\ HandshakeSawCollection
  BY <1>1 DEF HandlersHoldLock, PushAboveCursor, HandshakeCursorOK, TxUsnsOK,
              HandshakeSawCollection
<1>7. SessionCursorOK /\ UncommittedHeldBack /\ FinishOnlyAfterCommit /\ OneCollection
  BY <1>2 DEF SessionCursorOK, UncommittedHeldBack, FinishOnlyAfterCommit, OneCollection
<1>8. LandedBelowCursor /\ ReservedForOneBatch
  BY <1>2 DEF LandedBelowCursor, ReservedForOneBatch
<1> QED
  BY <1>4, <1>5, <1>6, <1>7, <1>8 DEF CursorInv

-----------------------------------------------------------------------------
(***************************************************************************)
(* Steps that commit nothing and leave the lock with its holder.           *)
(***************************************************************************)

(* A batch handler that CursorInv allows. *)
PushFits(p) ==
    /\ p.req.sid = session.sid
    /\ p.req.n > 0 /\ p.i <= p.req.n /\ ServerCursor <= p.start
    /\ \A e \in Entities : Exists(p.txRows[e]) =>
          /\ p.start <= p.txRows[e].usn
          /\ p.txRows[e].usn < p.start + p.i
          /\ \A f \in Entities : e # f => p.txRows[e].usn # p.txRows[f].usn

(* A handshake that goes on, and one that has just read the collection. *)
SameHandshake(p, q) ==
    /\ p.dev = q.dev /\ p.srv = q.srv /\ p.state = q.state /\ p.cursor = q.cursor

JustRead(p) ==
    /\ p.srv = ServerCursor
    /\ p.state = "Pushing" => p.cursor = p.srv
    /\ colId # NoCollectionId => colId = CollectionOf[p.dev]

NoCommit == UNCHANGED <<rows, cursor, colId, landed>>

HandlersFit ==
    \A g \in Procs :
        /\ Busy(pull'[g]) => pull'[g].req.sid = session.sid
        /\ Busy(push'[g]) => push'[g] = push[g] \/ PushFits(push'[g])
        /\ Busy(hsk'[g]) => SameHandshake(hsk'[g], hsk[g]) \/ JustRead(hsk'[g])

NobodyJoins ==
    \A d \in Devices : dev'[d].sid # NoSid => dev'[d].sid = dev[d].sid

(* The parts of CursorInv that hold whatever the session's state is. *)
LEMMA CursorFrame ==
    ASSUME TypeOK, CursorInv, NoCommit, session'.sid = session.sid,
           HandlersFit, NobodyJoins,
           SessionCursorOK', UncommittedHeldBack', FinishOnlyAfterCommit'
    PROVE  CursorInv'
<1>1. UNCHANGED <<rows, cursor, colId, landed>> /\ ServerCursor' = ServerCursor
  BY DEF NoCommit, ServerCursor
<1>2. HandlersHoldLock'
  BY DEF HandlersFit, PushFits, CursorInv, HandlersHoldLock
<1>3. PushAboveCursor' /\ TxUsnsOK'
  <2>1. ASSUME NEW g \in Procs, Busy(push'[g]) PROVE PushFits(push'[g])
    <3>1. CASE push'[g] = push[g]
      BY <2>1, <3>1 DEF CursorInv, HandlersHoldLock, PushAboveCursor, TxUsnsOK, PushFits
    <3> QED
      BY <2>1, <3>1 DEF HandlersFit
  <2> QED
    BY <1>1, <2>1 DEF PushFits, PushAboveCursor, TxUsnsOK
<1>4. HandshakeCursorOK' /\ HandshakeSawCollection'
  <2>1. ServerCursor \in Nat
    BY ServerCursorType
  <2>2. ASSUME NEW g \in Procs, Busy(hsk'[g])
        PROVE  /\ session.sid = NoSid => hsk'[g].srv = ServerCursor
               /\ hsk'[g].state = "Pushing" => hsk'[g].cursor = hsk'[g].srv
               /\ hsk'[g].srv <= ServerCursor
               /\ hsk'[g].srv = ServerCursor /\ colId # NoCollectionId =>
                     colId = CollectionOf[hsk'[g].dev]
    <3>1. CASE SameHandshake(hsk'[g], hsk[g])
      BY <2>2, <3>1 DEF SameHandshake, Busy, CursorInv, HandshakeCursorOK,
                        HandshakeSawCollection
    <3>2. CASE JustRead(hsk'[g])
      BY <2>1, <3>2 DEF JustRead
    <3> QED
      BY <2>2, <3>1, <3>2 DEF HandlersFit
  <2> QED
    BY <1>1, <2>2 DEF HandshakeCursorOK, HandshakeSawCollection
<1>5. OneCollection'
  BY <1>1 DEF CursorInv, OneCollection, NobodyJoins
<1>6. CollectionRowOK' /\ UsnsUnique' /\ LandedBelowCursor' /\ ReservedForOneBatch'
  BY <1>1 DEF CursorInv, CollectionRowOK, UsnsUnique, LandedBelowCursor,
              ReservedForOneBatch
<1> QED
  BY <1>2, <1>3, <1>4, <1>5, <1>6 DEF CursorInv

(* A device keeps still, gives up, or sends a request it may send. *)
DevicesStay ==
    \A d \in Devices :
        \/ dev'[d] = dev[d]
        \/ dev'[d] = Abandoned(dev[d])
        \/ /\ ~dev[d].waiting
           /\ dev'[d].sid = dev[d].sid /\ dev'[d].req.sid = dev[d].sid

LEMMA CursorSteady ==
    ASSUME TypeOK, CursorInv, NoCommit, HandlersFit, DevicesStay,
           session'.sid = session.sid, session'.state = session.state,
           session'.cursor = session.cursor, session'.srvAt = session.srvAt
    PROVE  CursorInv'
<1>1. ServerCursor' = ServerCursor
  BY DEF NoCommit, ServerCursor
<1>2. ASSUME NEW d \in Devices
      PROVE  \/ dev'[d] = dev[d]
             \/ dev'[d].sid = NoSid /\ dev'[d].req = dev[d].req
             \/ /\ ~dev[d].waiting
                /\ dev'[d].sid = dev[d].sid /\ dev'[d].req.sid = dev[d].sid
  <2>1. dev[d] \in Device
    BY DEF TypeOK
  <2> QED
    BY <2>1, AbandonedFields DEF DevicesStay
<1>3. NobodyJoins
  BY <1>2 DEF NobodyJoins
<1>4. SessionCursorOK' /\ FinishOnlyAfterCommit'
  BY <1>1 DEF CursorInv, SessionCursorOK, FinishOnlyAfterCommit
<1>5. UncommittedHeldBack'
  BY <1>1, <1>2 DEF CursorInv, UncommittedHeldBack, KnownTo
<1> QED
  BY <1>3, <1>4, <1>5, CursorFrame

(* Handlers that go on or end. *)
LEMMA HandlersStillFit ==
    ASSUME CursorInv,
           \A g \in Procs :
              /\ Busy(pull'[g]) => Busy(pull[g]) /\ pull'[g].req = pull[g].req
              /\ Busy(push'[g]) => push'[g] = push[g]
              /\ Busy(hsk'[g]) => SameHandshake(hsk'[g], hsk[g])
    PROVE  HandlersFit
BY DEF HandlersFit, CursorInv, HandlersHoldLock

(* A device sends only when it waits for nothing, and for its own session. *)
LEMMA DeviceStays ==
    ASSUME ProtocolInv, NEW d \in Devices, DeviceStep(d)
    PROVE  DevicesStay
<1>1. TypeOK /\ DeviceOK(dev[d]) /\ dev[d] \in Device
  BY DEF ProtocolInv, DevicesOK, TypeOK
<1>2. ASSUME NEW r, Send(d, r), ~dev[d].waiting, r.sid = dev[d].sid PROVE DevicesStay
  <2>1. ASSUME NEW e \in Devices, e # d PROVE dev'[e] = dev[e]
    BY <1>1, <1>2, <2>1 DEF Send, TypeOK
  <2>2. dev'[d] = [dev[d] EXCEPT !.req = r, !.waiting = TRUE]
    BY <1>1, <1>2 DEF Send, TypeOK
  <2>3. dev'[d].sid = dev[d].sid /\ dev'[d].req.sid = dev[d].sid
    BY <1>1, <1>2, <2>2 DEF Device
  <2> QED
    BY <1>2, <2>1, <2>3 DEF DevicesStay
<1>3. CASE StartSync(d)
  <2>1. PICK local \in BOOLEAN :
           Send(d, [NoRequest EXCEPT !.type = "handshake",
                                     !.cli = dev[d].cursor, !.local = local])
    BY <1>3 DEF StartSync
  <2>2. [NoRequest EXCEPT !.type = "handshake",
                          !.cli = dev[d].cursor, !.local = local].sid = NoSid
    BY DEF NoRequest
  <2>3. dev[d].sid = NoSid /\ ~dev[d].waiting
    BY <1>1, <1>3 DEF StartSync, DeviceOK
  <2> QED
    BY <1>2, <2>1, <2>2, <2>3
<1>4. CASE SendPull(d) \/ SendPush(d) \/ SendFinishPush(d) \/ SendFinishSync(d)
  <2>1. ~dev[d].waiting
    BY <1>4 DEF SendPull, SendPush, SendFinishPush, SendFinishSync
  <2>2. PICK type, seq, n : Send(d, SessionRequest(type, dev[d].sid, seq, n))
    BY <1>4 DEF SendPull, SendPush, SendFinishPush, SendFinishSync
  <2>3. SessionRequest(type, dev[d].sid, seq, n).sid = dev[d].sid
    BY DEF SessionRequest
  <2> QED
    BY <1>2, <2>1, <2>2, <2>3
<1>5. CASE GiveUp(d)
  BY <1>1, <1>5 DEF GiveUp, DevicesStay, TypeOK
<1> QED
  BY <1>3, <1>4, <1>5 DEF DeviceStep

LEMMA CursorDevice ==
    ASSUME ProtocolInv, CursorInv, NEW d \in Devices, DeviceStep(d)
    PROVE  CursorInv'
<1>1. UNCHANGED <<session, rows, cursor, colId, hsk, pull, push, landed>>
  BY DEF DeviceStep, StartSync, SendPull, SendPush, SendFinishPush, SendFinishSync,
         GiveUp, Send, dbVars, hdlVars
<1>2. NoCommit /\ HandlersFit
  BY <1>1, HandlersStillFit DEF NoCommit, SameHandshake
<1> QED
  BY <1>1, <1>2, DeviceStays, CursorSteady DEF ProtocolInv

(* A step that answers an error, or nobody, and leaves the session alone. *)
LEMMA CursorAnswersError ==
    ASSUME ProtocolInv, CursorInv, NoCommit, HandlersFit,
           session'.sid = session.sid, session'.state = session.state,
           session'.cursor = session.cursor, session'.srvAt = session.srvAt,
           UNCHANGED dev \/ \E d \in Devices : \E r : AnswerError(d, r)
    PROVE  CursorInv'
<1>1. DevicesStay
  BY AnswerErrorGivesUp DEF DevicesStay, DevicesKeepOrGiveUp
<1> QED
  BY <1>1, CursorSteady DEF ProtocolInv

LEMMA CursorHskRead ==
    ASSUME ProtocolInv, CursorInv, NEW g \in Procs, NEW d \in Devices, HskRead(g, d)
    PROVE  CursorInv'
<1>1. UNCHANGED <<session, rows, cursor, colId, pull, push, landed>>
  BY DEF HskRead, dbVars
<1>2. UNCHANGED dev \/ AnswerError(d, dev[d].req)
  BY DEF HskRead
<1>3. ASSUME NEW h \in Procs, Busy(hsk'[h])
      PROVE  SameHandshake(hsk'[h], hsk[h]) \/ JustRead(hsk'[h])
  <2>1. CASE hsk'[h] = hsk[h]
    BY <2>1 DEF SameHandshake
  <2>2. CASE hsk'[h] # hsk[h]
    <3>1. PICK timeSkew \in BOOLEAN :
             LET status == HandshakeStatus(d, dev[d].req, timeSkew) IN
             /\ NeedsSession(status, dev[d].req)
             /\ hsk'[h] = HskSession(d, dev[d].req, status)
      BY <2>2, TimingAssumption DEF HskRead, ProtocolInv, TypeOK
    <3> DEFINE status == HandshakeStatus(d, dev[d].req, timeSkew)
    <3>2. status \in {"NEED_PULL", "UPLOAD_ALL", "NO_REMOTE_CHANGES"}
      BY <3>1 DEF NeedsSession
    <3>3. colId # NoCollectionId => colId = CollectionOf[d]
      BY <3>2 DEF HandshakeStatus
    <3> HIDE DEF status
    <3>4. hsk'[h] = HskSession(d, dev[d].req, status)
      BY <3>1 DEF status
    <3>5. /\ hsk'[h].dev = d /\ hsk'[h].srv = ServerCursor
          /\ hsk'[h].state = CASE status = "NEED_PULL" -> "Pulling"
                               [] status = "UPLOAD_ALL" -> "AwaitingUploadAllConfirm"
                               [] OTHER -> "Pushing"
          /\ hsk'[h].cursor = CASE status = "NEED_PULL" -> dev[d].req.cli
                                [] status = "UPLOAD_ALL" -> 0
                                [] OTHER -> ServerCursor
      BY <3>4 DEF HskSession, IdleHsk
    <3> QED
      BY <3>2, <3>3, <3>5 DEF JustRead
  <2> QED
    BY <2>1, <2>2
<1>4. HandlersFit
  BY <1>1, <1>3 DEF HandlersFit, CursorInv, HandlersHoldLock
<1> QED
  BY <1>1, <1>2, <1>4, CursorAnswersError DEF NoCommit

(* The session is created at the cursor the handshake has read, which is   *)
(* still the collection's, for a device of the collection.                 *)
LEMMA CursorCreate ==
    ASSUME ProtocolInv, CursorInv, NEW g \in Procs, HskCreate(g),
           CreateSessionResult(session) = "ok"
    PROVE  CursorInv'
<1> DEFINE p == hsk[g]
<1>1. /\ Busy(p) /\ p.dev \in Devices /\ session.sid = NoSid /\ nextSid \in Nat
      /\ p.state \in {"Pulling", "Pushing", "AwaitingUploadAllConfirm"}
      /\ ServerCursor \in Nat
  <2>1. Busy(p) /\ p \in HskProc
    BY DEF HskCreate, ProtocolInv, TypeOK
  <2>2. p.dev \in Devices /\ HandshakeOK(p)
    BY <2>1, BusyDevice DEF HskProc, ProtocolInv, RequestsInService
  <2> QED
    BY <2>1, <2>2, ServerCursorType
    DEF CreateSessionResult, HandshakeOK, ProtocolInv, TypeOK
<1>2. /\ p.srv = ServerCursor
      /\ p.state = "Pushing" => p.cursor = ServerCursor
      /\ colId # NoCollectionId => colId = CollectionOf[p.dev]
  BY <1>1 DEF CursorInv, HandshakeCursorOK, HandshakeSawCollection
<1>3. /\ UNCHANGED <<rows, cursor, colId, pull, push, landed>>
      /\ hsk' = [hsk EXCEPT ![g] = IdleHsk]
      /\ session'.sid = nextSid /\ session'.state = p.state
      /\ session'.cursor = p.cursor /\ session'.srvAt = p.srv
      /\ Answer(p.dev, p.req, Joined(dev[p.dev], nextSid, p.state))
  BY DEF HskCreate, CreateSessionResult, CreatedSession, dbVars
<1>4. ServerCursor' = ServerCursor
  BY <1>3 DEF ServerCursor
<1>5. \A h \in Procs : ~Busy(pull[h]) /\ ~Busy(push[h])
  BY <1>1 DEF CursorInv, HandlersHoldLock, ProtocolInv, RequestsInService, InService
<1>6. HandlersHoldLock' /\ PushAboveCursor' /\ TxUsnsOK'
  BY <1>3, <1>5 DEF HandlersHoldLock, PushAboveCursor, TxUsnsOK
<1>7. SessionCursorOK' /\ UncommittedHeldBack' /\ FinishOnlyAfterCommit'
  BY <1>1, <1>2, <1>3, <1>4 DEF SessionCursorOK, UncommittedHeldBack, FinishOnlyAfterCommit
<1>8. HandshakeCursorOK' /\ HandshakeSawCollection'
  <2>1. ASSUME NEW h \in Procs, Busy(hsk'[h]) PROVE Busy(hsk[h]) /\ hsk'[h] = hsk[h]
    BY <1>3, <2>1, IdleFacts DEF ProtocolInv, TypeOK
  <2>2. ASSUME NEW h \in Procs, Busy(hsk[h])
        PROVE  hsk[h].srv = ServerCursor
    BY <1>1, <2>2 DEF CursorInv, HandshakeCursorOK
  <2> QED
    BY <1>1, <1>3, <1>4, <2>1, <2>2
    DEF CursorInv, HandshakeCursorOK, HandshakeSawCollection
<1>9. OneCollection'
  <2>1. ASSUME NEW d \in Devices, dev'[d].sid = nextSid PROVE d = p.dev
    <3>1. dev[d].sid # nextSid
      BY <1>1 DEF ProtocolInv, SidsHandedOut, TypeOK, Device
    <3> QED
      BY <1>1, <1>3, <2>1, <3>1 DEF Answer, ProtocolInv, TypeOK
  <2> QED
    BY <1>2, <1>3, <2>1 DEF OneCollection
<1>10. CollectionRowOK' /\ UsnsUnique' /\ LandedBelowCursor' /\ ReservedForOneBatch'
  BY <1>3, <1>4 DEF CursorInv, CollectionRowOK, UsnsUnique, LandedBelowCursor,
                    ReservedForOneBatch
<1> QED
  BY <1>6, <1>7, <1>8, <1>9, <1>10 DEF CursorInv

LEMMA CursorHskStep ==
    ASSUME ProtocolInv, CursorInv, NEW g \in Procs, HskStep(g)
    PROVE  CursorInv'
<1>1. CASE HskCreate(g) /\ CreateSessionResult(session) = "ok"
  BY <1>1, CursorCreate
<1>2. CASE ~(HskCreate(g) /\ CreateSessionResult(session) = "ok")
  <2>1. UNCHANGED <<session, rows, cursor, colId, pull, push, landed>>
    BY <1>2 DEF HskStep, HskQueue, HskCreate, HskFail, CreateSessionResult, dbVars
  <2>2. /\ hsk \in [Procs -> HskProc] /\ hsk[g] \in HskProc /\ hsk[g].dev \in Devices
    <3>1. hsk \in [Procs -> HskProc] /\ hsk[g] \in HskProc /\ Busy(hsk[g])
      BY DEF HskStep, HskQueue, HskCreate, HskFail, ProtocolInv, TypeOK
    <3> QED
      BY <3>1, BusyDevice DEF HskProc
  <2>3. ASSUME NEW h \in Procs, Busy(hsk'[h]) PROVE SameHandshake(hsk'[h], hsk[h])
    BY <2>2, <2>3, IdleFacts DEF HskStep, HskQueue, HskCreate, HskFail, SameHandshake,
                                 HskProc
  <2>4. HandlersFit
    BY <2>1, <2>3, HandlersStillFit
  <2>5. UNCHANGED dev \/ AnswerError(hsk[g].dev, hsk[g].req)
    BY <1>2 DEF HskStep, HskQueue, HskCreate, HskFail, CreateSessionResult
  <2> QED
    BY <2>1, <2>2, <2>4, <2>5, CursorAnswersError DEF NoCommit
<1> QED
  BY <1>1, <1>2

-----------------------------------------------------------------------------
(* A claimed pull, like a refused one, leaves state and cursor alone. *)
LEMMA CursorPullClaim ==
    ASSUME ProtocolInv, CursorInv, NEW g \in Procs, NEW d \in Devices, PullClaim(g, d)
    PROVE  CursorInv'
<1> DEFINE r == dev[d].req
<1>1. UNCHANGED <<rows, cursor, colId, hsk, push, landed>>
  BY DEF PullClaim, dbVars
<1>2. CASE ClaimPullResult(session, r.sid, r.seq) = "ok"
  <2>1. session.sid = r.sid /\ UNCHANGED dev
    BY <1>2 DEF PullClaim, ClaimPullResult
  <2>2. /\ session'.sid = session.sid /\ session'.state = session.state
        /\ session'.cursor = session.cursor /\ session'.srvAt = session.srvAt
    BY <1>2 DEF PullClaim, PullClaimed, ProtocolInv, TypeOK, Session
  <2>3. ASSUME NEW h \in Procs, Busy(pull'[h]) PROVE pull'[h].req.sid = session.sid
    <3>1. CASE h = g
      BY <1>2, <2>1, <3>1 DEF PullClaim, ClaimPullBatchResult, IdlePull, ProtocolInv, TypeOK
    <3>2. CASE h # g
      BY <1>2, <2>3, <3>2 DEF PullClaim, CursorInv, HandlersHoldLock, ProtocolInv, TypeOK
    <3> QED
      BY <3>1, <3>2
  <2>4. HandlersFit
    BY <1>1, <2>3 DEF HandlersFit, SameHandshake
  <2> QED
    BY <1>1, <2>1, <2>2, <2>4, CursorAnswersError DEF NoCommit
<1>3. CASE ClaimPullResult(session, r.sid, r.seq) # "ok"
  <2>1. UNCHANGED <<session, pull>> /\ AnswerError(d, r)
    BY <1>3 DEF PullClaim
  <2>2. HandlersFit
    BY <1>1, <2>1, HandlersStillFit DEF SameHandshake
  <2> QED
    BY <1>1, <2>1, <2>2, CursorAnswersError DEF NoCommit
<1> QED
  BY <1>2, <1>3

(* The end of a pull sets the session's cursor to the collection's. *)
LEMMA CursorPullSaved ==
    ASSUME ProtocolInv, CursorInv, NEW g \in Procs, PullSave(g),
           session.sid = pull[g].req.sid, session.sid # NoSid,
           session' = IF pull[g].queue = {} THEN PullFinished(session)
                      ELSE PullProgressed(session, pull[g].queue, pull[g].cur),
           Answer(pull[g].dev, pull[g].req, Received(dev[pull[g].dev], pull[g]))
    PROVE  CursorInv'
<1> DEFINE p == pull[g]
<1>1. /\ Busy(p) /\ p.dev \in Devices /\ pull' = [pull EXCEPT ![g] = IdlePull]
      /\ UNCHANGED <<rows, cursor, colId, hsk, push, landed>>
  <2>1. Busy(p) /\ p \in PullProc
    BY DEF PullSave, ProtocolInv, TypeOK
  <2> QED
    BY <2>1, BusyDevice DEF PullSave, PullProc, dbVars
<1>2. ServerCursor' = ServerCursor
  BY <1>1 DEF ServerCursor
<1>3. session.state = "Pulling" /\ session.srvAt = ServerCursor
  BY <1>1 DEF ProtocolInv, HandlersFitSession, Serves, CursorInv, SessionCursorOK
<1>4. /\ session'.sid = session.sid /\ session'.srvAt = session.srvAt
      /\ \/ session'.state = "Pulling"
         \/ session'.state = "AwaitingPushOrFinish" /\ session'.cursor = session.srvAt
  BY <1>3 DEF PullFinished, PullProgressed, ProtocolInv, TypeOK, Session
<1>5. SessionCursorOK' /\ UncommittedHeldBack' /\ FinishOnlyAfterCommit'
  BY <1>2, <1>3, <1>4 DEF SessionCursorOK, UncommittedHeldBack, FinishOnlyAfterCommit
<1>6. \A h \in Procs : Busy(pull'[h]) => Busy(pull[h]) /\ pull'[h].req = pull[h].req
  BY <1>1, IdleFacts DEF ProtocolInv, TypeOK
<1>7. HandlersFit
  BY <1>1, <1>6, HandlersStillFit DEF SameHandshake
<1>8. NobodyJoins
  <2>1. ASSUME NEW d \in Devices PROVE dev'[d].sid = dev[d].sid
    <3>1. dev[d] \in Device /\ dev[p.dev] \in Device
      BY <1>1 DEF ProtocolInv, TypeOK
    <3>2. Received(dev[p.dev], p).sid = dev[p.dev].sid
      BY <3>1 DEF Received, Device
    <3>3. dev'[d] = dev[d] \/ (d = p.dev /\ dev'[d] = Received(dev[p.dev], p))
      BY <1>1 DEF Answer, ProtocolInv, TypeOK
    <3> QED
      BY <3>2, <3>3
  <2> QED
    BY <2>1 DEF NobodyJoins
<1> QED
  BY <1>1, <1>4, <1>5, <1>7, <1>8, CursorFrame DEF NoCommit, ProtocolInv

LEMMA CursorPullStep ==
    ASSUME ProtocolInv, CursorInv, NEW g \in Procs, PullStep(g)
    PROVE  CursorInv'
<1> DEFINE p == pull[g]
           result == IF p.queue = {}
                     THEN MarkPullFinishedResult(session, p.req.sid)
                     ELSE UpdatePullProgressResult(session, p.req.sid)
<1>1. CASE PullSave(g) /\ result = "ok"
  <2>1. session.sid = p.req.sid /\ session.sid # NoSid
    BY <1>1 DEF MarkPullFinishedResult, UpdatePullProgressResult
  <2> QED
    BY <1>1, <2>1, CursorPullSaved DEF PullSave
<1>2. CASE ~(PullSave(g) /\ result = "ok")
  <2>1. UNCHANGED <<session, rows, cursor, colId, hsk, push, landed>>
    BY <1>2 DEF PullStep, PullQuery, PullSave, PullFail, dbVars
  <2>2. pull \in [Procs -> PullProc] /\ p \in PullProc /\ p.dev \in Devices
    <3>1. pull \in [Procs -> PullProc] /\ p \in PullProc /\ Busy(p)
      BY DEF PullStep, PullQuery, PullSave, PullFail, ProtocolInv, TypeOK
    <3> QED
      BY <3>1, BusyDevice DEF PullProc
  <2>3. UNCHANGED dev \/ AnswerError(p.dev, p.req)
    BY <1>2 DEF PullStep, PullQuery, PullSave, PullFail
  <2>4. ASSUME NEW h \in Procs, Busy(pull'[h])
        PROVE  Busy(pull[h]) /\ pull'[h].req = pull[h].req
    <3>1. CASE pull' = [pull EXCEPT ![g] = IdlePull]
      BY <2>2, <2>4, <3>1, IdleFacts
    <3>2. CASE PullQuery(g) /\ SameTask(pull'[h], pull[h])
      BY <2>4, <3>2 DEF SameTask, Busy
    <3> QED
      BY <3>1, <3>2, PullQueryKeepsTask DEF PullStep, PullSave, PullFail
  <2>5. HandlersFit
    BY <2>1, <2>4, HandlersStillFit DEF SameHandshake
  <2> QED
    BY <2>1, <2>2, <2>3, <2>5, CursorAnswersError DEF NoCommit
<1> QED
  BY <1>1, <1>2

-----------------------------------------------------------------------------
(* A claimed push batch begins at or above the cursor, and its device waits. *)
LEMMA CursorPushClaim ==
    ASSUME ProtocolInv, ProtocolInv', CursorInv,
           NEW g \in Procs, NEW d \in Devices, PushClaim(g, d)
    PROVE  CursorInv'
<1> DEFINE r == dev[d].req
           new == ClaimPushBatchResult(d, r)
<1>1. UNCHANGED <<rows, cursor, colId, hsk, pull, landed>> /\ ServerCursor' = ServerCursor
  BY DEF PushClaim, dbVars, ServerCursor
<1>2. CASE ClaimPushResult(session, r.sid, r.seq, r.n) = "ok"
  <2>1. /\ r.sid = session.sid /\ r.sid # NoSid /\ UNCHANGED dev
        /\ session.state \in {"Pushing", "AwaitingPushOrFinish"}
        /\ r.n \in Nat /\ ~(r.n <= 0)
    BY <1>2 DEF PushClaim, ClaimPushResult, ProtocolInv, TypeOK, Device, Request
  <2>2. r.n > 0 /\ session.cursor \in Nat /\ ServerCursor \in Nat
    BY <2>1, ServerCursorType DEF ProtocolInv, TypeOK, Session
  <2>3. /\ session'.sid = session.sid /\ session'.state = "Pushing"
        /\ session'.cursor = session.cursor + r.n /\ session'.srvAt = session.srvAt
    BY <1>2 DEF PushClaim, PushClaimed, ProtocolInv, TypeOK, Session
  <2>4. session.cursor >= ServerCursor
    BY <2>1, <2>2 DEF CursorInv, SessionCursorOK
  <2>5. SessionCursorOK' /\ FinishOnlyAfterCommit'
    BY <1>1, <2>1, <2>2, <2>3, <2>4 DEF SessionCursorOK, FinishOnlyAfterCommit
  <2>6. /\ new.dev = d /\ new.req = r /\ new.start = session.cursor /\ new.i = 0
        /\ new.txRows = NoRows
    BY DEF ClaimPushBatchResult, IdlePush
  <2> HIDE DEF new
  <2>7. \A h \in Procs : push'[h] = IF h = g THEN new ELSE push[h]
    BY <1>2 DEF new, PushClaim, ProtocolInv, TypeOK
  <2>8. PushFits(new)
    BY <2>1, <2>2, <2>4, <2>6 DEF PushFits, NoRows, NoRow, Exists
  <2>9. HandlersFit
    BY <1>1, <2>7, <2>8 DEF HandlersFit, SameHandshake, CursorInv, HandlersHoldLock
  <2>10. UncommittedHeldBack'
    <3>1. InService(new, "push", dev) /\ Busy(new)
      BY <2>1, <2>6, <2>7, DevicesAssumption DEF ProtocolInv, RequestsInService, Busy
    <3>2. ASSUME NEW e \in Devices, KnownTo(dev[e], session.sid)
          PROVE  /\ dev[e].req.type = "push"
                 /\ dev[e].sid = session.sid => dev[e].waiting
      BY <2>1, <2>6, <3>1, <3>2 DEF InService
    <3> QED
      BY <2>1, <2>3, <3>2 DEF UncommittedHeldBack
  <2> QED
    BY <1>1, <2>1, <2>3, <2>5, <2>9, <2>10, CursorFrame
    DEF NoCommit, NobodyJoins, ProtocolInv
<1>3. CASE ClaimPushResult(session, r.sid, r.seq, r.n) # "ok"
  <2>1. UNCHANGED <<session, push>> /\ AnswerError(d, r)
    BY <1>3 DEF PushClaim
  <2>2. HandlersFit
    BY <1>1, <2>1, HandlersStillFit DEF SameHandshake
  <2> QED
    BY <1>1, <2>1, <2>2, CursorAnswersError DEF NoCommit
<1> QED
  BY <1>2, <1>3

(* A statement counts on in its own transaction and writes one row at most. *)
LEMMA PushStatementEffect ==
    ASSUME ProtocolInv, NEW g \in Procs, NEW e \in Entities,
           PushUpsert(g, e) \/ PushDelete(g, e)
    PROVE  LET p == push[g] q == push'[g] IN
           /\ \A h \in Procs : h # g => push'[h] = push[h]
           /\ q.dev = p.dev /\ q.req = p.req /\ q.start = p.start /\ q.i = p.i + 1
           /\ \A f \in Entities : f # e => q.txRows[f] = p.txRows[f]
           /\ q.txRows[e] = p.txRows[e] \/ q.txRows[e].usn = p.start + p.i
<1> DEFINE p == push[g]
<1>1. p \in PushProc
  BY DEF ProtocolInv, TypeOK
<1>2. \A h \in Procs : h # g => push'[h] = push[h]
  BY DEF PushUpsert, PushDelete, ProtocolInv, TypeOK
<1>3. CASE PushUpsert(g, e)
  BY <1>1, <1>2, <1>3 DEF PushUpsert, AssignedUsn, ProtocolInv, TypeOK, PushProc
<1>4. CASE PushDelete(g, e)
  <2>1. CASE push' = [push EXCEPT ![g].i = p.i + 1]
    BY <1>1, <1>2, <2>1 DEF ProtocolInv, TypeOK, PushProc
  <2>2. CASE push' = [push EXCEPT
              ![g].txRows[e] = [usn |-> AssignedUsn(p), del |-> TRUE],
              ![g].txUnits[e] = [usn |-> AssignedUsn(p), op |-> "delete"],
              ![g].i = p.i + 1]
    BY <1>1, <1>2, <2>2 DEF AssignedUsn, ProtocolInv, TypeOK, PushProc
  <2> QED
    BY <1>4, <2>1, <2>2 DEF PushDelete
<1> QED
  BY <1>3, <1>4

(* A statement gives the next USN of its batch's range to one row at most. *)
LEMMA CursorPushStatement ==
    ASSUME ProtocolInv, CursorInv, NEW g \in Procs, NEW e \in Entities,
           PushUpsert(g, e) \/ PushDelete(g, e)
    PROVE  CursorInv'
<1> DEFINE p == push[g]
<1>1. UNCHANGED <<session, rows, cursor, colId, hsk, pull, dev, landed>>
  BY DEF PushUpsert, PushDelete, dbVars
<1>2. /\ Busy(p) /\ p \in PushProc /\ p.i < p.req.n /\ PushFits(p)
      /\ p.start \in Nat /\ p.i \in Nat /\ p.req.n \in Nat
  <2>1. Busy(p) /\ p \in PushProc /\ p.i < p.req.n
    BY DEF PushUpsert, PushDelete, ProtocolInv, TypeOK
  <2>2. PushFits(p)
    BY <2>1 DEF CursorInv, HandlersHoldLock, PushAboveCursor, TxUsnsOK, PushFits
  <2> QED
    BY <2>1, <2>2 DEF PushProc, Request
<1>3. \A h \in Procs : h # g => push'[h] = push[h]
  BY PushStatementEffect
<1>4. /\ push'[g].req = p.req /\ push'[g].start = p.start /\ push'[g].i = p.i + 1
      /\ \A f \in Entities : f # e => push'[g].txRows[f] = p.txRows[f]
      /\ push'[g].txRows[e] = p.txRows[e] \/ push'[g].txRows[e].usn = p.start + p.i
  BY PushStatementEffect
<1>5. PushFits(push'[g])
  <2> DEFINE tx == push'[g].txRows
  <2>1. \A f \in Entities : p.txRows[f].usn \in Nat
    BY <1>2 DEF PushProc, Row
  <2>2. ASSUME NEW f \in Entities, Exists(tx[f])
        PROVE  /\ p.start <= tx[f].usn /\ tx[f].usn < p.start + (p.i + 1)
               /\ \A k \in Entities : f # k => tx[f].usn # tx[k].usn
    <3>1. \A k \in Entities :
             /\ tx[k] = p.txRows[k] \/ (k = e /\ tx[k].usn = p.start + p.i)
             /\ Exists(p.txRows[k]) =>
                   p.start <= p.txRows[k].usn /\ p.txRows[k].usn < p.start + p.i
      BY <1>2, <1>4 DEF PushFits
    <3>2. p.start <= tx[f].usn /\ tx[f].usn < p.start + (p.i + 1)
      BY <1>2, <2>1, <2>2, <3>1
    <3>3. ASSUME NEW k \in Entities, f # k, tx[f].usn = tx[k].usn PROVE FALSE
      <4>1. Exists(tx[k])
        BY <2>2, <3>3 DEF Exists
      <4>2. CASE tx[f] = p.txRows[f] /\ tx[k] = p.txRows[k]
        BY <1>2, <2>2, <3>3, <4>2 DEF PushFits
      <4>3. CASE ~(tx[f] = p.txRows[f] /\ tx[k] = p.txRows[k])
        BY <1>2, <2>1, <2>2, <3>1, <3>3, <4>1, <4>3
      <4> QED
        BY <4>2, <4>3
    <3> QED
      BY <3>2, <3>3
  <2> QED
    BY <1>2, <1>4, <2>2 DEF PushFits
<1>6. HandlersFit
  BY <1>1, <1>3, <1>5 DEF HandlersFit, SameHandshake, CursorInv, HandlersHoldLock
<1> QED
  BY <1>1, <1>6, CursorAnswersError DEF NoCommit

(* What a commit does to the tables: everything it writes lies above what  *)
(* was there, and the cursor ends up above both.                           *)
LEMMA CommittedRows ==
    ASSUME ProtocolInv, CursorInv, NEW g \in Procs, PushCommit(g)
    PROVE  /\ ServerCursor' = push[g].start + push[g].req.n
           /\ ServerCursor <= push[g].start /\ push[g].req.n > 0
           /\ CollectionRowOK' /\ UsnsUnique'
<1> DEFINE p == push[g]
           tx == p.txRows
<1>1. /\ Busy(p) /\ p \in PushProc /\ p.i = p.req.n /\ Exists(Visible(p, Col))
      /\ rows' = Overlay(rows, tx) /\ cursor' = p.start + p.req.n
      /\ rows \in [Entities -> Row] /\ Col \in Entities
  BY EntitiesAssumption DEF PushCommit, CursorUpdateAffectsRow, ProtocolInv, TypeOK
<1>2. p.start \in Nat /\ p.i \in Nat /\ p.req.n \in Nat /\ tx \in [Entities -> Row]
  BY <1>1 DEF PushProc, Request
<1>3. ServerCursor \in Nat /\ ServerCursor <= p.start /\ p.req.n > 0
  BY <1>1, ServerCursorType DEF CursorInv, PushAboveCursor, ProtocolInv
<1>4. \A e \in Entities : rows'[e] = IF Exists(tx[e]) THEN tx[e] ELSE rows[e]
  BY <1>1 DEF Overlay, Exists
<1>5. Exists(rows'[Col])
  BY <1>1, <1>4 DEF Visible
<1>6. ServerCursor' = p.start + p.req.n
  BY <1>1, <1>5 DEF ServerCursor
<1>7. CollectionRowOK'
  BY <1>1, <1>2, <1>3, <1>5 DEF CollectionRowOK
<1>8. \A e \in Entities : rows[e].usn \in Nat /\ tx[e].usn \in Nat
  BY <1>1, <1>2 DEF Row
<1>9. \A e \in Entities : rows[e].usn < p.start
  BY <1>2, <1>3, <1>8 DEF CursorInv, UsnsUnique
<1>10. \A e \in Entities : Exists(tx[e]) =>
          /\ p.start <= tx[e].usn /\ tx[e].usn < p.start + p.req.n
          /\ \A f \in Entities : e # f => tx[e].usn # tx[f].usn
  BY <1>1 DEF CursorInv, TxUsnsOK
<1> HIDE DEF tx
<1>11. ASSUME NEW e \in Entities PROVE rows'[e].usn < p.start + p.req.n
  BY <1>2, <1>3, <1>4, <1>8, <1>9, <1>10
<1>12. ASSUME NEW e \in Entities, NEW f \in Entities, e # f, Exists(rows'[e])
       PROVE  rows'[e].usn # rows'[f].usn
  <2>1. CASE ~Exists(tx[e]) /\ ~Exists(tx[f])
    BY <1>4, <1>12, <2>1 DEF CursorInv, UsnsUnique
  <2>2. CASE Exists(tx[e]) /\ Exists(tx[f])
    BY <1>4, <1>10, <1>12, <2>2
  <2>3. CASE Exists(tx[e]) /\ ~Exists(tx[f])
    BY <1>2, <1>4, <1>8, <1>9, <1>10, <2>3
  <2>4. CASE ~Exists(tx[e]) /\ Exists(tx[f])
    BY <1>2, <1>4, <1>8, <1>9, <1>10, <2>4
  <2> QED
    BY <2>1, <2>2, <2>3, <2>4
<1>13. UsnsUnique'
  BY <1>6, <1>11, <1>12 DEF UsnsUnique
<1> QED
  BY <1>3, <1>6, <1>7, <1>13

(* A commit: the batch is the only one in flight, and the session that     *)
(* claimed it holds the lock.                                              *)
LEMMA CursorPushCommit ==
    ASSUME ProtocolInv, CursorInv, NEW g \in Procs, PushCommit(g)
    PROVE  CursorInv'
<1> DEFINE p == push[g]
           new == [sid |-> p.req.sid, seq |-> p.req.seq,
                   lo |-> p.start, hi |-> p.start + p.req.n]
<1>1. /\ Busy(p) /\ p \in PushProc /\ p.dev \in Devices /\ InService(p, "push", dev)
      /\ session.sid = p.req.sid /\ session.sid # NoSid
  <2>1. Busy(p) /\ p \in PushProc /\ InService(p, "push", dev)
    BY DEF PushCommit, ProtocolInv, TypeOK, RequestsInService
  <2> QED
    BY <2>1, BusyDevice DEF CursorInv, HandlersHoldLock, InService, PushProc
<1>2. session.state = "Pushing" /\ session.cursor = p.start + p.req.n
  BY <1>1 DEF ProtocolInv, HandlersFitSession, Serves
<1>3. /\ p.start \in Nat /\ p.req.n \in Nat /\ ServerCursor \in Nat
      /\ ServerCursor' = p.start + p.req.n
      /\ ServerCursor <= p.start /\ p.req.n > 0
      /\ CollectionRowOK' /\ UsnsUnique'
  BY <1>1, CommittedRows, ServerCursorType DEF PushProc, Request, ProtocolInv
<1>4. /\ push' = [push EXCEPT ![g] = IdlePush] /\ UNCHANGED <<session, hsk, pull>>
      /\ landed' = landed \union {new}
      /\ colId' = IF Exists(p.txRows[Col]) THEN CollectionOf[p.dev] ELSE colId
      /\ Answer(p.dev, p.req, Assigned(dev[p.dev], p))
  BY DEF PushCommit
<1>5. \A h \in Procs : ~Busy(pull[h]) /\ ~Busy(push'[h])
  <2>1. ASSUME NEW h \in Procs PROVE ~Busy(pull[h])
    BY <1>1 DEF CursorInv, HandlersHoldLock, ProtocolInv, OneBatchInFlight
  <2>2. ASSUME NEW h \in Procs, h # g PROVE ~Busy(push[h])
    BY <1>1, <2>2 DEF CursorInv, HandlersHoldLock, ProtocolInv, OneBatchInFlight
  <2> QED
    BY <1>4, <2>1, <2>2, IdleFacts DEF ProtocolInv, TypeOK
<1>6. HandlersHoldLock' /\ PushAboveCursor' /\ TxUsnsOK'
  BY <1>4, <1>5 DEF HandlersHoldLock, PushAboveCursor, TxUsnsOK
<1>7. SessionCursorOK' /\ UncommittedHeldBack' /\ FinishOnlyAfterCommit'
  BY <1>2, <1>3, <1>4 DEF SessionCursorOK, UncommittedHeldBack, FinishOnlyAfterCommit
<1>8. HandshakeCursorOK' /\ HandshakeSawCollection'
  <2>1. ASSUME NEW h \in Procs, Busy(hsk[h])
        PROVE  /\ hsk[h].srv \in Nat /\ hsk[h].srv <= ServerCursor
               /\ hsk[h].state = "Pushing" => hsk[h].cursor = hsk[h].srv
    BY <2>1 DEF CursorInv, HandshakeCursorOK, HandshakeSawCollection, ProtocolInv,
                TypeOK, HskProc
  <2>2. \A h \in Procs : Busy(hsk[h]) => hsk[h].srv < p.start + p.req.n
    BY <1>3, <2>1
  <2> QED
    BY <1>1, <1>3, <1>4, <2>1, <2>2 DEF HandshakeCursorOK, HandshakeSawCollection
<1>9. OneCollection'
  <2>1. ASSUME NEW d \in Devices PROVE dev'[d].sid = dev[d].sid
    <3>1. dev[d] \in Device /\ dev[p.dev] \in Device
      BY <1>1 DEF ProtocolInv, TypeOK
    <3>2. Assigned(dev[p.dev], p).sid = dev[p.dev].sid
      BY <3>1 DEF Assigned, Device
    <3>3. dev'[d] = dev[d] \/ (d = p.dev /\ dev'[d] = Assigned(dev[p.dev], p))
      BY <1>1, <1>4 DEF Answer, ProtocolInv, TypeOK
    <3> QED
      BY <3>2, <3>3
  <2>2. ASSUME NEW d \in Devices, dev[d].sid = session.sid PROVE d = p.dev
    BY <1>1, <2>2 DEF InService, KnownTo
  <2> QED
    BY <1>4, <2>1, <2>2 DEF CursorInv, OneCollection
<1>10. LandedBelowCursor' /\ ReservedForOneBatch'
  <2>1. new.lo = p.start /\ new.hi = p.start + p.req.n
    OBVIOUS
  <2> HIDE DEF new
  <2>2. ASSUME NEW b \in landed
        PROVE  b.lo \in Nat /\ b.hi \in Nat /\ b.lo < b.hi /\ b.hi <= ServerCursor
    BY DEF ProtocolInv, TypeOK, Batch, CursorInv, LandedBelowCursor
  <2>3. LandedBelowCursor'
    BY <1>3, <1>4, <2>1, <2>2 DEF LandedBelowCursor
  <2>4. \A b \in landed : b.hi <= new.lo
    BY <1>3, <2>1, <2>2
  <2> QED
    BY <1>4, <2>3, <2>4 DEF CursorInv, ReservedForOneBatch
<1> QED
  BY <1>3, <1>6, <1>7, <1>8, <1>9, <1>10 DEF CursorInv

LEMMA CursorPushStep ==
    ASSUME ProtocolInv, CursorInv, NEW g \in Procs, PushStep(g)
    PROVE  CursorInv'
<1>1. CASE PushFail(g)
  <2>1. /\ UNCHANGED <<session, rows, cursor, colId, hsk, pull, landed>>
        /\ push' = [push EXCEPT ![g] = IdlePush]
        /\ AnswerError(push[g].dev, push[g].req)
    BY <1>1 DEF PushFail, dbVars
  <2>2. push[g].dev \in Devices
    BY <1>1, BusyDevice DEF PushFail, ProtocolInv, TypeOK, PushProc
  <2>3. \A h \in Procs : Busy(push'[h]) => push'[h] = push[h]
    BY <2>1, IdleFacts DEF ProtocolInv, TypeOK
  <2>4. HandlersFit
    BY <2>1, <2>3, HandlersStillFit DEF SameHandshake
  <2> QED
    BY <2>1, <2>2, <2>4, CursorAnswersError DEF NoCommit
<1> QED
  BY <1>1, CursorPushStatement, CursorPushCommit DEF PushStep

-----------------------------------------------------------------------------
(* The push ends only when all USNs of the session are committed. *)
LEMMA CursorFinishPush ==
    ASSUME ProtocolInv, CursorInv, NEW d \in Devices, FinishPush(d)
    PROVE  CursorInv'
<1> DEFINE r == dev[d].req
<1>1. r.type = "finishPush" /\ UNCHANGED <<rows, cursor, colId, hsk, pull, push, landed>>
  BY DEF FinishPush, Arrives, hdlVars, dbVars
<1>2. NoCommit /\ HandlersFit
  BY <1>1, HandlersStillFit DEF NoCommit, SameHandshake
<1>3. CASE MarkPushFinishedResult(session, r.sid, r.seq) # "ok"
  BY <1>2, <1>3, CursorAnswersError DEF FinishPush
<1>4. CASE MarkPushFinishedResult(session, r.sid, r.seq) = "ok"
  <2>1. session.sid = r.sid /\ session.sid # NoSid /\ session.state = "Pushing"
    BY <1>4 DEF MarkPushFinishedResult
  <2>2. /\ session'.sid = session.sid /\ session'.state = "AwaitingFinish"
        /\ session'.cursor = session.cursor
    BY <1>4 DEF FinishPush, PushFinished, ProtocolInv, TypeOK, Session
  <2>3. session.cursor = ServerCursor
    BY <1>1, <2>1 DEF CursorInv, UncommittedHeldBack, KnownTo
  <2>4. ServerCursor' = ServerCursor /\ ServerCursor \in Nat
    BY <1>1, ServerCursorType DEF ServerCursor, ProtocolInv
  <2>5. SessionCursorOK' /\ UncommittedHeldBack' /\ FinishOnlyAfterCommit'
    BY <2>2, <2>3, <2>4 DEF SessionCursorOK, UncommittedHeldBack, FinishOnlyAfterCommit
  <2>6. NobodyJoins
    <3>1. Answer(d, r, [dev[d] EXCEPT !.phase = "finish", !.waiting = FALSE])
      BY <1>4 DEF FinishPush
    <3>2. ASSUME NEW e \in Devices PROVE dev'[e].sid = dev[e].sid
      <4>1. dev[e] \in Device /\ dev[d] \in Device
        BY DEF ProtocolInv, TypeOK
      <4>2. \/ dev'[e] = dev[e]
            \/ e = d /\ dev'[e] = [dev[d] EXCEPT !.phase = "finish", !.waiting = FALSE]
        BY <3>1 DEF Answer, ProtocolInv, TypeOK
      <4> QED
        BY <4>1, <4>2 DEF Device
    <3> QED
      BY <3>2 DEF NobodyJoins
  <2> QED
    BY <1>2, <2>2, <2>5, <2>6, CursorFrame DEF ProtocolInv
<1> QED
  BY <1>3, <1>4

(* The session ends with no batch in flight and no handshake behind.       *)
LEMMA CursorSessionEnds ==
    ASSUME CursorInv, NoCommit, session' = NoSession, UNCHANGED <<hsk, pull, push>>,
           HandshakesFresh, \A g \in Procs : ~Busy(pull[g]) /\ ~Busy(push[g])
    PROVE  CursorInv'
<1>1. /\ UNCHANGED <<rows, cursor, colId, landed>> /\ ServerCursor' = ServerCursor
      /\ session'.sid = NoSid /\ session'.state = "Unspecified"
  BY DEF NoCommit, NoSession, ServerCursor
<1>2. HandlersHoldLock' /\ PushAboveCursor' /\ TxUsnsOK'
  BY DEF HandlersHoldLock, PushAboveCursor, TxUsnsOK
<1>3. SessionCursorOK' /\ UncommittedHeldBack' /\ FinishOnlyAfterCommit' /\ OneCollection'
  BY <1>1 DEF SessionCursorOK, UncommittedHeldBack, FinishOnlyAfterCommit, OneCollection
<1>4. HandshakeCursorOK' /\ HandshakeSawCollection'
  BY <1>1 DEF CursorInv, HandshakesFresh, HandshakeCursorOK, HandshakeSawCollection
<1>5. CollectionRowOK' /\ UsnsUnique' /\ LandedBelowCursor' /\ ReservedForOneBatch'
  BY <1>1 DEF CursorInv, CollectionRowOK, UsnsUnique, LandedBelowCursor,
              ReservedForOneBatch
<1> QED
  BY <1>2, <1>3, <1>4, <1>5 DEF CursorInv

LEMMA CursorFinCheck ==
    ASSUME ProtocolInv, CursorInv, NEW g \in Procs, NEW d \in Devices, FinCheck(g, d)
    PROVE  CursorInv'
<1>1. /\ UNCHANGED <<session, rows, cursor, colId, hsk, pull, push, landed>>
      /\ UNCHANGED dev \/ AnswerError(d, dev[d].req)
  BY DEF FinCheck, dbVars
<1>2. HandlersFit
  BY <1>1, HandlersStillFit DEF SameHandshake
<1> QED
  BY <1>1, <1>2, CursorAnswersError DEF NoCommit

(* A FinishSync releases the session when its batches are done. *)
LEMMA CursorFinStep ==
    ASSUME ~StaleHandshake, ProtocolInv, CursorInv, NEW g \in Procs, FinStep(g)
    PROVE  CursorInv'
<1>1. UNCHANGED <<rows, cursor, colId, hsk, pull, push, landed>> /\ Busy(fin[g])
  BY DEF FinStep, FinUpdateTime, FinRelease, FinFail, dbVars
<1>2. CASE FinRelease(g) /\ ReleaseResult(session, fin[g].req.sid) = "ok"
  <2>1. /\ session.sid = fin[g].req.sid /\ session.sid # NoSid
        /\ HandshakesFresh /\ session' = NoSession
    BY <1>2 DEF FinRelease, ReleaseResult
  <2>2. session.state \in {"AwaitingPushOrFinish", "AwaitingFinish"}
    BY <1>1, <2>1 DEF ProtocolInv, HandlersFitSession, Serves
  <2>3. ASSUME NEW h \in Procs PROVE ~Busy(pull[h]) /\ ~Busy(push[h])
    BY <2>2 DEF ProtocolInv, HandlersFitSession, CursorInv, HandlersHoldLock, Serves
  <2> QED
    BY <1>1, <2>1, <2>3, CursorSessionEnds DEF NoCommit
<1>3. CASE ~(FinRelease(g) /\ ReleaseResult(session, fin[g].req.sid) = "ok")
  <2>1. UNCHANGED session /\ (UNCHANGED dev \/ AnswerError(fin[g].dev, fin[g].req))
    BY <1>3 DEF FinStep, FinUpdateTime, FinRelease, FinFail
  <2>2. fin[g].dev \in Devices
    BY <1>1, BusyDevice DEF ProtocolInv, TypeOK, FinProc
  <2>3. HandlersFit
    BY <1>1, HandlersStillFit DEF SameHandshake
  <2> QED
    BY <1>1, <2>1, <2>2, <2>3, CursorAnswersError DEF NoCommit
<1> QED
  BY <1>2, <1>3

LEMMA CursorExpire ==
    ASSUME ~SlowHandlers, CursorInv, Expire
    PROVE  CursorInv'
<1>1. HandlersPrompt /\ session' = NoSession /\ NoCommit /\ UNCHANGED <<hsk, pull, push>>
  BY DEF Expire, NoCommit, dbVars, hdlVars
<1>2. \A g \in Procs : ~Busy(pull[g]) /\ ~Busy(push[g])
  BY <1>1 DEF HandlersPrompt, Serves, CursorInv, HandlersHoldLock
<1> QED
  BY <1>1, <1>2, CursorSessionEnds DEF HandlersPrompt

LEMMA CursorNext ==
    ASSUME ~SlowHandlers, ~StaleHandshake,
           ProtocolInv, ProtocolInv', CursorInv, [Next]_vars
    PROVE  CursorInv'
<1>1. CASE \E d \in Devices : DeviceStep(d)
  BY <1>1, CursorDevice
<1>2. CASE \E g \in Procs, d \in Devices : RequestStep(g, d)
  BY <1>2, CursorHskRead, CursorPullClaim, CursorPushClaim, CursorFinishPush,
     CursorFinCheck
  DEF RequestStep
<1>3. CASE \E g \in Procs : HskStep(g) \/ PullStep(g) \/ PushStep(g) \/ FinStep(g)
  BY <1>3, CursorHskStep, CursorPullStep, CursorPushStep, CursorFinStep
<1>4. CASE Expire
  BY <1>4, CursorExpire
<1>5. CASE UNCHANGED vars
  <2>1. UNCHANGED <<session, rows, cursor, colId, hsk, pull, push, dev, landed>>
    BY <1>5 DEF vars, hdlVars, dbVars
  <2>2. HandlersFit
    BY <2>1, HandlersStillFit DEF SameHandshake
  <2> QED
    BY <2>1, <2>2, CursorAnswersError DEF NoCommit
<1> QED
  BY <1>1, <1>2, <1>3, <1>4, <1>5 DEF Next

(* While handlers are short beside the TTL and no session that has         *)
(* committed ends inside a handshake, the session's cursor, the batches in *)
(* flight, the handshakes under way and the tables fit together as         *)
(* CursorInv says.                                                         *)
THEOREM CursorCorrect ==
    ASSUME ~SlowHandlers, ~StaleHandshake
    PROVE  Spec => []CursorInv
<1>1. ProtocolInv /\ ProtocolInv' /\ CursorInv /\ [Next]_vars => CursorInv'
  BY CursorNext
<1> QED
  BY <1>1, CursorInit, ProtocolCorrect, PTL DEF Spec

(* A handler that has claimed a batch holds the user's sync lock until it  *)
(* is done, so that no other device's sync runs beside it.                 *)
THEOREM LockHeld ==
    ASSUME ~SlowHandlers, ~StaleHandshake
    PROVE  Spec => []HandlersHoldLock
<1>1. CursorInv => HandlersHoldLock
  BY DEF CursorInv
<1> QED
  BY <1>1, CursorCorrect, PTL

(* No two rows ever share a USN, and sync_cursor_usn is above every row's. *)
THEOREM UsnsOrdered ==
    ASSUME ~SlowHandlers, ~StaleHandshake
    PROVE  Spec => []UsnsUnique
<1>1. CursorInv => UsnsUnique
  BY DEF CursorInv
<1> QED
  BY <1>1, CursorCorrect, PTL

(* The USNs that claim_push_batch.lua reserves are used by one batch only, *)
(* whichever sessions the batches belong to.                               *)
THEOREM ReservedOnce ==
    ASSUME ~SlowHandlers, ~StaleHandshake
    PROVE  Spec => []ReservedForOneBatch
<1>1. CursorInv => ReservedForOneBatch
  BY DEF CursorInv
<1> QED
  BY <1>1, CursorCorrect, PTL

(* After a push, FinishSync is allowed only when every USN the session     *)
(* handed out is committed.                                                *)
THEOREM FinishAfterCommit ==
    ASSUME ~SlowHandlers, ~StaleHandshake
    PROVE  Spec => []FinishOnlyAfterCommit
<1>1. CursorInv => FinishOnlyAfterCommit
  BY DEF CursorInv
<1> QED
  BY <1>1, CursorCorrect, PTL

(* The device that holds the lock has the server's collection: one that    *)
(* created a collection of its own never mixes its data into the server's. *)
THEOREM CollectionsKeptApart ==
    ASSUME ~SlowHandlers, ~StaleHandshake
    PROVE  Spec => []OneCollection
<1>1. CursorInv => OneCollection
  BY DEF CursorInv
<1> QED
  BY <1>1, CursorCorrect, PTL

-----------------------------------------------------------------------------
(***************************************************************************)
(* The service implements the log of UsnLog: the session is the lock, its  *)
(* creation and end acquire and release it, a commit appends a batch, and  *)
(* every other step stutters.                                              *)
(***************************************************************************)
LEMMA LogInitially == Init => Log!LogInit
<1> SUFFICES ASSUME Init PROVE Log!LogInit
  OBVIOUS
<1>1. session.sid = 0 /\ nextSid - 1 = 0 /\ landed = {}
  BY DEF Init, NoSession, NoSid
<1>2. ServerCursor \in Nat \ {0}
  BY BoundsAssumption DEF Init, ServerCursor
<1> QED
  BY <1>1, <1>2 DEF Log!LogInit

LEMMA LogStutters ==
    ASSUME session'.sid = session.sid, UNCHANGED <<nextSid, rows, cursor, landed>>
    PROVE  UNCHANGED Log!logVars
BY DEF ServerCursor, Log!logVars

LEMMA LogAcquires ==
    ASSUME ProtocolInv, NEW g \in Procs, HskCreate(g),
           CreateSessionResult(session) = "ok"
    PROVE  Log!Acquire
<1>1. session.sid = 0 /\ nextSid \in Nat
  BY DEF CreateSessionResult, NoSid, ProtocolInv, TypeOK
<1>2. session'.sid = nextSid /\ nextSid' = nextSid + 1
  BY DEF HskCreate, CreateSessionResult, CreatedSession
<1>3. UNCHANGED <<rows, cursor, landed>>
  BY DEF HskCreate, dbVars
<1>4. ServerCursor' = ServerCursor
  BY <1>3 DEF ServerCursor
<1> QED
  BY <1>1, <1>2, <1>3, <1>4 DEF Log!Acquire

LEMMA LogReleases ==
    ASSUME session.sid # NoSid, session' = NoSession,
           UNCHANGED <<nextSid, rows, cursor, landed>>
    PROVE  Log!Release
BY DEF NoSid, NoSession, ServerCursor, Log!Release

LEMMA LogAppends ==
    ASSUME ProtocolInv, CursorInv, NEW g \in Procs, PushCommit(g)
    PROVE  Log!Append
<1> DEFINE p == push[g]
           new == [sid |-> p.req.sid, seq |-> p.req.seq,
                   lo |-> p.start, hi |-> p.start + p.req.n]
<1>1. /\ Busy(p) /\ p \in PushProc /\ p.req.sid # NoSid /\ session.sid = p.req.sid
  BY DEF PushCommit, ProtocolInv, TypeOK, RequestsInService, InService, CursorInv,
         HandlersHoldLock
<1>2. landed' = landed \union {new} /\ UNCHANGED <<session, nextSid>>
  BY DEF PushCommit
<1>3. /\ ServerCursor' = p.start + p.req.n
      /\ ServerCursor <= p.start /\ p.req.n > 0
  BY CommittedRows
<1>4. p.start \in Nat /\ p.req.n \in Nat
  BY <1>1 DEF PushProc, Request
<1>5. new.sid = p.req.sid /\ new.lo = p.start /\ new.hi = p.start + p.req.n
  OBVIOUS
<1> HIDE DEF new
<1>6. /\ new \in landed' /\ new.sid = session.sid
      /\ ServerCursor <= new.lo /\ new.lo < new.hi /\ new.hi = ServerCursor'
  BY <1>1, <1>2, <1>3, <1>4, <1>5
<1> QED
  BY <1>1, <1>2, <1>6 DEF Log!Append, NoSid

LEMMA LogStep ==
    ASSUME ProtocolInv, CursorInv, [Next]_vars
    PROVE  [Log!LogNext]_(Log!logVars)
<1> USE DEF dbVars, hdlVars
<1>1. ASSUME NEW d \in Devices, DeviceStep(d) PROVE UNCHANGED Log!logVars
  BY <1>1, LogStutters
  DEF DeviceStep, StartSync, SendPull, SendPush, SendFinishPush, SendFinishSync,
      GiveUp, Send
<1>2. ASSUME NEW g \in Procs, NEW d \in Devices, RequestStep(g, d)
      PROVE  UNCHANGED Log!logVars
  <2>1. UNCHANGED <<nextSid, rows, cursor, landed>>
    BY <1>2 DEF RequestStep, HskRead, PullClaim, PushClaim, FinishPush, FinCheck
  <2>2. session'.sid = session.sid
    <3>1. session \in Session
      BY DEF ProtocolInv, TypeOK
    <3> QED
      BY <1>2, <3>1
      DEF RequestStep, HskRead, PullClaim, PushClaim, FinishPush, FinCheck,
          PullClaimed, PushClaimed, PushFinished, Session
  <2> QED
    BY <2>1, <2>2, LogStutters
<1>3. ASSUME NEW g \in Procs, HskStep(g) PROVE Log!LogNext \/ UNCHANGED Log!logVars
  <2>1. CASE HskCreate(g) /\ CreateSessionResult(session) = "ok"
    BY <2>1, LogAcquires DEF Log!LogNext
  <2>2. CASE ~(HskCreate(g) /\ CreateSessionResult(session) = "ok")
    BY <1>3, <2>2, LogStutters
    DEF HskStep, HskQueue, HskCreate, HskFail, CreateSessionResult
  <2> QED
    BY <2>1, <2>2
<1>4. ASSUME NEW g \in Procs, PullStep(g) PROVE UNCHANGED Log!logVars
  <2>1. UNCHANGED <<nextSid, rows, cursor, landed>>
    BY <1>4 DEF PullStep, PullQuery, PullSave, PullFail
  <2>2. session'.sid = session.sid
    <3>1. \/ session' = session
          \/ session' = PullFinished(session)
          \/ session' = PullProgressed(session, pull[g].queue, pull[g].cur)
      BY <1>4 DEF PullStep, PullQuery, PullSave, PullFail
    <3>2. session \in Session
      BY DEF ProtocolInv, TypeOK
    <3> QED
      BY <3>1, <3>2 DEF PullFinished, PullProgressed, Session
  <2> QED
    BY <2>1, <2>2, LogStutters
<1>5. ASSUME NEW g \in Procs, PushStep(g) PROVE Log!LogNext \/ UNCHANGED Log!logVars
  <2>1. CASE PushCommit(g)
    BY <2>1, LogAppends DEF Log!LogNext
  <2>2. CASE ~PushCommit(g)
    BY <1>5, <2>2, LogStutters DEF PushStep, PushUpsert, PushDelete, PushFail
  <2> QED
    BY <2>1, <2>2
<1>6. ASSUME NEW g \in Procs, FinStep(g) PROVE Log!LogNext \/ UNCHANGED Log!logVars
  <2>1. UNCHANGED <<nextSid, rows, cursor, landed>>
    BY <1>6 DEF FinStep, FinUpdateTime, FinRelease, FinFail
  <2>2. UNCHANGED session \/ (session.sid # NoSid /\ session' = NoSession)
    BY <1>6 DEF FinStep, FinUpdateTime, FinRelease, FinFail, ReleaseResult
  <2> QED
    BY <2>1, <2>2, LogStutters, LogReleases DEF Log!LogNext
<1>7. CASE Expire
  BY <1>7, LogReleases DEF Expire, Log!LogNext
<1>8. CASE UNCHANGED vars
  BY <1>8, LogStutters DEF vars
<1> QED
  BY <1>1, <1>2, <1>3, <1>4, <1>5, <1>6, <1>7, <1>8 DEF Next

(* The service implements the log: whatever handlers, handshakes and       *)
(* expiries do, a batch commits only under its own session's lock, and at  *)
(* or above every USN that was ever committed.                             *)
THEOREM LogImplemented ==
    ASSUME ~SlowHandlers, ~StaleHandshake
    PROVE  Spec => ImplementsLog
<1>1. ProtocolInv /\ CursorInv /\ [Next]_vars => [Log!LogNext]_(Log!logVars)
  BY LogStep
<1> QED
  BY <1>1, LogInitially, ProtocolCorrect, CursorCorrect, PTL
  DEF Spec, ImplementsLog, Log!LogSpec

-----------------------------------------------------------------------------
(***************************************************************************)
(* The recorded time, under any timing.  A FinishSync that passes its      *)
(* check is the last request of its session: no batch is in flight then,   *)
(* and none can be claimed after it.                                       *)
(***************************************************************************)

(* What a step may do to a device: nothing, make it give up, send, answer  *)
(* a request that is no FinishSync, or bring it into a new session.        *)
DevicesMove ==
    \A d \in Devices :
        \/ dev'[d] = dev[d]
        \/ dev'[d].sid = NoSid /\ dev'[d].req = dev[d].req
        \/ /\ ~dev[d].waiting
           /\ dev'[d].sid = dev[d].sid /\ dev'[d].req.sid = dev[d].sid
        \/ /\ dev[d].req.type # "finishSync"
           /\ dev'[d].sid = dev[d].sid /\ dev'[d].req = dev[d].req
        \/ dev'[d].sid = nextSid /\ dev'[d].req.sid = NoSid

(* Batch handlers go on, end, or begin with the last request of a device.  *)
BatchOrigin(p, q) ==
    Busy(p) => \/ Busy(q) /\ p.req = q.req
               \/ \E d \in Devices : /\ p.req = dev[d].req
                                     /\ dev[d].req.type \in {"pull", "push"}

HandlersMove ==
    \A g \in Procs : /\ BatchOrigin(pull'[g], pull[g])
                     /\ BatchOrigin(push'[g], push[g])
                     /\ Busy(fin'[g]) => Busy(fin[g]) /\ fin'[g].req = fin[g].req

LEMMA RecordedFrame ==
    ASSUME ProtocolInv, RecordedInv, UNCHANGED lastSync,
           nextSid' = nextSid \/ nextSid' = nextSid + 1, DevicesMove, HandlersMove
    PROVE  RecordedInv'
<1>1. nextSid \in Nat /\ lastSync \in Nat /\ lastSync < nextSid
  BY DEF ProtocolInv, TypeOK, RecordedInv
<1>2. FinishAlone'
  <2>1. ASSUME NEW g \in Procs, NEW h \in Procs, Busy(fin'[g]),
               NEW p, NEW q, BatchOrigin(p, q), ~Serves(q, fin[g].req.sid)
        PROVE  ~Serves(p, fin'[g].req.sid)
    <3>1. Busy(fin[g]) /\ fin'[g].req = fin[g].req
      BY <2>1 DEF HandlersMove
    <3>2. \A d \in Devices : dev[d].req.sid = fin[g].req.sid => dev[d].req.type = "finishSync"
      BY <3>1, ServesLastRequest DEF Serves
    <3> QED
      BY <2>1, <3>1, <3>2 DEF BatchOrigin, Serves
  <2>2. \A g, h \in Procs : Busy(fin'[g]) => /\ ~Serves(pull[h], fin[g].req.sid)
                                             /\ ~Serves(push[h], fin[g].req.sid)
    BY DEF HandlersMove, RecordedInv, FinishAlone
  <2> QED
    BY <2>1, <2>2 DEF HandlersMove, FinishAlone
<1>3. RecordedDevicesOver'
  BY <1>1 DEF DevicesMove, RecordedInv, RecordedDevicesOver, KnownTo, NoSid
<1>4. RecordedSyncIsOver'
  <2>1. ASSUME NEW p, NEW q, BatchOrigin(p, q), lastSync # 0,
               Busy(q) => q.req.sid # lastSync
        PROVE  Busy(p) => p.req.sid # lastSync
    BY <2>1 DEF BatchOrigin, RecordedInv, RecordedDevicesOver, KnownTo
  <2> QED
    BY <2>1 DEF HandlersMove, RecordedInv, RecordedSyncIsOver
<1> QED
  BY <1>1, <1>2, <1>3, <1>4 DEF RecordedInv

LEMMA StayingMoves ==
    ASSUME ProtocolInv, DevicesStay
    PROVE  DevicesMove
<1>1. \A d \in Devices : dev[d] \in Device
  BY DEF ProtocolInv, TypeOK
<1> QED
  BY <1>1, AbandonedFields DEF DevicesStay, DevicesMove

LEMMA ErrorMoves ==
    ASSUME ProtocolInv, UNCHANGED dev \/ \E d \in Devices : \E r : AnswerError(d, r)
    PROVE  DevicesMove
<1>1. DevicesStay
  BY AnswerErrorGivesUp DEF DevicesStay, DevicesKeepOrGiveUp
<1> QED
  BY <1>1, StayingMoves

(* An answer to a request that is no FinishSync leaves the device in its   *)
(* session, and its request as it was.                                     *)
LEMMA AnswerMoves ==
    ASSUME ProtocolInv, NEW d \in Devices, NEW r, NEW dv, Answer(d, r, dv),
           r.type # "finishSync", dv.sid = dev[d].sid, dv.req = dev[d].req
    PROVE  DevicesMove
<1>1. ASSUME NEW e \in Devices
      PROVE  dev'[e] = dev[e] \/ (e = d /\ dev[d].req = r /\ dev'[e] = dv)
  BY DEF Answer, ProtocolInv, TypeOK
<1> QED
  BY <1>1 DEF DevicesMove

LEMMA RecordedDevice ==
    ASSUME ProtocolInv, RecordedInv, NEW d \in Devices, DeviceStep(d)
    PROVE  RecordedInv'
<1>1. UNCHANGED <<nextSid, lastSync, pull, push, fin>>
  BY DEF DeviceStep, StartSync, SendPull, SendPush, SendFinishPush, SendFinishSync,
         GiveUp, Send, dbVars, hdlVars
<1>2. HandlersMove
  BY <1>1 DEF HandlersMove, BatchOrigin
<1> QED
  BY <1>1, <1>2, DeviceStays, StayingMoves, RecordedFrame

(* A request arrives: a claim takes the last request of its device, and a  *)
(* FinishSync passes its check only while no batch is in flight.           *)
LEMMA RecordedRequest ==
    ASSUME ProtocolInv, RecordedInv, NEW g \in Procs, NEW d \in Devices, RequestStep(g, d)
    PROVE  RecordedInv'
<1> DEFINE r == dev[d].req
<1>1. UNCHANGED <<nextSid, lastSync>>
  BY DEF RequestStep, HskRead, PullClaim, PushClaim, FinishPush, FinCheck, dbVars
<1>2. CASE HskRead(g, d)
  <2>1. UNCHANGED <<pull, push, fin>> /\ (UNCHANGED dev \/ AnswerError(d, r))
    BY <1>2 DEF HskRead
  <2>2. HandlersMove
    BY <2>1 DEF HandlersMove, BatchOrigin
  <2> QED
    BY <1>1, <2>1, <2>2, ErrorMoves, RecordedFrame
<1>3. CASE PullClaim(g, d) \/ PushClaim(g, d)
  <2>1. UNCHANGED fin /\ (UNCHANGED dev \/ AnswerError(d, r))
    BY <1>3 DEF PullClaim, PushClaim
  <2>2. ASSUME NEW h \in Procs
        PROVE  BatchOrigin(pull'[h], pull[h]) /\ BatchOrigin(push'[h], push[h])
    <3>1. CASE PullClaim(g, d)
      <4>1. pull'[h] = pull[h] \/ pull'[h] = ClaimPullBatchResult(d, r)
        BY <3>1 DEF PullClaim, ProtocolInv, TypeOK
      <4>2. ClaimPullBatchResult(d, r).req = r /\ r.type = "pull" /\ UNCHANGED push
        BY <3>1 DEF PullClaim, Arrives, ClaimPullBatchResult, IdlePull
      <4> QED
        BY <4>1, <4>2 DEF BatchOrigin
    <3>2. CASE PushClaim(g, d)
      <4>1. push'[h] = push[h] \/ push'[h] = ClaimPushBatchResult(d, r)
        BY <3>2 DEF PushClaim, ProtocolInv, TypeOK
      <4>2. ClaimPushBatchResult(d, r).req = r /\ r.type = "push" /\ UNCHANGED pull
        BY <3>2 DEF PushClaim, Arrives, ClaimPushBatchResult, IdlePush
      <4> QED
        BY <4>1, <4>2 DEF BatchOrigin
    <3> QED
      BY <1>3, <3>1, <3>2
  <2>3. HandlersMove
    BY <2>1, <2>2 DEF HandlersMove
  <2> QED
    BY <1>1, <2>1, <2>3, ErrorMoves, RecordedFrame
<1>4. CASE FinishPush(d)
  <2>1. UNCHANGED <<pull, push, fin>> /\ r.type = "finishPush"
    BY <1>4 DEF FinishPush, Arrives, hdlVars
  <2>2. HandlersMove
    BY <2>1 DEF HandlersMove, BatchOrigin
  <2>3. DevicesMove
    <3> DEFINE dv == [dev[d] EXCEPT !.phase = "finish", !.waiting = FALSE]
    <3>1. Answer(d, r, dv) \/ AnswerError(d, r)
      BY <1>4 DEF FinishPush
    <3>2. dv.sid = dev[d].sid /\ dv.req = dev[d].req
      BY DEF ProtocolInv, TypeOK, Device
    <3> QED
      BY <2>1, <3>1, <3>2, AnswerMoves, ErrorMoves
  <2> QED
    BY <1>1, <2>2, <2>3, RecordedFrame
<1>5. CASE FinCheck(g, d)
  <2>1. UNCHANGED <<pull, push>> /\ (UNCHANGED dev \/ AnswerError(d, r))
    BY <1>5 DEF FinCheck
  <2>2. CASE UNCHANGED fin
    BY <1>1, <2>1, <2>2, ErrorMoves, RecordedFrame DEF HandlersMove, BatchOrigin
  <2>3. CASE fin' # fin
    <3>1. /\ CheckFinishResult(session, r.sid) = "ok" /\ UNCHANGED dev
          /\ fin' = [fin EXCEPT ![g] = [IdleFin EXCEPT !.dev = d, !.req = r]]
      BY <1>5, <2>3 DEF FinCheck
    <3>2. /\ session.sid = r.sid
          /\ session.state \in {"AwaitingPushOrFinish", "AwaitingFinish"}
      BY <3>1 DEF CheckFinishResult
    <3>3. \A h \in Procs : ~Serves(pull[h], r.sid) /\ ~Serves(push[h], r.sid)
      BY <3>2 DEF ProtocolInv, HandlersFitSession
    <3>4. \A h \in Procs : fin'[h] = fin[h] \/ fin'[h].req = r
      BY <3>1 DEF ProtocolInv, TypeOK, IdleFin
    <3>5. FinishAlone'
      BY <2>1, <3>3, <3>4 DEF FinishAlone, RecordedInv
    <3> QED
      BY <1>1, <2>1, <3>1, <3>5 DEF RecordedInv, RecordedDevicesOver, RecordedSyncIsOver
  <2> QED
    BY <2>2, <2>3
<1> QED
  BY <1>2, <1>3, <1>4, <1>5 DEF RequestStep

LEMMA RecordedHskStep ==
    ASSUME ProtocolInv, RecordedInv, NEW g \in Procs, HskStep(g)
    PROVE  RecordedInv'
<1> DEFINE p == hsk[g]
<1>1. /\ UNCHANGED <<lastSync, pull, push, fin>>
      /\ nextSid' = nextSid \/ nextSid' = nextSid + 1
  BY DEF HskStep, HskQueue, HskCreate, HskFail, dbVars
<1>2. HandlersMove
  BY <1>1 DEF HandlersMove, BatchOrigin
<1>3. p.dev \in Devices /\ p.req.sid = NoSid
  <2>1. Busy(p) /\ p \in HskProc
    BY DEF HskStep, HskQueue, HskCreate, HskFail, ProtocolInv, TypeOK
  <2> QED
    BY <2>1, BusyDevice DEF HskProc, ProtocolInv, RequestsInService, HandshakeOK
<1>4. DevicesMove
  <2>1. CASE UNCHANGED dev \/ AnswerError(p.dev, p.req)
    BY <1>3, <2>1, ErrorMoves
  <2>2. CASE Answer(p.dev, p.req, Joined(dev[p.dev], nextSid, p.state))
    <3>1. ASSUME NEW d \in Devices
          PROVE  \/ dev'[d] = dev[d]
                 \/ dev[d].req = p.req /\ dev'[d] = Joined(dev[d], nextSid, p.state)
      BY <1>3, <2>2 DEF Answer, ProtocolInv, TypeOK
    <3>2. ASSUME NEW d \in Devices
          PROVE  LET j == Joined(dev[d], nextSid, p.state) IN
                 j.req = dev[d].req /\ j.sid \in {NoSid, nextSid}
      <4>1. dev[d] \in Device
        BY DEF ProtocolInv, TypeOK
      <4> QED
        BY <4>1, AbandonedFields DEF Joined, Device
    <3> QED
      BY <1>3, <3>1, <3>2 DEF DevicesMove
  <2> QED
    BY <2>1, <2>2 DEF HskStep, HskQueue, HskCreate, HskFail
<1> QED
  BY <1>1, <1>2, <1>4, RecordedFrame

LEMMA RecordedPullStep ==
    ASSUME ProtocolInv, RecordedInv, NEW g \in Procs, PullStep(g)
    PROVE  RecordedInv'
<1> DEFINE p == pull[g]
<1>1. UNCHANGED <<nextSid, lastSync, push, fin>>
  BY DEF PullStep, PullQuery, PullSave, PullFail, dbVars
<1>2. Busy(p) /\ p.dev \in Devices /\ p.req.type = "pull"
  <2>1. Busy(p) /\ p \in PullProc
    BY DEF PullStep, PullQuery, PullSave, PullFail, ProtocolInv, TypeOK
  <2> QED
    BY <2>1, BusyDevice DEF PullProc, ProtocolInv, RequestsInService, InService
<1>3. HandlersMove
  <2>1. ASSUME NEW h \in Procs PROVE BatchOrigin(pull'[h], pull[h])
    <3>1. CASE pull' = [pull EXCEPT ![g] = IdlePull]
      BY <3>1, IdleFacts DEF BatchOrigin, ProtocolInv, TypeOK
    <3>2. CASE SameTask(pull'[h], pull[h])
      BY <3>2 DEF SameTask, BatchOrigin, Busy
    <3> QED
      BY <3>1, <3>2, PullQueryKeepsTask DEF PullStep, PullSave, PullFail
  <2> QED
    BY <1>1, <2>1 DEF HandlersMove, BatchOrigin
<1>4. DevicesMove
  <2>1. CASE UNCHANGED dev \/ AnswerError(p.dev, p.req)
    BY <1>2, <2>1, ErrorMoves
  <2>2. CASE Answer(p.dev, p.req, Received(dev[p.dev], p))
    <3>1. dev[p.dev] \in Device
      BY <1>2 DEF ProtocolInv, TypeOK
    <3>2. LET v == Received(dev[p.dev], p) IN
          v.sid = dev[p.dev].sid /\ v.req = dev[p.dev].req
      BY <3>1 DEF Received, Device
    <3> QED
      BY <1>2, <2>2, <3>2, AnswerMoves
  <2> QED
    BY <2>1, <2>2 DEF PullStep, PullQuery, PullSave, PullFail
<1> QED
  BY <1>1, <1>3, <1>4, RecordedFrame

LEMMA RecordedPushStep ==
    ASSUME ProtocolInv, RecordedInv, NEW g \in Procs, PushStep(g)
    PROVE  RecordedInv'
<1> DEFINE p == push[g]
<1>1. UNCHANGED <<nextSid, lastSync, pull, fin>>
  BY DEF PushStep, PushUpsert, PushDelete, PushCommit, PushFail, dbVars
<1>2. Busy(p) /\ p \in PushProc /\ p.dev \in Devices /\ p.req.type = "push"
  <2>1. Busy(p) /\ p \in PushProc
    BY DEF PushStep, PushUpsert, PushDelete, PushCommit, PushFail, ProtocolInv, TypeOK
  <2> QED
    BY <2>1, BusyDevice DEF PushProc, ProtocolInv, RequestsInService, InService
<1>3. HandlersMove
  <2>1. ASSUME NEW h \in Procs PROVE BatchOrigin(push'[h], push[h])
    <3>1. CASE push' = [push EXCEPT ![g] = IdlePush]
      BY <3>1, IdleFacts DEF BatchOrigin, ProtocolInv, TypeOK
    <3>2. CASE \E e \in Entities : PushUpsert(g, e) \/ PushDelete(g, e)
      <4>1. push'[h].dev = push[h].dev /\ push'[h].req = push[h].req
        BY <3>2, PushStatementEffect
      <4> QED
        BY <4>1 DEF BatchOrigin, Busy
    <3> QED
      BY <3>1, <3>2 DEF PushStep, PushCommit, PushFail
  <2> QED
    BY <1>1, <2>1 DEF HandlersMove, BatchOrigin
<1>4. DevicesMove
  <2>1. CASE UNCHANGED dev \/ AnswerError(p.dev, p.req)
    BY <1>2, <2>1, ErrorMoves
  <2>2. CASE Answer(p.dev, p.req, Assigned(dev[p.dev], p))
    <3>1. dev[p.dev] \in Device
      BY <1>2 DEF ProtocolInv, TypeOK
    <3>2. LET v == Assigned(dev[p.dev], p) IN
          v.sid = dev[p.dev].sid /\ v.req = dev[p.dev].req
      BY <3>1 DEF Assigned, Device
    <3> QED
      BY <1>2, <2>2, <3>2, AnswerMoves
  <2> QED
    BY <2>1, <2>2 DEF PushStep, PushUpsert, PushDelete, PushCommit, PushFail
<1> QED
  BY <1>1, <1>3, <1>4, RecordedFrame

(* Only here is a time recorded: its session has no batch in flight, and   *)
(* its device has sent its last request in it.                             *)
LEMMA RecordedFinStep ==
    ASSUME ProtocolInv, RecordedInv, NEW g \in Procs, FinStep(g)
    PROVE  RecordedInv'
<1> DEFINE p == fin[g]
<1>1. UNCHANGED <<nextSid, pull, push>>
  BY DEF FinStep, FinUpdateTime, FinRelease, FinFail
<1>2. /\ Busy(p) /\ p \in FinProc /\ p.dev \in Devices
      /\ InService(p, "finishSync", dev) /\ p.req.sid < nextSid
  <2>1. Busy(p) /\ p \in FinProc
    BY DEF FinStep, FinUpdateTime, FinRelease, FinFail, ProtocolInv, TypeOK
  <2> QED
    BY <2>1, BusyDevice DEF FinProc, ProtocolInv, RequestsInService, SidsHandedOut
<1>3. CASE FinUpdateTime(g)
  <2>1. /\ lastSync' = IF Exists(rows[Col]) THEN p.req.sid ELSE lastSync
        /\ fin' = [fin EXCEPT ![g].stamped = TRUE] /\ UNCHANGED dev
    BY <1>3 DEF FinUpdateTime
  <2>2. \A h \in Procs : fin'[h].dev = fin[h].dev /\ fin'[h].req = fin[h].req
    BY <1>2, <2>1 DEF ProtocolInv, TypeOK, FinProc
  <2>3. FinishAlone'
    BY <1>1, <2>2 DEF RecordedInv, FinishAlone, Busy
  <2>4. RecordedDevicesOver'
    <3>1. CASE lastSync' = p.req.sid
      BY <1>2, <2>1, <3>1 DEF InService, RecordedDevicesOver
    <3>2. CASE lastSync' = lastSync
      BY <2>1, <3>2 DEF RecordedInv, RecordedDevicesOver
    <3> QED
      BY <2>1, <3>1, <3>2
  <2>5. RecordedSyncIsOver'
    <3>1. CASE lastSync' = p.req.sid
      BY <1>1, <1>2, <3>1 DEF RecordedInv, FinishAlone, Serves, RecordedSyncIsOver
    <3>2. CASE lastSync' = lastSync
      BY <1>1, <3>2 DEF RecordedInv, RecordedSyncIsOver
    <3> QED
      BY <2>1, <3>1, <3>2
  <2> QED
    BY <1>1, <1>2, <2>1, <2>3, <2>4, <2>5 DEF RecordedInv
<1>4. CASE FinRelease(g) \/ FinFail(g)
  <2>1. /\ UNCHANGED lastSync /\ fin' = [fin EXCEPT ![g] = IdleFin]
        /\ AnswerError(p.dev, p.req)
    BY <1>4 DEF FinRelease, FinFail, AnswerError, dbVars
  <2>2. \A h \in Procs : Busy(fin'[h]) => Busy(fin[h]) /\ fin'[h].req = fin[h].req
    BY <2>1, IdleFacts DEF ProtocolInv, TypeOK
  <2>3. HandlersMove
    BY <1>1, <2>2 DEF HandlersMove, BatchOrigin
  <2> QED
    BY <1>1, <1>2, <2>1, <2>3, ErrorMoves, RecordedFrame
<1> QED
  BY <1>3, <1>4 DEF FinStep

LEMMA RecordedNext ==
    ASSUME ProtocolInv, RecordedInv, [Next]_vars
    PROVE  RecordedInv'
<1>1. CASE \E d \in Devices : DeviceStep(d)
  BY <1>1, RecordedDevice
<1>2. CASE \E g \in Procs, d \in Devices : RequestStep(g, d)
  BY <1>2, RecordedRequest
<1>3. CASE \E g \in Procs : HskStep(g) \/ PullStep(g) \/ PushStep(g) \/ FinStep(g)
  BY <1>3, RecordedHskStep, RecordedPullStep, RecordedPushStep, RecordedFinStep
<1>4. CASE Expire \/ UNCHANGED vars
  <2>1. UNCHANGED <<nextSid, lastSync, pull, push, fin, dev>>
    BY <1>4 DEF Expire, vars, dbVars, hdlVars
  <2>2. HandlersMove
    BY <2>1 DEF HandlersMove, BatchOrigin
  <2> QED
    BY <2>1, <2>2, ErrorMoves, RecordedFrame
<1> QED
  BY <1>1, <1>2, <1>3, <1>4 DEF Next

(* Under any timing, last_sync_time never tells of a sync that is still    *)
(* going on: no batch of the recorded session is in flight, even when its  *)
(* FinishSync ran on long after the session had expired.                   *)
THEOREM RecordedIsOver == Spec => []RecordedSyncIsOver
<1>1. Init => RecordedInv
  BY IdleFacts DEF Init, RecordedInv, FinishAlone, RecordedDevicesOver, RecordedSyncIsOver
<1>2. ProtocolInv /\ RecordedInv /\ [Next]_vars => RecordedInv'
  BY RecordedNext
<1>3. RecordedInv => RecordedSyncIsOver
  BY DEF RecordedInv
<1> QED
  BY <1>1, <1>2, <1>3, ProtocolCorrect, PTL DEF Spec

(* Under any timing, a FinishSync releases only the session it was called  *)
(* for: one that outlives its session leaves the next device's lock alone. *)
THEOREM ReleasedByHolder == Spec => LockReleasedByHolder
<1>1. ASSUME Next, session'.sid # session.sid, fin' # fin
      PROVE  \E g \in Procs : Serves(fin[g], session.sid)
  <2>1. PICK g \in Procs : (\E d \in Devices : FinCheck(g, d)) \/ FinStep(g)
    <3> USE DEF hdlVars
    <3>1. \A d \in Devices : DeviceStep(d) => UNCHANGED fin
      BY DEF DeviceStep, StartSync, SendPull, SendPush, SendFinishPush, SendFinishSync,
             GiveUp, Send
    <3>2. \A g \in Procs, d \in Devices :
             RequestStep(g, d) => UNCHANGED fin \/ FinCheck(g, d)
      BY DEF RequestStep, HskRead, PullClaim, PushClaim, FinishPush
    <3>3. /\ \A g \in Procs : HskStep(g) => UNCHANGED fin
          /\ \A g \in Procs : PullStep(g) => UNCHANGED fin
      <4>1. ASSUME NEW g \in Procs, HskStep(g) PROVE UNCHANGED fin
        BY <4>1 DEF HskStep, HskQueue, HskCreate, HskFail
      <4>2. ASSUME NEW g \in Procs, PullStep(g) PROVE UNCHANGED fin
        BY <4>2 DEF PullStep, PullQuery, PullSave, PullFail
      <4> QED
        BY <4>1, <4>2
    <3>4. \A g \in Procs : PushStep(g) => UNCHANGED fin
      <4>1. ASSUME NEW g \in Procs, NEW e \in Entities,
                   PushUpsert(g, e) \/ PushDelete(g, e)
            PROVE  UNCHANGED fin
        BY <4>1 DEF PushUpsert, PushDelete
      <4>2. ASSUME NEW g \in Procs, PushCommit(g) \/ PushFail(g)
            PROVE  UNCHANGED fin
        BY <4>2 DEF PushCommit, PushFail
      <4> QED
        BY <4>1, <4>2 DEF PushStep
    <3>5. Expire => UNCHANGED fin
      BY DEF Expire
    <3> QED
      BY <1>1, <3>1, <3>2, <3>3, <3>4, <3>5 DEF Next
  <2>2. Busy(fin[g]) /\ ReleaseResult(session, fin[g].req.sid) = "ok"
    BY <1>1, <2>1 DEF FinCheck, FinStep, FinUpdateTime, FinRelease, FinFail
  <2> QED
    BY <2>2 DEF ReleaseResult, Serves
<1>2. Next => (session'.sid # session.sid /\ fin' # fin =>
                 \E g \in Procs : Serves(fin[g], session.sid))
  BY <1>1
<1> QED
  BY <1>2, PTL DEF Spec, LockReleasedByHolder
=============================================================================
