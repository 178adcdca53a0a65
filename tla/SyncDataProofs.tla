--------------------------- MODULE SyncDataProofs ---------------------------
(***************************************************************************)
(* What the devices have.  While no handler outlives its session, no       *)
(* session that has committed ends inside a handshake and no pull is cut   *)
(* inside a type that others follow, SyncedInv and FoundInv are inductive  *)
(* beside ProtocolInv and CursorInv: no device misses a row below its      *)
(* cursor, and no pull asks for a type that has no rows left.              *)
(*                                                                         *)
(* Where every type but the last is small beside a response, CutInv is     *)
(* inductive with them, and the third condition holds by itself.           *)
(***************************************************************************)
EXTENDS SyncCursorProofs

(* What a step may do to a device without giving it data: its cursor and   *)
(* rows stay, and a handshake it sends has its cursor.                     *)
DataKept ==
    \A d \in Devices :
        /\ dev'[d].cursor = dev[d].cursor /\ dev'[d].has = dev[d].has
        /\ dev'[d].waiting /\ dev'[d].req.type = "handshake" =>
              dev'[d].req.cli = dev[d].cursor

(* A handshake that a step reads or queues plans what it should. *)
PlanFits(p) ==
    /\ p.state = "Pushing" => p.req.cli = p.srv
    /\ p.state = "Pulling" => p.cursor = p.req.cli
    /\ p.state = "Pulling" /\ p.queued /\ p.srv = ServerCursor =>
          \A e \in Entities :
              Exists(rows[e]) /\ p.req.cli <= rows[e].usn => TypeOf[e] \in p.queue

PlansFit == \A g \in Procs : Busy(hsk'[g]) => hsk'[g] = hsk[g] \/ PlanFits(hsk'[g])

(* A handler that a step makes fits the session and the devices before it. *)
ResponseFits(p) ==
    /\ p.start = session.cursor /\ p.end = session.srvAt
    /\ p.queue \subseteq session.queue
    /\ \A e \in Entities :
          /\ Exists(p.got[e]) => p.got[e] = rows[e]
          /\ InPull(e) /\ Beyond(p.queue, p.cur, e) =>
                \/ p.got[e] = rows[e]
                \/ \A d \in Devices : Holds(d) => dev[d].has[e] = rows[e]

ResponsesFit ==
    \A g \in Procs : Busy(pull'[g]) => pull'[g] = pull[g] \/ ResponseFits(pull'[g])

(* A step may move the expected sequence number, and nothing else. *)
SameSession ==
    /\ session'.sid = session.sid /\ session'.state = session.state
    /\ session'.cursor = session.cursor /\ session'.queue = session.queue
    /\ session'.cliAt = session.cliAt /\ session'.srvAt = session.srvAt

(* The parts of SyncedInv that the session has no part in. *)
LEMMA SyncedBase ==
    ASSUME SyncedInv, UNCHANGED <<rows, cursor>>, DataKept, PlansFit
    PROVE  DeviceCursorOK' /\ HandshakePlanOK' /\ NothingMissedBelowCursor'
<1>1. ServerCursor' = ServerCursor
  BY DEF ServerCursor
<1>2. DeviceCursorOK'
  BY <1>1 DEF DataKept, SyncedInv, DeviceCursorOK
<1>3. HandshakePlanOK'
  <2>1. ASSUME NEW g \in Procs, Busy(hsk'[g]) PROVE PlanFits(hsk'[g])
    <3>1. CASE hsk'[g] = hsk[g]
      BY <2>1, <3>1 DEF SyncedInv, HandshakePlanOK, PlanFits
    <3> QED
      BY <2>1, <3>1 DEF PlansFit
  <2> QED
    BY <1>1, <2>1 DEF PlanFits, HandshakePlanOK
<1>4. NothingMissedBelowCursor'
  BY DEF DataKept, SyncedInv, NothingMissedBelowCursor
<1> QED
  BY <1>2, <1>3, <1>4

(* A step that leaves the session alone, but for its sequence number. *)
LEMMA SyncedSame ==
    ASSUME SyncedInv, UNCHANGED <<rows, cursor>>, DataKept, NobodyJoins, PlansFit,
           SameSession, ResponsesFit
    PROVE  SyncedInv'
<1>1. DeviceCursorOK' /\ HandshakePlanOK' /\ NothingMissedBelowCursor'
  BY SyncedBase
<1>2. \A d \in Devices : /\ dev'[d].cursor = dev[d].cursor /\ dev'[d].has = dev[d].has
                         /\ Holds(d)' => Holds(d)
  BY DEF DataKept, NobodyJoins, SameSession, Holds
<1>3. \A e \in Entities : /\ InPull(e)' <=> InPull(e)
                          /\ \A q, c : Beyond(q, c, e)' <=> Beyond(q, c, e)
  BY DEF SameSession, InPull, Beyond
<1>4. PullSessionOK'
  <2>1. \A e \in Entities : Beyond(session.queue, session.cursor, e)'
                            <=> Beyond(session.queue, session.cursor, e)
    BY DEF SameSession, Beyond
  <2> QED
    BY <1>2, <1>3, <2>1 DEF SyncedInv, PullSessionOK, SameSession
<1>5. PusherUpToDate'
  BY <1>2 DEF SyncedInv, PusherUpToDate, SameSession
<1>6. PullHandlersOK'
  <2>1. ASSUME NEW g \in Procs, Busy(pull'[g]) PROVE ResponseFits(pull'[g])
    <3>1. CASE pull'[g] = pull[g]
      BY <2>1, <3>1 DEF SyncedInv, PullHandlersOK, ResponseFits
    <3> QED
      BY <2>1, <3>1 DEF ResponsesFit
  <2>2. ASSUME NEW g \in Procs, NEW e \in Entities
        PROVE  Beyond(pull[g].queue, pull[g].cur, e)' <=> Beyond(pull'[g].queue, pull'[g].cur, e)
    BY DEF Beyond
  <2> QED
    BY <1>2, <1>3, <2>1, <2>2 DEF ResponseFits, PullHandlersOK, SameSession
<1> QED
  BY <1>1, <1>4, <1>5, <1>6 DEF SyncedInv

(* The session ends, or a push goes on: no pull is running. *)
LEMMA SyncedMovesOn ==
    ASSUME SyncedInv, UNCHANGED <<rows, cursor>>, DataKept, PlansFit,
           \A g \in Procs : ~Busy(pull'[g]),
           \/ session' = NoSession
           \/ /\ NobodyJoins /\ session'.sid = session.sid
              /\ session.state \in {"AwaitingPushOrFinish", "Pushing", "AwaitingFinish"}
              /\ session'.state # "Pulling"
    PROVE  SyncedInv'
<1>1. DeviceCursorOK' /\ HandshakePlanOK' /\ NothingMissedBelowCursor'
  BY SyncedBase
<1>2. session'.state # "Pulling"
  BY DEF NoSession
<1>3. PullSessionOK' /\ PullHandlersOK'
  BY <1>2 DEF PullSessionOK, PullHandlersOK
<1>4. PusherUpToDate'
  <2>1. CASE session' = NoSession
    BY <2>1 DEF PusherUpToDate, NoSession
  <2>2. CASE session' # NoSession
    BY <2>2 DEF SyncedInv, PusherUpToDate, Holds, NobodyJoins, DataKept
  <2> QED
    BY <2>1, <2>2
<1> QED
  BY <1>1, <1>3, <1>4 DEF SyncedInv

(* Devices that give up, or get an answer without data. *)
LEMMA AnswerKeepsData ==
    ASSUME ProtocolInv, SyncedInv, NEW d \in Devices, NEW r, NEW dv, Answer(d, r, dv),
           dv.cursor = dev[d].cursor, dv.has = dev[d].has, ~dv.waiting
    PROVE  DataKept
<1>1. \A e \in Devices : dev'[e] = dev[e] \/ (e = d /\ dev'[e] = dv)
  BY DEF Answer, ProtocolInv, TypeOK
<1> QED
  BY <1>1 DEF DataKept, SyncedInv, DeviceCursorOK

LEMMA AbandonedKeepsData ==
    ASSUME NEW dv \in Device
    PROVE  /\ Abandoned(dv).cursor = dv.cursor /\ Abandoned(dv).has = dv.has
           /\ ~Abandoned(dv).waiting /\ Abandoned(dv).sid = NoSid
BY DEF Abandoned, Device

LEMMA ErrorKeepsData ==
    ASSUME ProtocolInv, SyncedInv,
           UNCHANGED dev \/ \E d \in Devices : \E r : AnswerError(d, r)
    PROVE  DataKept /\ NobodyJoins
<1>1. CASE UNCHANGED dev
  BY <1>1 DEF DataKept, NobodyJoins, SyncedInv, DeviceCursorOK
<1>2. ASSUME NEW d \in Devices, NEW r, AnswerError(d, r)
      PROVE  DataKept /\ NobodyJoins
  <2>1. dev[d] \in Device
    BY DEF ProtocolInv, TypeOK
  <2>2. DataKept
    BY <1>2, <2>1, AbandonedKeepsData, AnswerKeepsData DEF AnswerError
  <2>3. \A e \in Devices : dev'[e] = dev[e] \/ (e = d /\ dev'[e] = Abandoned(dev[d]))
    BY <1>2 DEF AnswerError, Answer, ProtocolInv, TypeOK
  <2> QED
    BY <2>1, <2>2, <2>3, AbandonedKeepsData DEF NobodyJoins
<1> QED
  BY <1>1, <1>2

LEMMA SyncedDevice ==
    ASSUME ProtocolInv, SyncedInv, NEW d \in Devices, DeviceStep(d)
    PROVE  SyncedInv'
<1>1. UNCHANGED <<session, rows, cursor, hsk, pull>>
  BY DEF DeviceStep, StartSync, SendPull, SendPush, SendFinishPush, SendFinishSync,
         GiveUp, Send, dbVars, hdlVars
<1>2. PlansFit /\ ResponsesFit /\ SameSession
  BY <1>1 DEF PlansFit, ResponsesFit, SameSession
<1>3. dev \in [Devices -> Device] /\ dev[d] \in Device
  BY DEF ProtocolInv, TypeOK
<1>4. ASSUME NEW e \in Devices, e # d PROVE dev'[e] = dev[e]
  BY <1>3, <1>4 DEF DeviceStep, StartSync, SendPull, SendPush, SendFinishPush,
                    SendFinishSync, GiveUp, Send
<1>5. /\ dev'[d].cursor = dev[d].cursor /\ dev'[d].has = dev[d].has
      /\ dev'[d].sid # NoSid => dev'[d].sid = dev[d].sid
      /\ dev'[d].waiting /\ dev'[d].req.type = "handshake" =>
            dev'[d].req.cli = dev[d].cursor
  <2>1. ASSUME NEW r, Send(d, r), r.type = "handshake" => r.cli = dev[d].cursor
        PROVE  /\ dev'[d].cursor = dev[d].cursor /\ dev'[d].has = dev[d].has
               /\ dev'[d].sid = dev[d].sid
               /\ dev'[d].req.type = "handshake" => dev'[d].req.cli = dev[d].cursor
    <3>1. dev'[d] = [dev[d] EXCEPT !.req = r, !.waiting = TRUE]
      BY <1>3, <2>1 DEF Send
    <3> QED
      BY <1>3, <2>1, <3>1 DEF Device
  <2>2. CASE StartSync(d)
    <3>1. PICK local \in BOOLEAN :
             Send(d, [NoRequest EXCEPT !.type = "handshake",
                                       !.cli = dev[d].cursor, !.local = local])
      BY <2>2 DEF StartSync
    <3>2. [NoRequest EXCEPT !.type = "handshake",
                            !.cli = dev[d].cursor, !.local = local].cli = dev[d].cursor
      BY DEF NoRequest
    <3> QED
      BY <2>1, <3>1, <3>2
  <2>3. CASE SendPull(d) \/ SendPush(d) \/ SendFinishPush(d) \/ SendFinishSync(d)
    <3>1. PICK type, sid, seq, n : /\ type # "handshake"
                                   /\ Send(d, SessionRequest(type, sid, seq, n))
      BY <2>3 DEF SendPull, SendPush, SendFinishPush, SendFinishSync
    <3>2. SessionRequest(type, sid, seq, n).type # "handshake"
      BY <3>1 DEF SessionRequest
    <3> QED
      BY <2>1, <3>1, <3>2
  <2>4. CASE GiveUp(d)
    BY <1>3, <2>4, AbandonedKeepsData DEF GiveUp
  <2> QED
    BY <2>2, <2>3, <2>4 DEF DeviceStep
<1>6. DataKept
  BY <1>4, <1>5 DEF DataKept, SyncedInv, DeviceCursorOK
<1>7. NobodyJoins
  BY <1>4, <1>5 DEF NobodyJoins
<1> QED
  BY <1>1, <1>2, <1>6, <1>7, SyncedSame

-----------------------------------------------------------------------------
(* The handshake: its plan, and the session it creates. *)
LEMMA SyncedHskRead ==
    ASSUME ProtocolInv, SyncedInv, NEW g \in Procs, NEW d \in Devices, HskRead(g, d)
    PROVE  SyncedInv'
<1>1. /\ UNCHANGED <<session, rows, cursor, pull>>
      /\ UNCHANGED dev \/ AnswerError(d, dev[d].req)
  BY DEF HskRead, dbVars
<1>2. DataKept /\ NobodyJoins /\ SameSession /\ ResponsesFit
  BY <1>1, ErrorKeepsData DEF SameSession, ResponsesFit
<1>3. PlansFit
  <2>1. CASE UNCHANGED hsk
    BY <2>1 DEF PlansFit
  <2>2. CASE ~UNCHANGED hsk
    <3>1. PICK timeSkew \in {FALSE, Faults} :
             LET status == HandshakeStatus(d, dev[d].req, timeSkew) IN
             /\ NeedsSession(status, dev[d].req)
             /\ hsk' = [hsk EXCEPT ![g] = HskSession(d, dev[d].req, status)]
      BY <2>2 DEF HskRead
    <3> DEFINE r == dev[d].req
               status == HandshakeStatus(d, r, timeSkew)
               new == HskSession(d, r, status)
    <3>2. NeedsSession(status, r)
      BY <3>1
    <3>3. PlanFits(new)
      <4>1. /\ new.req = r /\ new.srv = ServerCursor
            /\ new.state = "Pushing" => status = "NO_REMOTE_CHANGES"
            /\ new.state = "Pulling" =>
                  status = "NEED_PULL" /\ new.cursor = r.cli /\ ~new.queued
        BY <3>2 DEF HskSession, NeedsSession, IdleHsk
      <4>2. status = "NO_REMOTE_CHANGES" => r.cli = ServerCursor
        BY DEF HandshakeStatus
      <4> HIDE DEF new, status
      <4> QED
        BY <4>1, <4>2 DEF PlanFits
    <3>4. \A h \in Procs : hsk'[h] = hsk[h] \/ hsk'[h] = new
      BY <3>1 DEF ProtocolInv, TypeOK
    <3> QED
      BY <3>3, <3>4 DEF PlansFit
  <2> QED
    BY <2>1, <2>2
<1> QED
  BY <1>1, <1>2, <1>3, SyncedSame

LEMMA SyncedHskQueue ==
    ASSUME ProtocolInv, CursorInv, SyncedInv, UnitsMatchRows, NEW g \in Procs, HskQueue(g)
    PROVE  SyncedInv'
<1> DEFINE p == hsk[g]
           new == [p EXCEPT !.queued = TRUE, !.queue = PullEntityQueue(p.req.cli, p.srv)]
<1>1. UNCHANGED <<session, rows, cursor, pull, dev>> /\ Busy(p) /\ p \in HskProc
  BY DEF HskQueue, dbVars, ProtocolInv, TypeOK
<1>2. DataKept /\ NobodyJoins /\ SameSession /\ ResponsesFit
  BY <1>1, ErrorKeepsData DEF SameSession, ResponsesFit
<1>3. \A h \in Procs : hsk'[h] = hsk[h] \/ hsk'[h] = new
  BY DEF HskQueue, ProtocolInv, TypeOK
<1>4. /\ new.req = p.req /\ new.srv = p.srv /\ new.state = p.state
      /\ new.cursor = p.cursor /\ new.queue = PullEntityQueue(p.req.cli, p.srv)
  BY <1>1 DEF HskProc
<1>5. ASSUME p.srv = ServerCursor, NEW e \in Entities,
             Exists(rows[e]), p.req.cli <= rows[e].usn
      PROVE  TypeOf[e] \in PullEntityQueue(p.req.cli, p.srv)
  <2>1. units[e].usn = rows[e].usn /\ rows[e].usn < ServerCursor
    BY DEF UnitsMatchRows, CursorInv, UsnsUnique
  <2> QED
    BY <1>5, <2>1 DEF PullEntityQueue, Exists
<1>6. PlanFits(new)
  <2>1. /\ p.state = "Pushing" => p.req.cli = p.srv
        /\ p.state = "Pulling" => p.cursor = p.req.cli
    BY <1>1 DEF SyncedInv, HandshakePlanOK
  <2> HIDE DEF new, p
  <2> QED
    BY <1>4, <1>5, <2>1 DEF PlanFits
<1>7. PlansFit
  BY <1>3, <1>6 DEF PlansFit
<1> QED
  BY <1>1, <1>2, <1>7, SyncedSame

LEMMA SyncedCreate ==
    ASSUME ProtocolInv, CursorInv, SyncedInv, NEW g \in Procs, HskCreate(g),
           CreateSessionResult(session) = "ok"
    PROVE  SyncedInv'
<1> DEFINE p == hsk[g]
           dv == Joined(dev[p.dev], nextSid, p.state)
<1>1. /\ Busy(p) /\ p.queued /\ p \in HskProc /\ p.dev \in Devices
      /\ session.sid = NoSid /\ nextSid \in Nat
  BY BusyDevice DEF HskCreate, CreateSessionResult, ProtocolInv, TypeOK, HskProc
<1>2. /\ UNCHANGED <<rows, cursor, pull>> /\ hsk' = [hsk EXCEPT ![g] = IdleHsk]
      /\ session' = CreatedSession(nextSid, p.state, p.cursor, p.req.cli, p.srv, p.queue)
      /\ Answer(p.dev, p.req, dv)
  BY DEF HskCreate, CreateSessionResult, dbVars
<1>3. p.srv = ServerCursor /\ p.req.type = "handshake"
  BY <1>1 DEF CursorInv, HandshakeCursorOK, ProtocolInv, RequestsInService, HandshakeOK
<1>4. /\ p.state = "Pushing" => p.req.cli = ServerCursor
      /\ p.state = "Pulling" => p.cursor = p.req.cli
      /\ p.state = "Pulling" => \A e \in Entities :
            Exists(rows[e]) /\ p.req.cli <= rows[e].usn => TypeOf[e] \in p.queue
  BY <1>1, <1>3 DEF SyncedInv, HandshakePlanOK
<1>5. \A h \in Procs : ~Busy(pull'[h])
  BY <1>1, <1>2 DEF CursorInv, HandlersHoldLock, ProtocolInv, RequestsInService, InService
<1>6. dev[p.dev] \in Device /\ dev \in [Devices -> Device]
  BY <1>1 DEF ProtocolInv, TypeOK
<1>7. dv.cursor = dev[p.dev].cursor /\ dv.has = dev[p.dev].has /\ ~dv.waiting
  BY <1>6 DEF Joined, Abandoned, Device
<1>8. DataKept
  BY <1>1, <1>2, <1>7, AnswerKeepsData
<1>9. PlansFit
  BY <1>2 DEF PlansFit, IdleHsk, Busy, ProtocolInv, TypeOK
<1>10. DeviceCursorOK' /\ HandshakePlanOK' /\ NothingMissedBelowCursor'
  BY <1>2, <1>8, <1>9, SyncedBase
<1>11. ASSUME NEW d \in Devices, dev'[d].sid = session'.sid
       PROVE  dev[d].cursor = p.req.cli
  <2>1. session'.sid = nextSid
    BY <1>2 DEF CreatedSession
  <2>2. dev[d].sid # nextSid
    BY <1>1, <1>6 DEF ProtocolInv, SidsHandedOut, Device
  <2>3. d = p.dev /\ dev[d].waiting /\ dev[d].req = p.req
    BY <1>1, <1>2, <1>6, <1>11, <2>1, <2>2 DEF Answer
  <2> QED
    BY <1>3, <2>3 DEF SyncedInv, DeviceCursorOK
<1>12. /\ session'.state = p.state /\ session'.cursor = p.cursor
       /\ session'.cliAt = p.req.cli /\ session'.srvAt = p.srv
       /\ p.state = "Pulling" => session'.queue = p.queue
  BY <1>2 DEF CreatedSession
<1>13. PullSessionOK'
  <2>1. ASSUME p.state = "Pulling", NEW e \in Entities, InPull(e)',
               Beyond(session.queue, session.cursor, e)'
        PROVE  FALSE
    <3>1. Exists(rows[e]) /\ p.req.cli <= rows[e].usn
      BY <1>2, <1>12, <2>1 DEF InPull
    <3>2. TypeOf[e] \in p.queue /\ ~(rows[e].usn < p.req.cli)
      <4>1. rows[e].usn \in Nat /\ p.req.cli \in Nat
        BY <1>1 DEF ProtocolInv, TypeOK, Row, HskProc, Request
      <4> QED
        BY <1>4, <2>1, <3>1, <4>1
    <3> QED
      BY <1>2, <1>4, <1>12, <2>1, <3>2 DEF Beyond
  <2>2. session'.state = "Pulling" => p.state = "Pulling"
    BY <1>12
  <2>3. ASSUME NEW d \in Devices, Holds(d)' PROVE dev'[d].cursor = session'.cliAt
    BY <1>8, <1>11, <1>12, <2>3 DEF Holds, DataKept
  <2> QED
    BY <2>1, <2>2, <2>3 DEF PullSessionOK
<1>14. PusherUpToDate'
  <2>1. ASSUME session'.state \in {"AwaitingPushOrFinish", "Pushing", "AwaitingFinish"},
               NEW d \in Devices, Holds(d)', NEW e \in Entities, Exists(rows'[e])
        PROVE  dev'[d].has[e] = rows'[e]
    <3>1. p.state = "Pushing"
      BY <1>1, <1>12, <2>1 DEF ProtocolInv, RequestsInService, HandshakeOK
    <3>2. dev[d].cursor = ServerCursor
      BY <1>4, <1>11, <2>1, <3>1 DEF Holds
    <3>3. rows[e].usn < dev[d].cursor
      BY <3>2 DEF CursorInv, UsnsUnique
    <3> QED
      BY <1>2, <1>8, <2>1, <3>3 DEF DataKept, SyncedInv, NothingMissedBelowCursor
  <2> QED
    BY <2>1 DEF PusherUpToDate
<1>15. PullHandlersOK'
  BY <1>5 DEF PullHandlersOK
<1> QED
  BY <1>10, <1>13, <1>14, <1>15 DEF SyncedInv

LEMMA SyncedHskStep ==
    ASSUME ProtocolInv, CursorInv, SyncedInv, UnitsMatchRows, NEW g \in Procs, HskStep(g)
    PROVE  SyncedInv'
<1>1. CASE HskQueue(g)
  BY <1>1, SyncedHskQueue
<1>2. CASE HskCreate(g) /\ CreateSessionResult(session) = "ok"
  BY <1>2, SyncedCreate
<1>3. CASE HskFail(g) \/ (HskCreate(g) /\ CreateSessionResult(session) # "ok")
  <2>1. /\ UNCHANGED <<session, rows, cursor, pull>> /\ hsk' = [hsk EXCEPT ![g] = IdleHsk]
        /\ AnswerError(hsk[g].dev, hsk[g].req) /\ Busy(hsk[g])
    BY <1>3 DEF HskFail, HskCreate, dbVars
  <2>2. hsk[g].dev \in Devices
    BY <2>1, BusyDevice DEF ProtocolInv, TypeOK, HskProc
  <2>3. DataKept /\ NobodyJoins /\ SameSession /\ ResponsesFit
    BY <2>1, <2>2, ErrorKeepsData DEF SameSession, ResponsesFit
  <2>4. PlansFit
    BY <2>1 DEF PlansFit, IdleHsk, Busy, ProtocolInv, TypeOK
  <2> QED
    BY <2>1, <2>3, <2>4, SyncedSame
<1> QED
  BY <1>1, <1>2, <1>3 DEF HskStep

-----------------------------------------------------------------------------
(* The pull. *)
LEMMA SyncedPullClaim ==
    ASSUME ProtocolInv, SyncedInv, NEW g \in Procs, NEW d \in Devices, PullClaim(g, d)
    PROVE  SyncedInv'
<1> DEFINE r == dev[d].req
           new == ClaimPullBatchResult(d, r)
<1>1. /\ UNCHANGED <<rows, cursor, hsk>>
      /\ UNCHANGED dev \/ AnswerError(d, r)
  BY DEF PullClaim, dbVars
<1>2. DataKept /\ NobodyJoins /\ PlansFit
  BY <1>1, ErrorKeepsData DEF PlansFit
<1>3. CASE ClaimPullResult(session, r.sid, r.seq) = "ok"
  <2>1. /\ session' = PullClaimed(session, r.seq) /\ session.state = "Pulling"
        /\ \A h \in Procs : pull'[h] = pull[h] \/ pull'[h] = new
    BY <1>3 DEF PullClaim, ClaimPullResult, ProtocolInv, TypeOK
  <2>2. SameSession
    BY <2>1 DEF SameSession, PullClaimed, ProtocolInv, TypeOK, Session
  <2>3. /\ new.start = session.cursor /\ new.cur = session.cursor
        /\ new.end = session.srvAt /\ new.queue = session.queue
        /\ \A e \in Entities : ~Exists(new.got[e])
    BY DEF ClaimPullBatchResult, IdlePull, NoRows, NoRow, Exists
  <2>4. ResponseFits(new)
    <3> HIDE DEF new
    <3> QED
      BY <2>1, <2>3 DEF ResponseFits, SyncedInv, PullSessionOK
  <2>5. ResponsesFit
    BY <2>1, <2>4 DEF ResponsesFit
  <2> QED
    BY <1>1, <1>2, <2>2, <2>5, SyncedSame
<1>4. CASE ClaimPullResult(session, r.sid, r.seq) # "ok"
  <2>1. SameSession /\ ResponsesFit
    BY <1>4 DEF PullClaim, SameSession, ResponsesFit
  <2> QED
    BY <1>1, <1>2, <2>1, SyncedSame
<1> QED
  BY <1>3, <1>4

(* The queue of a pull has a head, its lowest type. *)
LEMMA HeadLowest ==
    ASSUME NEW queue \in SUBSET Types, queue # {}
    PROVE  HeadOf(queue) \in queue /\ \A t \in queue : HeadOf(queue) <= t
<1>1. \E t \in queue : \A u \in queue : t <= u
  <2>1. \A t \in queue : t \in {1, 2, 3, 4, 5, 6, 7}
    BY DEF Types
  <2> QED
    BY <2>1
<1> QED
  BY <1>1 DEF HeadOf

(* A query that takes first, with the cursor after, makes the handler p new. *)
Takes(p, first, after, new) ==
    LET type == HeadOf(p.queue)
        selected == Selected(type, p.cur, p.end)
    IN  /\ first \subseteq selected /\ after \in SyncCursorUsn(first) /\ after > p.cur
        /\ \A x \in first, y \in selected \ first : rows[x].usn <= rows[y].usn
        /\ new.start = p.start /\ new.end = p.end
        /\ new.got = [e \in Entities |-> IF e \in first THEN rows[e] ELSE p.got[e]]
        /\ new.queue = IF first # selected THEN p.queue ELSE p.queue \ {type}
        /\ new.cur = IF first # selected THEN after ELSE p.start
        /\ new.size = p.size + Cardinality(first)
        /\ new.done = (new.size >= MaxBatchSize)

LEMMA PullQueryTakes ==
    ASSUME ProtocolInv, NEW g \in Procs, PullQuery(g)
    PROVE  \/ /\ UNCHANGED dev
              /\ \E first, after, new : /\ Takes(pull[g], first, after, new)
                                        /\ pull' = [pull EXCEPT ![g] = new]
           \/ /\ AnswerError(pull[g].dev, pull[g].req)
              /\ pull' = [pull EXCEPT ![g] = IdlePull]
<1> DEFINE p == pull[g]
           type == HeadOf(p.queue)
           selected == Selected(type, p.cur, p.end)
           Queried(first, after) ==
              [p EXCEPT
                  !.got = [e \in Entities |-> IF e \in first
                                              THEN rows[e] ELSE p.got[e]],
                  !.size = p.size + Cardinality(first),
                  !.queue = IF first # selected THEN @ ELSE @ \ {type},
                  !.cur = IF first # selected THEN after ELSE p.start,
                  !.done = p.size + Cardinality(first) >= MaxBatchSize]
<1>1. \/ /\ UNCHANGED dev
         /\ \E first, after :
              /\ first \subseteq selected /\ after \in SyncCursorUsn(first)
              /\ CollectedFrom(selected, p.size, first)
              /\ after > p.cur
              /\ pull' = [pull EXCEPT ![g] = Queried(first, after)]
      \/ AnswerError(p.dev, p.req) /\ pull' = [pull EXCEPT ![g] = IdlePull]
  BY DEF PullQuery
<1>2. ASSUME NEW first, NEW after,
             first \subseteq selected, after \in SyncCursorUsn(first),
             CollectedFrom(selected, p.size, first), after > p.cur
      PROVE  Takes(p, first, after, Queried(first, after))
  <2> DEFINE new == Queried(first, after)
  <2>1. /\ new.start = p.start /\ new.end = p.end
        /\ new.got = [e \in Entities |-> IF e \in first THEN rows[e] ELSE p.got[e]]
        /\ new.queue = IF first # selected THEN p.queue ELSE p.queue \ {type}
        /\ new.cur = IF first # selected THEN after ELSE p.start
        /\ new.size = p.size + Cardinality(first)
        /\ new.done = (new.size >= MaxBatchSize)
    BY DEF ProtocolInv, TypeOK, PullProc
  <2>2. \A x \in first, y \in selected \ first : rows[x].usn <= rows[y].usn
    BY <1>2 DEF CollectedFrom
  <2> HIDE DEF new
  <2>3. Takes(p, first, after, new)
    BY <1>2, <2>1, <2>2 DEF Takes
  <2> QED
    BY <2>3 DEF new
<1> HIDE DEF Queried
<1> QED
  BY <1>1, <1>2

(* One query: the collector has taken the rows below the new cursor. *)
LEMMA QueriedFits ==
    ASSUME ProtocolInv, CursorInv, SyncedInv, PullsCutBetweenTypes,
           NEW g \in Procs, Busy(pull[g]), pull[g].queue # {},
           NEW first, NEW after, NEW new, Takes(pull[g], first, after, new)
    PROVE  ResponseFits(new)
<1> DEFINE p == pull[g]
           type == HeadOf(p.queue)
           selected == Selected(type, p.cur, p.end)
<1>0. /\ first \subseteq selected /\ after \in SyncCursorUsn(first) /\ after > p.cur
      /\ \A x \in first, y \in selected \ first : rows[x].usn <= rows[y].usn
      /\ new.start = p.start /\ new.end = p.end
      /\ new.got = [e \in Entities |-> IF e \in first THEN rows[e] ELSE p.got[e]]
      /\ new.queue = IF first # selected THEN p.queue ELSE p.queue \ {type}
      /\ new.cur = IF first # selected THEN after ELSE p.start
  BY DEF Takes
<1>1. /\ p \in PullProc /\ p.cur \in Nat /\ p.start \in Nat /\ p.end \in Nat
      /\ p.queue \in SUBSET Types
      /\ session \in Session /\ session.cliAt \in Nat /\ session.srvAt \in Nat
      /\ session.queue \in SUBSET Types
      /\ \A e \in Entities : rows[e].usn \in Nat
  BY DEF ProtocolInv, TypeOK, PullProc, Session, Row
<1>2. session.state = "Pulling"
  BY DEF CursorInv, HandlersHoldLock, ProtocolInv, HandlersFitSession, Serves
<1>3. /\ p.start = session.cursor /\ p.end = session.srvAt
      /\ p.queue \subseteq session.queue
      /\ \A e \in Entities :
            /\ Exists(p.got[e]) => p.got[e] = rows[e]
            /\ InPull(e) /\ Beyond(p.queue, p.cur, e) =>
                  \/ p.got[e] = rows[e]
                  \/ \A d \in Devices : Holds(d) => dev[d].has[e] = rows[e]
  BY DEF SyncedInv, PullHandlersOK
<1>4. type \in p.queue
  BY HeadLowest, <1>1
<1> HIDE DEF p, type, selected
<1>5. PICK x \in first : rows[x].usn + 1 = after
  <2>1. first # {}
    BY <1>0, <1>1 DEF SyncCursorUsn
  <2> QED
    BY <1>0, <2>1 DEF SyncCursorUsn
<1>6. x \in Entities /\ Exists(rows[x])
  BY <1>0 DEF Selected, selected
<1>7. ASSUME NEW e \in Entities, InPull(e), TypeOf[e] = type, p.cur <= rows[e].usn
      PROVE  e \in selected
  BY <1>3, <1>7 DEF Selected, InPull, selected
<1>8. ASSUME NEW e \in selected, rows[e].usn < after
      PROVE  e \in first
  <2>1. e \in Entities
    BY DEF Selected, selected
  <2>2. CASE e \notin first
    <3>1. rows[x].usn = rows[e].usn
      BY <1>0, <1>1, <1>5, <1>6, <1>8, <2>1, <2>2
    <3> QED
      BY <1>5, <1>6, <2>1, <2>2, <3>1 DEF CursorInv, UsnsUnique
  <2> QED
    BY <2>2
<1>9. ASSUME NEW e \in Entities, InPull(e), Beyond(new.queue, new.cur, e)
      PROVE  Beyond(p.queue, p.cur, e) \/ e \in first
  <2>1. session.cliAt <= rows[e].usn
    BY <1>9 DEF InPull
  <2>2. CASE first # selected
    BY <1>0, <1>1, <1>7, <1>8, <1>9, <2>2 DEF Beyond, type
  <2>3. CASE first = selected
    <3>1. CASE TypeOf[e] \notin new.queue
      BY <1>0, <1>1, <1>7, <1>9, <2>3, <3>1 DEF Beyond, type
    <3>2. CASE TypeOf[e] \in new.queue /\ rows[e].usn < p.start
      <4>1. TypeOf[e] \in session.queue /\ type \in session.queue /\ TypeOf[e] # type
        BY <1>0, <1>3, <1>4, <2>3, <3>2
      <4>2. session.cursor = session.cliAt
        BY <1>2, <4>1 DEF PullsCutBetweenTypes, CutBetweenTypes, OneType
      <4> QED
        BY <1>1, <1>3, <2>1, <3>2, <4>2
    <3> QED
      BY <1>0, <1>9, <2>3, <3>1, <3>2 DEF Beyond
  <2> QED
    BY <2>2, <2>3
<1>10. ASSUME NEW e \in Entities
       PROVE  /\ Exists(new.got[e]) => new.got[e] = rows[e]
              /\ p.got[e] = rows[e] \/ e \in first => new.got[e] = rows[e]
  BY <1>0, <1>3
<1> QED
  BY <1>0, <1>3, <1>9, <1>10 DEF ResponseFits

LEMMA SyncedPullQuery ==
    ASSUME ProtocolInv, CursorInv, SyncedInv, PullsCutBetweenTypes,
           NEW g \in Procs, PullQuery(g)
    PROVE  SyncedInv'
<1> DEFINE p == pull[g]
<1>1. /\ UNCHANGED <<session, rows, cursor, hsk>> /\ Busy(p) /\ p.queue # {}
      /\ p \in PullProc /\ pull \in [Procs -> PullProc]
  BY DEF PullQuery, dbVars, ProtocolInv, TypeOK
<1>2. p.dev \in Devices
  BY <1>1, BusyDevice DEF PullProc
<1>3. SameSession /\ PlansFit
  BY <1>1 DEF SameSession, PlansFit
<1>4. DataKept /\ NobodyJoins
  BY <1>2, PullQueryTakes, ErrorKeepsData
<1>5. ResponsesFit
  <2>1. CASE pull' = [pull EXCEPT ![g] = IdlePull]
    BY <1>1, <2>1, IdleFacts DEF ResponsesFit
  <2>2. ASSUME NEW first, NEW after, NEW new, Takes(p, first, after, new),
               pull' = [pull EXCEPT ![g] = new]
        PROVE  ResponsesFit
    <3>1. ResponseFits(new)
      BY <1>1, <2>2, QueriedFits
    <3>2. \A h \in Procs : pull'[h] = pull[h] \/ pull'[h] = new
      BY <1>1, <2>2
    <3> QED
      BY <3>1, <3>2 DEF ResponsesFit
  <2> QED
    BY <2>1, <2>2, PullQueryTakes
<1> QED
  BY <1>1, <1>3, <1>4, <1>5, SyncedSame

(* The end of a response: its device has what the session has gone beyond. *)
LEMMA SyncedPullSaved ==
    ASSUME ProtocolInv, CursorInv, SyncedInv, NEW g \in Procs, PullSave(g),
           session.sid = pull[g].req.sid, session.sid # NoSid,
           session' = IF pull[g].queue = {} THEN PullFinished(session)
                      ELSE PullProgressed(session, pull[g].queue, pull[g].cur),
           Answer(pull[g].dev, pull[g].req, Received(dev[pull[g].dev], pull[g]))
    PROVE  SyncedInv'
<1> DEFINE p == pull[g]
           dv == Received(dev[p.dev], p)
<1>1. /\ Busy(p) /\ p \in PullProc /\ InService(p, "pull", dev)
      /\ pull' = [pull EXCEPT ![g] = IdlePull] /\ UNCHANGED <<rows, cursor, hsk>>
      /\ dev \in [Devices -> Device] /\ session \in Session
      /\ \A e \in Entities : rows[e] \in Row
  BY DEF PullSave, dbVars, ProtocolInv, TypeOK, RequestsInService
<1>2. p.dev \in Devices /\ dev[p.dev] \in Device
  BY <1>1, BusyDevice DEF PullProc
<1>3. session.state = "Pulling" /\ session.srvAt = ServerCursor /\ ServerCursor' = ServerCursor
  BY <1>1 DEF ProtocolInv, HandlersFitSession, Serves, CursorInv, SessionCursorOK, ServerCursor
<1>4. \A h \in Procs : ~Busy(pull'[h])
  <2>1. ASSUME NEW h \in Procs, h # g PROVE ~Busy(pull[h])
    BY <1>1, <2>1 DEF CursorInv, HandlersHoldLock, ProtocolInv, OneBatchInFlight
  <2> QED
    BY <1>1, <2>1, IdleFacts DEF ProtocolInv, TypeOK
<1>5. /\ dv.has = Overlay(dev[p.dev].has, p.got) /\ ~dv.waiting
      /\ dv.sid = dev[p.dev].sid
      /\ dv.cursor = IF p.queue = {} THEN p.end ELSE dev[p.dev].cursor
  BY <1>2 DEF Received, Device
<1> HIDE DEF dv
<1>6. ASSUME NEW d \in Devices
      PROVE  \/ dev'[d] = dev[d] /\ ~Holds(d)
             \/ dev'[d] = dv /\ d = p.dev /\ Holds(d)
  <2>1. Holds(d) <=> d = p.dev /\ dev[d].waiting /\ dev[d].req = p.req
    <3>1. DeviceOK(dev[d])
      BY DEF ProtocolInv, DevicesOK
    <3> QED
      BY <1>1, <3>1, ServesWaitingDevice DEF Holds, DeviceOK
  <2> QED
    BY <1>1, <2>1 DEF Answer, dv
<1>7. p.end = session.srvAt
  BY <1>1 DEF SyncedInv, PullHandlersOK
<1>8. ASSUME Holds(p.dev), NEW e \in Entities, Exists(rows[e]),
             rows[e].usn < session.cliAt \/ Beyond(p.queue, p.cur, e)
      PROVE  dv.has[e] = rows[e]
  <2>1. p.got[e] = rows[e] \/ dev[p.dev].has[e] = rows[e]
    <3>1. CASE rows[e].usn < session.cliAt
      BY <1>2, <1>3, <1>8, <3>1 DEF SyncedInv, PullSessionOK, NothingMissedBelowCursor
    <3>2. CASE ~(rows[e].usn < session.cliAt)
      <4>1. InPull(e)
        <5>1. rows[e].usn \in Nat /\ session.cliAt \in Nat
          BY <1>1 DEF Row, Session
        <5>2. rows[e].usn < session.srvAt
          BY <1>3 DEF CursorInv, UsnsUnique
        <5> QED
          BY <1>8, <3>2, <5>1, <5>2 DEF InPull
      <4> QED
        BY <1>1, <1>2, <1>8, <3>2, <4>1 DEF SyncedInv, PullHandlersOK
    <3> QED
      BY <3>1, <3>2
  <2>2. Exists(p.got[e]) => p.got[e] = rows[e]
    BY <1>1 DEF SyncedInv, PullHandlersOK
  <2> QED
    BY <1>5, <1>8, <2>1, <2>2 DEF Overlay, Exists
<1>9. HandshakePlanOK'
  BY <1>1, <1>3 DEF SyncedInv, HandshakePlanOK
<1>10. PullHandlersOK'
  BY <1>4 DEF PullHandlersOK
<1>11. ServerCursor \in Nat /\ \A e \in Entities : rows[e].usn < ServerCursor
  BY ServerCursorType DEF ProtocolInv, CursorInv, UsnsUnique
<1>12. session'.sid = session.sid
  BY <1>1 DEF PullFinished, PullProgressed, Session
<1>13. \A d \in Devices : Holds(d)' => Holds(d) /\ d = p.dev /\ dev'[d] = dv
  BY <1>5, <1>6, <1>12 DEF Holds
<1>14. CASE p.queue = {}
  <2>1. session'.state = "AwaitingPushOrFinish"
    BY <1>1, <1>14 DEF PullFinished, Session
  <2>2. Holds(p.dev) => \A e \in Entities : Exists(rows[e]) => dv.has[e] = rows[e]
    BY <1>8, <1>14 DEF Beyond
  <2>3. DeviceCursorOK'
    BY <1>3, <1>5, <1>6, <1>7, <1>11, <1>14 DEF SyncedInv, DeviceCursorOK
  <2>4. PullSessionOK'
    BY <2>1 DEF PullSessionOK
  <2>5. PusherUpToDate'
    BY <1>1, <1>13, <2>2 DEF PusherUpToDate
  <2>6. NothingMissedBelowCursor'
    BY <1>1, <1>6, <2>2 DEF SyncedInv, NothingMissedBelowCursor
  <2> QED
    BY <1>9, <1>10, <2>3, <2>4, <2>5, <2>6 DEF SyncedInv
<1>15. CASE p.queue # {}
  <2>1. /\ session'.state = "Pulling" /\ session'.cursor = p.cur /\ session'.queue = p.queue
        /\ session'.cliAt = session.cliAt /\ session'.srvAt = session.srvAt
    BY <1>1, <1>3, <1>15 DEF PullProgressed, Session
  <2>2. DeviceCursorOK'
    BY <1>3, <1>5, <1>6, <1>15 DEF SyncedInv, DeviceCursorOK
  <2>3. ASSUME NEW d \in Devices, Holds(d)'
        PROVE  /\ dev'[d].cursor = session'.cliAt
               /\ \A e \in Entities :
                     InPull(e)' /\ Beyond(session.queue, session.cursor, e)' =>
                         dev'[d].has[e] = rows'[e]
    <3>1. dev'[d].cursor = session'.cliAt
      BY <1>3, <1>5, <1>13, <1>15, <2>1, <2>3 DEF SyncedInv, PullSessionOK
    <3>2. ASSUME NEW e \in Entities, InPull(e)', Beyond(session.queue, session.cursor, e)'
          PROVE  Exists(rows[e]) /\ Beyond(p.queue, p.cur, e)
      BY <1>1, <2>1, <3>2 DEF InPull, Beyond
    <3> QED
      BY <1>1, <1>8, <1>13, <2>3, <3>1, <3>2
  <2>4. PullSessionOK'
    BY <2>3 DEF PullSessionOK
  <2>5. PusherUpToDate'
    BY <2>1 DEF PusherUpToDate
  <2>6. NothingMissedBelowCursor'
    <3>1. ASSUME NEW e \in Entities, Holds(p.dev), Exists(rows[e]), rows[e].usn < dv.cursor
          PROVE  dv.has[e] = rows[e]
      BY <1>2, <1>3, <1>5, <1>8, <1>15, <3>1 DEF SyncedInv, PullSessionOK
    <3> QED
      BY <1>1, <1>6, <3>1 DEF SyncedInv, NothingMissedBelowCursor
  <2> QED
    BY <1>9, <1>10, <2>2, <2>4, <2>5, <2>6 DEF SyncedInv
<1> QED
  BY <1>14, <1>15

LEMMA SyncedPullStep ==
    ASSUME ProtocolInv, CursorInv, SyncedInv, PullsCutBetweenTypes,
           NEW g \in Procs, PullStep(g)
    PROVE  SyncedInv'
<1> DEFINE p == pull[g]
           result == IF p.queue = {}
                     THEN MarkPullFinishedResult(session, p.req.sid)
                     ELSE UpdatePullProgressResult(session, p.req.sid)
<1>1. CASE PullQuery(g)
  BY <1>1, SyncedPullQuery
<1>2. CASE PullSave(g) /\ result = "ok"
  <2>1. session.sid = p.req.sid /\ session.sid # NoSid
    BY <1>2 DEF MarkPullFinishedResult, UpdatePullProgressResult
  <2> QED
    BY <1>2, <2>1, SyncedPullSaved DEF PullSave
<1>3. CASE PullFail(g) \/ (PullSave(g) /\ result # "ok")
  <2>1. /\ UNCHANGED <<session, rows, cursor, hsk>> /\ AnswerError(p.dev, p.req)
        /\ pull' = [pull EXCEPT ![g] = IdlePull] /\ Busy(p)
    BY <1>3 DEF PullSave, PullFail, dbVars
  <2>2. p.dev \in Devices
    BY <2>1, BusyDevice DEF ProtocolInv, TypeOK, PullProc
  <2>3. DataKept /\ NobodyJoins /\ SameSession /\ PlansFit
    BY <2>1, <2>2, ErrorKeepsData DEF SameSession, PlansFit
  <2>4. ResponsesFit
    BY <2>1, IdleFacts DEF ResponsesFit, ProtocolInv, TypeOK
  <2> QED
    BY <2>1, <2>3, <2>4, SyncedSame
<1> QED
  BY <1>1, <1>2, <1>3 DEF PullStep

-----------------------------------------------------------------------------
(* The push, the finish and the TTL. *)
(* In any state but Pulling no pull is being answered. *)
LEMMA NoPullOutsidePulling ==
    ASSUME ProtocolInv, CursorInv, session.state # "Pulling", NEW g \in Procs
    PROVE  ~Busy(pull[g])
BY DEF CursorInv, HandlersHoldLock, ProtocolInv, HandlersFitSession, Serves

LEMMA SyncedPushClaim ==
    ASSUME ProtocolInv, CursorInv, SyncedInv,
           NEW g \in Procs, NEW d \in Devices, PushClaim(g, d)
    PROVE  SyncedInv'
<1> DEFINE r == dev[d].req
<1>1. /\ UNCHANGED <<rows, cursor, hsk, pull>>
      /\ UNCHANGED dev \/ AnswerError(d, r)
  BY DEF PushClaim, dbVars
<1>2. DataKept /\ NobodyJoins /\ PlansFit /\ ResponsesFit
  BY <1>1, ErrorKeepsData DEF PlansFit, ResponsesFit
<1>3. CASE ClaimPushResult(session, r.sid, r.seq, r.n) = "ok"
  <2>1. /\ session.state \in {"Pushing", "AwaitingPushOrFinish"}
        /\ session' = PushClaimed(session, r.seq, r.n) /\ session \in Session
    BY <1>3 DEF PushClaim, ClaimPushResult, ProtocolInv, TypeOK
  <2>2. session'.sid = session.sid /\ session'.state = "Pushing"
    BY <2>1 DEF PushClaimed, Session
  <2>3. \A h \in Procs : ~Busy(pull'[h])
    BY <1>1, <2>1, NoPullOutsidePulling
  <2> QED
    BY <1>1, <1>2, <2>1, <2>2, <2>3, SyncedMovesOn
<1>4. CASE ClaimPushResult(session, r.sid, r.seq, r.n) # "ok"
  <2>1. SameSession
    BY <1>4 DEF PushClaim, SameSession
  <2> QED
    BY <1>1, <1>2, <2>1, SyncedSame
<1> QED
  BY <1>3, <1>4

LEMMA SyncedFinishPush ==
    ASSUME ProtocolInv, CursorInv, SyncedInv, NEW d \in Devices, FinishPush(d)
    PROVE  SyncedInv'
<1> DEFINE r == dev[d].req
           dv == [dev[d] EXCEPT !.phase = "finish", !.waiting = FALSE]
<1>1. UNCHANGED <<rows, cursor, hsk, pull>>
  BY DEF FinishPush, dbVars, hdlVars
<1>2. PlansFit /\ ResponsesFit
  BY <1>1 DEF PlansFit, ResponsesFit
<1>3. CASE MarkPushFinishedResult(session, r.sid, r.seq) = "ok"
  <2>1. /\ session.state = "Pushing" /\ session' = PushFinished(session)
        /\ session \in Session /\ Answer(d, r, dv)
    BY <1>3 DEF FinishPush, MarkPushFinishedResult, ProtocolInv, TypeOK
  <2>2. session'.sid = session.sid /\ session'.state = "AwaitingFinish"
    BY <2>1 DEF PushFinished, Session
  <2>3. dv.cursor = dev[d].cursor /\ dv.has = dev[d].has /\ ~dv.waiting /\ dv.sid = dev[d].sid
    BY DEF ProtocolInv, TypeOK, Device
  <2>4. \A e \in Devices : dev'[e] = dev[e] \/ (e = d /\ dev'[e] = dv)
    BY <2>1 DEF Answer, ProtocolInv, TypeOK
  <2> HIDE DEF dv
  <2>5. DataKept /\ NobodyJoins
    BY <2>1, <2>3, <2>4, AnswerKeepsData DEF NobodyJoins
  <2>6. \A h \in Procs : ~Busy(pull'[h])
    BY <1>1, <2>1, NoPullOutsidePulling
  <2> QED
    BY <1>1, <1>2, <2>1, <2>2, <2>5, <2>6, SyncedMovesOn
<1>4. CASE MarkPushFinishedResult(session, r.sid, r.seq) # "ok"
  <2>1. SameSession /\ AnswerError(d, r)
    BY <1>4 DEF FinishPush, SameSession
  <2> QED
    BY <1>1, <1>2, <2>1, ErrorKeepsData, SyncedSame
<1> QED
  BY <1>3, <1>4

LEMMA SyncedPushCommit ==
    ASSUME ProtocolInv, CursorInv, SyncedInv, NEW g \in Procs, PushCommit(g)
    PROVE  SyncedInv'
<1> DEFINE p == push[g]
           dv == Assigned(dev[p.dev], p)
<1>1. /\ Busy(p) /\ p \in PushProc /\ InService(p, "push", dev)
      /\ UNCHANGED <<session, hsk, pull>> /\ Answer(p.dev, p.req, dv)
      /\ rows' = Overlay(rows, p.txRows)
      /\ dev \in [Devices -> Device]
  BY DEF PushCommit, dbVars, ProtocolInv, TypeOK, RequestsInService
<1>2. p.dev \in Devices /\ dev[p.dev] \in Device
  BY <1>1, BusyDevice DEF PushProc
<1>3. /\ session.state = "Pushing" /\ session.sid = p.req.sid /\ session.sid # NoSid
  BY <1>1 DEF ProtocolInv, HandlersFitSession, Serves, CursorInv, HandlersHoldLock, InService
<1>4. /\ ServerCursor' = p.start + p.req.n
      /\ ServerCursor <= p.start /\ p.req.n > 0
      /\ ServerCursor \in Nat /\ p.start \in Nat /\ p.req.n \in Nat
  BY <1>1, CommittedRows, ServerCursorType DEF ProtocolInv, TypeOK, PushProc, Request
<1>5. /\ dv.has = Overlay(dev[p.dev].has, p.txRows) /\ ~dv.waiting
      /\ dv.sid = dev[p.dev].sid /\ dv.cursor = p.start + p.req.n
  BY <1>2 DEF Assigned, Device
<1> HIDE DEF dv
<1>6. ASSUME NEW d \in Devices
      PROVE  \/ dev'[d] = dev[d] /\ ~Holds(d)
             \/ dev'[d] = dv /\ d = p.dev /\ Holds(d)
  <2>1. Holds(d) <=> d = p.dev /\ dev[d].waiting /\ dev[d].req = p.req
    <3>1. DeviceOK(dev[d])
      BY DEF ProtocolInv, DevicesOK
    <3> QED
      BY <1>1, <1>3, <3>1, ServesWaitingDevice DEF Holds, DeviceOK
  <2> QED
    BY <1>1, <2>1 DEF Answer, dv
<1>7. ASSUME NEW e \in Entities
      PROVE  \/ rows'[e] = rows[e] /\ ~Exists(p.txRows[e])
             \/ /\ rows'[e] = p.txRows[e] /\ Exists(p.txRows[e])
                /\ p.start <= rows'[e].usn
  BY <1>1 DEF Overlay, Exists, CursorInv, TxUsnsOK
<1>8. ASSUME Holds(p.dev), NEW e \in Entities, Exists(rows'[e])
      PROVE  dv.has[e] = rows'[e]
  <2>1. CASE Exists(p.txRows[e])
    BY <1>5, <1>7, <2>1 DEF Overlay, Exists
  <2>2. CASE ~Exists(p.txRows[e])
    BY <1>2, <1>3, <1>5, <1>7, <1>8, <2>2 DEF Overlay, Exists, SyncedInv, PusherUpToDate
  <2> QED
    BY <2>1, <2>2
<1>9. \A d \in Devices : dev[d].cursor \in Nat /\ dev[d].cursor <= ServerCursor
  BY <1>1 DEF Device, SyncedInv, DeviceCursorOK
<1>10. DeviceCursorOK'
  BY <1>4, <1>5, <1>6, <1>9 DEF SyncedInv, DeviceCursorOK
<1>11. HandshakePlanOK'
  <2>1. ASSUME NEW h \in Procs, Busy(hsk[h]) PROVE hsk[h].srv # ServerCursor'
    <3>1. hsk[h].srv \in Nat /\ hsk[h].srv <= ServerCursor
      BY <2>1 DEF ProtocolInv, TypeOK, HskProc, CursorInv, HandshakeSawCollection
    <3> QED
      BY <1>4, <3>1
  <2> QED
    BY <1>1, <2>1 DEF SyncedInv, HandshakePlanOK
<1>12. PullSessionOK' /\ PullHandlersOK'
  BY <1>1, <1>3, NoPullOutsidePulling DEF PullSessionOK, PullHandlersOK
<1>13. PusherUpToDate'
  BY <1>1, <1>5, <1>6, <1>8 DEF PusherUpToDate, Holds
<1>14. NothingMissedBelowCursor'
  <2>1. ASSUME NEW d \in Devices, NEW e \in Entities,
               Exists(rows'[e]), rows'[e].usn < dev'[d].cursor
        PROVE  dev'[d].has[e] = rows'[e]
    <3>1. CASE Holds(d)
      BY <1>6, <1>8, <2>1, <3>1
    <3>2. CASE ~Holds(d)
      <4>1. dev'[d] = dev[d] /\ rows'[e] \in Row
        <5>1. rows[e] \in Row
          BY DEF ProtocolInv, TypeOK
        <5>2. p.txRows[e] \in Row
          BY <1>1 DEF PushProc
        <5>3. rows'[e] \in Row
          BY <1>7, <5>1, <5>2
        <5> QED
          BY <1>6, <3>2, <5>3
      <4>2. rows'[e] = rows[e]
        BY <1>4, <1>7, <1>9, <2>1, <4>1 DEF Row
      <4> QED
        BY <2>1, <4>1, <4>2 DEF SyncedInv, NothingMissedBelowCursor
    <3> QED
      BY <3>1, <3>2
  <2> QED
    BY <2>1 DEF NothingMissedBelowCursor
<1> QED
  BY <1>10, <1>11, <1>12, <1>13, <1>14 DEF SyncedInv

LEMMA SyncedPushStep ==
    ASSUME ProtocolInv, CursorInv, SyncedInv, NEW g \in Procs, PushStep(g)
    PROVE  SyncedInv'
<1>1. CASE PushCommit(g)
  BY <1>1, SyncedPushCommit
<1>2. CASE ~PushCommit(g)
  <2>1. /\ UNCHANGED <<session, rows, cursor, hsk, pull>>
        /\ UNCHANGED dev \/ (AnswerError(push[g].dev, push[g].req) /\ Busy(push[g]))
    BY <1>2 DEF PushStep, PushUpsert, PushDelete, PushFail, dbVars
  <2>2. Busy(push[g]) => push[g].dev \in Devices
    BY BusyDevice DEF ProtocolInv, TypeOK, PushProc
  <2>3. SameSession /\ PlansFit /\ ResponsesFit
    BY <2>1 DEF SameSession, PlansFit, ResponsesFit
  <2> QED
    BY <2>1, <2>2, <2>3, ErrorKeepsData, SyncedSame
<1> QED
  BY <1>1, <1>2

LEMMA SyncedFinCheck ==
    ASSUME ProtocolInv, SyncedInv, NEW g \in Procs, NEW d \in Devices, FinCheck(g, d)
    PROVE  SyncedInv'
<1>1. /\ UNCHANGED <<session, rows, cursor, hsk, pull>>
      /\ UNCHANGED dev \/ AnswerError(d, dev[d].req)
  BY DEF FinCheck, dbVars
<1>2. SameSession /\ PlansFit /\ ResponsesFit
  BY <1>1 DEF SameSession, PlansFit, ResponsesFit
<1> QED
  BY <1>1, <1>2, ErrorKeepsData, SyncedSame

LEMMA SyncedFinStep ==
    ASSUME ProtocolInv, CursorInv, SyncedInv, NEW g \in Procs, FinStep(g)
    PROVE  SyncedInv'
<1>1. /\ UNCHANGED <<rows, cursor, hsk, pull>> /\ Busy(fin[g])
      /\ UNCHANGED dev \/ AnswerError(fin[g].dev, fin[g].req)
  BY DEF FinStep, FinUpdateTime, FinRelease, FinFail, AnswerError, dbVars
<1>2. fin[g].dev \in Devices
  BY <1>1, BusyDevice DEF ProtocolInv, TypeOK, FinProc
<1>3. DataKept /\ NobodyJoins /\ PlansFit /\ ResponsesFit
  BY <1>1, <1>2, ErrorKeepsData DEF PlansFit, ResponsesFit
<1>4. CASE FinRelease(g) /\ ReleaseResult(session, fin[g].req.sid) = "ok"
  <2>1. session' = NoSession /\ session.sid = fin[g].req.sid
    BY <1>4 DEF FinRelease, ReleaseResult
  <2>2. session.state # "Pulling"
    BY <1>1, <2>1 DEF ProtocolInv, HandlersFitSession, Serves
  <2>3. \A h \in Procs : ~Busy(pull'[h])
    BY <1>1, <2>2, NoPullOutsidePulling
  <2> QED
    BY <1>1, <1>3, <2>1, <2>3, SyncedMovesOn
<1>5. CASE ~(FinRelease(g) /\ ReleaseResult(session, fin[g].req.sid) = "ok")
  <2>1. SameSession
    BY <1>5 DEF FinStep, FinUpdateTime, FinRelease, FinFail, SameSession
  <2> QED
    BY <1>1, <1>3, <2>1, SyncedSame
<1> QED
  BY <1>4, <1>5

LEMMA SyncedExpire ==
    ASSUME ~SlowHandlers, ProtocolInv, CursorInv, SyncedInv, Expire
    PROVE  SyncedInv'
<1>1. HandlersPrompt /\ session' = NoSession /\ UNCHANGED <<rows, cursor, hsk, pull, dev>>
  BY DEF Expire, dbVars, hdlVars
<1>2. \A g \in Procs : ~Busy(pull'[g])
  BY <1>1 DEF HandlersPrompt, Serves, CursorInv, HandlersHoldLock
<1>3. DataKept /\ PlansFit
  BY <1>1, ErrorKeepsData DEF PlansFit
<1> QED
  BY <1>1, <1>2, <1>3, SyncedMovesOn

-----------------------------------------------------------------------------
(* SyncedInv is inductive. *)
LEMMA SyncedInit == Init => SyncedInv
<1> SUFFICES ASSUME Init PROVE SyncedInv
  OBVIOUS
<1>1. \A g \in Procs : ~Busy(hsk[g]) /\ ~Busy(pull[g])
  BY IdleFacts DEF Init
<1>2. session.state = "Unspecified"
  BY DEF Init, NoSession
<1>3. \A d \in Devices : dev[d].cursor = 1 /\ ~dev[d].waiting
  BY DEF Init, NewDevice
<1>4. 1 <= ServerCursor
  BY BoundsAssumption DEF Init, ServerCursor
<1>5. ASSUME NEW e \in Entities, Exists(rows[e]) PROVE ~(rows[e].usn < 1)
  <2>1. rows[e].usn \in Nat
    BY TypeInit DEF TypeOK, Row
  <2> QED
    BY <1>5, <2>1 DEF Exists
<1> QED
  BY <1>1, <1>2, <1>3, <1>4, <1>5
  DEF SyncedInv, DeviceCursorOK, HandshakePlanOK, PullSessionOK, PullHandlersOK,
      PusherUpToDate, NothingMissedBelowCursor

LEMMA SyncedNext ==
    ASSUME ~SlowHandlers, ProtocolInv, CursorInv, UnitsMatchRows, PullsCutBetweenTypes,
           SyncedInv, [Next]_vars
    PROVE  SyncedInv'
<1>1. CASE \E d \in Devices : DeviceStep(d)
  BY <1>1, SyncedDevice
<1>2. CASE \E g \in Procs, d \in Devices : RequestStep(g, d)
  BY <1>2, SyncedHskRead, SyncedPullClaim, SyncedPushClaim, SyncedFinishPush,
     SyncedFinCheck DEF RequestStep
<1>3. CASE \E g \in Procs : HskStep(g) \/ PullStep(g) \/ PushStep(g) \/ FinStep(g)
  BY <1>3, SyncedHskStep, SyncedPullStep, SyncedPushStep, SyncedFinStep
<1>4. CASE Expire
  BY <1>4, SyncedExpire
<1>5. CASE UNCHANGED vars
  <2>1. UNCHANGED <<session, rows, cursor, hsk, pull, dev>>
    BY <1>5 DEF vars, dbVars, hdlVars
  <2> QED
    BY <2>1, ErrorKeepsData, SyncedSame DEF SameSession, PlansFit, ResponsesFit
<1> QED
  BY <1>1, <1>2, <1>3, <1>4, <1>5 DEF Next

(* No device ever misses a row that a later pull will not send, as long as *)
(* pulls are cut between types, or inside the last type of their queue: a  *)
(* response that is cut elsewhere (GetChangesSinceUSN resets the cursor to *)
(* the one the response began with) is the only way to lose rows.          *)
THEOREM NothingMissed ==
    ASSUME ~SlowHandlers, ~StaleHandshake
    PROVE  Spec /\ []PullsCutBetweenTypes => []NothingMissedBelowCursor
<1>1. ProtocolInv /\ CursorInv /\ UnitsMatchRows /\ PullsCutBetweenTypes
      /\ SyncedInv /\ [Next]_vars => SyncedInv'
  BY SyncedNext
<1>2. SyncedInv => NothingMissedBelowCursor
  BY DEF SyncedInv
<1> QED
  BY <1>1, <1>2, SyncedInit, ProtocolCorrect, CursorCorrect, UnitsAgree, PTL DEF Spec

(* Under the same conditions a handshake may skip the pull of a device     *)
(* whose cursor equals the server's: the device has every row.             *)
THEOREM EqualCursorsEqualData ==
    ASSUME ~SlowHandlers, ~StaleHandshake
    PROVE  Spec /\ []PullsCutBetweenTypes => []EqualCursorsMeanEqualData
<1>1. CursorInv /\ NothingMissedBelowCursor => EqualCursorsMeanEqualData
  BY DEF CursorInv, UsnsUnique, NothingMissedBelowCursor, EqualCursorsMeanEqualData
<1> QED
  BY <1>1, NothingMissed, CursorCorrect, PTL

-----------------------------------------------------------------------------
(* Most steps neither read nor change what a pull goes by. *)
Quiet ==
    /\ UNCHANGED <<rows, cursor, pull>>
    /\ SameSession \/ (session'.state # "Pulling" /\ \A g \in Procs : ~Busy(pull[g]))
    /\ \A g \in Procs : \/ hsk'[g] = hsk[g]
                        \/ ~(hsk'[g].state = "Pulling" /\ hsk'[g].queued)

LEMMA QuietHskRead ==
    ASSUME ProtocolInv, NEW g \in Procs, NEW d \in Devices, HskRead(g, d)
    PROVE  Quiet
<1>1. UNCHANGED <<session, rows, cursor, pull>> /\ hsk \in [Procs -> HskProc]
  BY DEF HskRead, dbVars, ProtocolInv, TypeOK
<1>2. \/ UNCHANGED hsk
      \/ \E status : hsk' = [hsk EXCEPT ![g] = HskSession(d, dev[d].req, status)]
  BY DEF HskRead
<1>3. ASSUME NEW status, hsk' = [hsk EXCEPT ![g] = HskSession(d, dev[d].req, status)]
      PROVE  \A h \in Procs : \/ hsk'[h] = hsk[h]
                              \/ ~(hsk'[h].state = "Pulling" /\ hsk'[h].queued)
  <2> DEFINE new == HskSession(d, dev[d].req, status)
  <2>1. new.state = "Pulling" => ~new.queued
    BY DEF HskSession, IdleHsk
  <2>2. \A h \in Procs : hsk'[h] = hsk[h] \/ hsk'[h] = new
    BY <1>1, <1>3
  <2> HIDE DEF new
  <2> QED
    BY <2>1, <2>2
<1>4. SameSession
  BY <1>1 DEF SameSession
<1> QED
  BY <1>1, <1>2, <1>3, <1>4 DEF Quiet

LEMMA QuietPushClaim ==
    ASSUME ProtocolInv, CursorInv, NEW g \in Procs, NEW d \in Devices, PushClaim(g, d)
    PROVE  Quiet
<1>1. UNCHANGED <<rows, cursor, hsk, pull>> /\ session \in Session
  BY DEF PushClaim, dbVars, ProtocolInv, TypeOK
<1>2. \/ UNCHANGED session
      \/ /\ session.state \in {"Pushing", "AwaitingPushOrFinish"}
         /\ session' = PushClaimed(session, dev[d].req.seq, dev[d].req.n)
  BY DEF PushClaim, ClaimPushResult
<1>3. CASE UNCHANGED session
  BY <1>1, <1>3 DEF Quiet, SameSession
<1>4. CASE ~UNCHANGED session
  <2>1. session'.state = "Pushing"
    BY <1>1, <1>2, <1>4 DEF PushClaimed, Session
  <2>2. \A h \in Procs : ~Busy(pull[h])
    BY <1>2, <1>4, NoPullOutsidePulling
  <2> QED
    BY <1>1, <2>1, <2>2 DEF Quiet
<1> QED
  BY <1>3, <1>4

LEMMA QuietFinishPush ==
    ASSUME ProtocolInv, CursorInv, NEW d \in Devices, FinishPush(d)
    PROVE  Quiet
<1>1. UNCHANGED <<rows, cursor, hsk, pull>> /\ session \in Session
  BY DEF FinishPush, dbVars, hdlVars, ProtocolInv, TypeOK
<1>2. \/ UNCHANGED session
      \/ session.state = "Pushing" /\ session' = PushFinished(session)
  BY DEF FinishPush, MarkPushFinishedResult
<1>3. CASE UNCHANGED session
  BY <1>1, <1>3 DEF Quiet, SameSession
<1>4. CASE ~UNCHANGED session
  <2>1. session'.state = "AwaitingFinish"
    BY <1>1, <1>2, <1>4 DEF PushFinished, Session
  <2>2. \A h \in Procs : ~Busy(pull[h])
    BY <1>2, <1>4, NoPullOutsidePulling
  <2> QED
    BY <1>1, <2>1, <2>2 DEF Quiet
<1> QED
  BY <1>3, <1>4

LEMMA QuietFinStep ==
    ASSUME ProtocolInv, CursorInv, NEW g \in Procs, FinStep(g)
    PROVE  Quiet
<1>1. UNCHANGED <<rows, cursor, hsk, pull>> /\ Busy(fin[g])
  BY DEF FinStep, FinUpdateTime, FinRelease, FinFail, dbVars
<1>2. UNCHANGED session \/ (session' = NoSession /\ session.sid = fin[g].req.sid)
  BY DEF FinStep, FinUpdateTime, FinRelease, FinFail, ReleaseResult
<1>3. CASE UNCHANGED session
  BY <1>1, <1>3 DEF Quiet, SameSession
<1>4. CASE session' = NoSession /\ session.sid = fin[g].req.sid
  <2>1. session.state # "Pulling"
    BY <1>1, <1>4 DEF ProtocolInv, HandlersFitSession, Serves
  <2>2. \A h \in Procs : ~Busy(pull[h])
    BY <2>1, NoPullOutsidePulling
  <2> QED
    BY <1>1, <1>4, <2>2 DEF Quiet, NoSession
<1> QED
  BY <1>2, <1>3, <1>4

LEMMA QuietExpire ==
    ASSUME ~SlowHandlers, ProtocolInv, CursorInv, Expire
    PROVE  Quiet
<1>1. HandlersPrompt /\ session' = NoSession /\ UNCHANGED <<rows, cursor, hsk, pull>>
  BY DEF Expire, dbVars, hdlVars
<1>2. \A g \in Procs : ~Busy(pull[g])
  BY <1>1 DEF HandlersPrompt, Serves, CursorInv, HandlersHoldLock
<1> QED
  BY <1>1, <1>2 DEF Quiet, NoSession

LEMMA StepKinds ==
    ASSUME ~SlowHandlers, ProtocolInv, CursorInv, [Next]_vars
    PROVE  \/ Quiet
           \/ \E g \in Procs : HskStep(g) \/ PullStep(g) \/ PushCommit(g)
           \/ \E g \in Procs, d \in Devices : PullClaim(g, d)
<1>1. ASSUME UNCHANGED <<session, rows, cursor, hsk, pull>> PROVE Quiet
  BY <1>1 DEF Quiet, SameSession
<1>2. ASSUME NEW d \in Devices, DeviceStep(d) PROVE Quiet
  BY <1>1, <1>2 DEF DeviceStep, StartSync, SendPull, SendPush, SendFinishPush,
                    SendFinishSync, GiveUp, Send, dbVars, hdlVars
<1>3. ASSUME NEW g \in Procs, NEW d \in Devices, FinCheck(g, d) PROVE Quiet
  BY <1>1, <1>3 DEF FinCheck, dbVars
<1>4. ASSUME NEW g \in Procs, PushStep(g), ~PushCommit(g) PROVE Quiet
  BY <1>1, <1>4 DEF PushStep, PushUpsert, PushDelete, PushFail, dbVars
<1>5. CASE UNCHANGED vars
  BY <1>1, <1>5 DEF vars, dbVars, hdlVars
<1>6. ASSUME NEW g \in Procs, NEW d \in Devices, RequestStep(g, d)
      PROVE  Quiet \/ PullClaim(g, d)
  BY <1>3, <1>6, QuietHskRead, QuietPushClaim, QuietFinishPush DEF RequestStep
<1> QED
  BY <1>2, <1>4, <1>5, <1>6, QuietFinStep, QuietExpire DEF Next

-----------------------------------------------------------------------------
(* What there is left to pull. *)
LEMMA FoundFrame ==
    ASSUME FoundInv, UNCHANGED <<rows, cursor>>,
           session'.state = "Pulling" => SameSession \/ SessionFinds(session'),
           \A g \in Procs : Busy(hsk'[g]) => hsk'[g] = hsk[g] \/ PlanFinds(hsk'[g]),
           \A g \in Procs : Busy(pull'[g]) => pull'[g] = pull[g] \/ PullFinds(pull'[g])
    PROVE  FoundInv'
<1>1. \A q, c, s, e : AllFound(q, c, s, e)' <=> AllFound(q, c, s, e)
  BY DEF AllFound, Selected
<1>2. ServerCursor' = ServerCursor
  BY DEF ServerCursor
<1>3. SessionFinds(session)'
  <2>1. SessionFinds(session')
    BY DEF FoundInv, SessionFinds, SameSession
  <2> QED
    BY <1>1, <2>1 DEF SessionFinds
<1>4. ASSUME NEW g \in Procs, Busy(hsk'[g]) PROVE PlanFinds(hsk[g])'
  <2>1. PlanFinds(hsk'[g])
    <3>1. CASE hsk'[g] = hsk[g]
      BY <1>4, <3>1 DEF FoundInv
    <3> QED
      BY <1>4, <3>1
  <2> QED
    BY <1>1, <1>2, <2>1 DEF PlanFinds
<1>5. ASSUME NEW g \in Procs, Busy(pull'[g]) PROVE PullFinds(pull[g])'
  <2>1. PullFinds(pull'[g])
    <3>1. CASE pull'[g] = pull[g]
      BY <1>5, <3>1 DEF FoundInv
    <3> QED
      BY <1>5, <3>1
  <2> QED
    BY <1>1, <2>1 DEF PullFinds
<1> QED
  BY <1>3, <1>4, <1>5 DEF FoundInv

LEMMA FoundQuiet ==
    ASSUME FoundInv, Quiet
    PROVE  FoundInv'
<1>1. \A g \in Procs : Busy(hsk'[g]) => hsk'[g] = hsk[g] \/ PlanFinds(hsk'[g])
  BY DEF Quiet, PlanFinds
<1> QED
  BY <1>1, FoundFrame DEF Quiet

(* The queue of a handshake comes from sync_units, the rows from the tables. *)
LEMMA QueueFound ==
    ASSUME UnitsMatchRows, NEW lo, NEW hi
    PROVE  AllFound(PullEntityQueue(lo, hi), lo, lo, hi)
<1>1. ASSUME NEW t \in PullEntityQueue(lo, hi)
      PROVE  \E e \in Entities : e \in Selected(t, lo, hi)
  <2>1. PICK e \in Entities : /\ t = TypeOf[e] /\ Exists(units[e])
                              /\ lo <= units[e].usn /\ units[e].usn < hi
    BY DEF PullEntityQueue
  <2>2. units[e].usn = rows[e].usn
    BY DEF UnitsMatchRows
  <2> QED
    BY <2>1, <2>2 DEF Selected, Exists
<1> QED
  BY <1>1 DEF AllFound

LEMMA FoundHskStep ==
    ASSUME ProtocolInv, CursorInv, SyncedInv, UnitsMatchRows, FoundInv,
           NEW g \in Procs, HskStep(g)
    PROVE  FoundInv'
<1> DEFINE p == hsk[g]
<1>1. UNCHANGED <<rows, cursor, pull>> /\ Busy(p) /\ hsk \in [Procs -> HskProc]
  BY DEF HskStep, HskQueue, HskCreate, HskFail, dbVars, ProtocolInv, TypeOK
<1>2. CASE HskQueue(g)
  <2> DEFINE new == [p EXCEPT !.queued = TRUE, !.queue = PullEntityQueue(p.req.cli, p.srv)]
  <2>1. UNCHANGED session /\ \A h \in Procs : hsk'[h] = hsk[h] \/ hsk'[h] = new
    BY <1>1, <1>2 DEF HskQueue
  <2>2. new.req = p.req /\ new.srv = p.srv /\ new.queue = PullEntityQueue(p.req.cli, p.srv)
    BY <1>1 DEF HskProc
  <2> HIDE DEF new
  <2>3. PlanFinds(new)
    BY <2>2, QueueFound DEF PlanFinds
  <2> QED
    BY <1>1, <2>1, <2>3, FoundFrame DEF SameSession
<1>3. CASE HskCreate(g) \/ HskFail(g)
  <2>1. \A h \in Procs : Busy(hsk'[h]) => hsk'[h] = hsk[h]
    BY <1>1, <1>3, IdleFacts DEF HskCreate, HskFail, Busy, IdleHsk
  <2>2. CASE UNCHANGED session
    BY <1>1, <2>1, <2>2, FoundFrame DEF SameSession
  <2>3. CASE ~UNCHANGED session
    <3>1. /\ session.sid = NoSid /\ p.queued
          /\ session' = CreatedSession(nextSid, p.state, p.cursor, p.req.cli, p.srv, p.queue)
      BY <1>3, <2>3 DEF HskCreate, HskFail, CreateSessionResult
    <3>2. /\ session'.state = p.state /\ session'.cursor = p.cursor
          /\ session'.srvAt = p.srv
          /\ p.state = "Pulling" => session'.queue = p.queue
      BY <3>1 DEF CreatedSession
    <3>3. p.srv = ServerCursor
      BY <1>1, <3>1 DEF CursorInv, HandshakeCursorOK
    <3>4. p.state = "Pulling" => p.cursor = p.req.cli
      BY <1>1 DEF SyncedInv, HandshakePlanOK
    <3>5. PlanFinds(p)
      BY <1>1 DEF FoundInv
    <3>6. SessionFinds(session')
      BY <3>1, <3>2, <3>3, <3>4, <3>5 DEF PlanFinds, SessionFinds
    <3> QED
      BY <1>1, <2>1, <3>6, FoundFrame
  <2> QED
    BY <2>2, <2>3
<1> QED
  BY <1>2, <1>3 DEF HskStep

(* A claim takes over what the session has. *)
LEMMA ClaimFacts ==
    ASSUME ProtocolInv, NEW g \in Procs, NEW d \in Devices, PullClaim(g, d)
    PROVE  /\ UNCHANGED <<rows, cursor, hsk>> /\ SameSession
           /\ \A h \in Procs :
                 \/ pull'[h] = pull[h]
                 \/ /\ session.state = "Pulling"
                    /\ pull'[h].queue = session.queue /\ pull'[h].end = session.srvAt
                    /\ pull'[h].cur = session.cursor /\ pull'[h].start = session.cursor
                    /\ \A e \in Entities : ~Exists(pull'[h].got[e])
                    /\ pull'[h].size = 0 /\ ~pull'[h].done
<1> DEFINE r == dev[d].req
           new == ClaimPullBatchResult(d, r)
<1>1. /\ UNCHANGED <<rows, cursor, hsk>>
      /\ session \in Session /\ pull \in [Procs -> PullProc]
  BY DEF PullClaim, dbVars, ProtocolInv, TypeOK
<1>2. CASE ClaimPullResult(session, r.sid, r.seq) = "ok"
  <2>1. session' = PullClaimed(session, r.seq) /\ session.state = "Pulling"
    BY <1>2 DEF PullClaim, ClaimPullResult
  <2>2. \A h \in Procs : pull'[h] = pull[h] \/ pull'[h] = new
    BY <1>1, <1>2 DEF PullClaim
  <2>3. /\ new.queue = session.queue /\ new.end = session.srvAt
        /\ new.cur = session.cursor /\ new.start = session.cursor
        /\ \A e \in Entities : ~Exists(new.got[e])
        /\ new.size = 0 /\ ~new.done
    BY DEF ClaimPullBatchResult, IdlePull, NoRows, NoRow, Exists
  <2>4. SameSession
    BY <1>1, <2>1 DEF SameSession, PullClaimed, Session
  <2> HIDE DEF new
  <2> QED
    BY <1>1, <2>1, <2>2, <2>3, <2>4
<1>3. CASE ClaimPullResult(session, r.sid, r.seq) # "ok"
  BY <1>1, <1>3 DEF PullClaim, SameSession
<1> QED
  BY <1>2, <1>3

LEMMA FoundPullClaim ==
    ASSUME ProtocolInv, FoundInv, NEW g \in Procs, NEW d \in Devices, PullClaim(g, d)
    PROVE  FoundInv'
<1>1. \A h \in Procs : pull'[h] = pull[h] \/ PullFinds(pull'[h])
  BY ClaimFacts DEF FoundInv, SessionFinds, PullFinds
<1> QED
  BY <1>1, ClaimFacts, FoundFrame

(* What a query leaves: the rows it did not take have higher USNs. *)
LEMMA QueriedFinds ==
    ASSUME ProtocolInv, CursorInv, NEW g \in Procs, pull[g].queue # {}, PullFinds(pull[g]),
           NEW first, NEW after, NEW new, Takes(pull[g], first, after, new)
    PROVE  PullFinds(new)
<1> DEFINE p == pull[g]
           type == HeadOf(p.queue)
           selected == Selected(type, p.cur, p.end)
<1>0. /\ first \subseteq selected /\ after \in SyncCursorUsn(first) /\ after > p.cur
      /\ \A x \in first, y \in selected \ first : rows[x].usn <= rows[y].usn
      /\ new.start = p.start /\ new.end = p.end
      /\ new.queue = IF first # selected THEN p.queue ELSE p.queue \ {type}
      /\ new.cur = IF first # selected THEN after ELSE p.start
  BY DEF Takes
<1>1. /\ p.cur \in Nat /\ p.queue \in SUBSET Types
      /\ \A e \in Entities : rows[e].usn \in Nat
  BY DEF ProtocolInv, TypeOK, PullProc, Row
<1>2. \A t \in p.queue : \E e \in Entities :
         e \in Selected(t, IF t = type THEN p.cur ELSE p.start, p.end)
  BY DEF PullFinds, AllFound
<1> HIDE DEF p, type
<1>3. CASE first # selected
  <2>1. PICK y \in selected : y \notin first
    BY <1>0, <1>3
  <2>2. first # {}
    BY <1>0, <1>1 DEF SyncCursorUsn
  <2>3. PICK x \in first : rows[x].usn + 1 = after
    BY <1>0, <2>2 DEF SyncCursorUsn
  <2>4. /\ x \in Entities /\ Exists(rows[x])
        /\ y \in Entities /\ Exists(rows[y]) /\ TypeOf[y] = type /\ rows[y].usn < p.end
    BY <1>0, <2>1, <2>3 DEF Selected
  <2>5. after <= rows[y].usn
    <3>1. rows[x].usn <= rows[y].usn
      BY <1>0, <2>1
    <3>2. rows[x].usn # rows[y].usn
      BY <2>1, <2>3, <2>4 DEF CursorInv, UsnsUnique
    <3>3. rows[x].usn \in Nat /\ rows[y].usn \in Nat
      BY <1>1, <2>4
    <3> QED
      BY <2>3, <3>1, <3>2, <3>3
  <2>6. y \in Selected(type, after, p.end)
    BY <2>4, <2>5 DEF Selected
  <2> HIDE DEF selected
  <2> QED
    BY <1>0, <1>2, <1>3, <2>4, <2>6 DEF PullFinds, AllFound, type
<1>4. CASE first = selected
  <2>1. new.queue = p.queue \ {type} /\ new.cur = p.start
    BY <1>0, <1>4
  <2>2. ASSUME NEW t \in new.queue
        PROVE  \E e \in Entities : e \in Selected(t, p.start, p.end)
    BY <1>2, <2>1, <2>2
  <2> HIDE DEF selected
  <2> QED
    BY <1>0, <2>1, <2>2 DEF PullFinds, AllFound
<1> QED
  BY <1>3, <1>4

(* The progress that a response saves: if it is in the middle of a type,   *)
(* that is the last one, or the cursor is still the client's.              *)
LEMMA SavedFinds ==
    ASSUME ProtocolInv, CursorInv, SyncedInv, PullsCutBetweenTypes, FoundInv,
           NEW g \in Procs, Busy(pull[g]),
           pull[g].cur # session.cliAt => OneType(pull[g].queue)
    PROVE  AllFound(pull[g].queue, pull[g].cur, pull[g].cur, session.srvAt)
<1> DEFINE p == pull[g]
           head == HeadOf(p.queue)
<1>1. session.state = "Pulling"
  BY DEF CursorInv, HandlersHoldLock, ProtocolInv, HandlersFitSession, Serves
<1>2. /\ p.start = session.cursor /\ p.end = session.srvAt
      /\ p.queue \subseteq session.queue
  BY DEF SyncedInv, PullHandlersOK
<1>3. p.queue \in SUBSET Types
  BY DEF ProtocolInv, TypeOK, PullProc
<1>4. p.cur = p.start \/ OneType(p.queue)
  BY <1>1, <1>2 DEF PullsCutBetweenTypes, CutBetweenTypes, OneType
<1>5. ASSUME NEW t \in p.queue
      PROVE  \E e \in Entities : e \in Selected(t, p.cur, p.end)
  <2>1. PICK e \in Entities :
           e \in Selected(t, IF t = head THEN p.cur ELSE p.start, p.end)
    BY <1>5 DEF FoundInv, PullFinds, AllFound
  <2>2. t = head \/ p.cur = p.start
    <3>1. head \in p.queue
      BY <1>3, <1>5, HeadLowest
    <3> QED
      BY <1>4, <1>5, <3>1 DEF OneType
  <2> HIDE DEF p, head
  <2> QED
    BY <2>1, <2>2
<1> HIDE DEF p
<1> QED
  BY <1>2, <1>5 DEF AllFound, p

LEMMA FoundPullStep ==
    ASSUME ProtocolInv, CursorInv, SyncedInv, PullsCutBetweenTypes, PullsCutBetweenTypes',
           FoundInv, NEW g \in Procs, PullStep(g)
    PROVE  FoundInv'
<1> DEFINE p == pull[g]
<1>1. /\ UNCHANGED <<rows, cursor, hsk>> /\ Busy(p)
      /\ pull \in [Procs -> PullProc] /\ session \in Session
  BY DEF PullStep, PullQuery, PullSave, PullFail, dbVars, ProtocolInv, TypeOK
<1>2. CASE PullQuery(g)
  <2>1. UNCHANGED session /\ p.queue # {} /\ SameSession
    BY <1>2 DEF PullQuery, SameSession
  <2>2. CASE pull' = [pull EXCEPT ![g] = IdlePull]
    BY <1>1, <2>1, <2>2, IdleFacts, FoundFrame
  <2>3. ASSUME NEW first, NEW after, NEW new, Takes(p, first, after, new),
               pull' = [pull EXCEPT ![g] = new]
        PROVE  FoundInv'
    <3>1. PullFinds(p)
      BY <1>1 DEF FoundInv
    <3>2. PullFinds(new)
      BY <2>1, <2>3, <3>1, QueriedFinds
    <3>3. \A h \in Procs : pull'[h] = pull[h] \/ pull'[h] = new
      BY <1>1, <2>3
    <3> QED
      BY <1>1, <2>1, <3>2, <3>3, FoundFrame
  <2> QED
    BY <1>2, <2>2, <2>3, PullQueryTakes
<1>3. CASE PullSave(g) \/ PullFail(g)
  <2>1. \A h \in Procs : Busy(pull'[h]) => pull'[h] = pull[h]
    BY <1>1, <1>3, IdleFacts DEF PullSave, PullFail
  <2>2. \/ session' = session \/ session' = PullFinished(session)
        \/ session' = PullProgressed(session, p.queue, p.cur)
    BY <1>3 DEF PullSave, PullFail
  <2>3. CASE session' = session \/ session' = PullFinished(session)
    <3>1. session' = session \/ session'.state = "AwaitingPushOrFinish"
      BY <1>1, <2>3 DEF PullFinished, Session
    <3> QED
      BY <1>1, <2>1, <3>1, FoundFrame DEF SameSession
  <2>4. CASE session' = PullProgressed(session, p.queue, p.cur)
    <3>1. /\ session'.cursor = p.cur /\ session'.queue = p.queue
          /\ session'.cliAt = session.cliAt /\ session'.srvAt = session.srvAt
      BY <1>1, <2>4 DEF PullProgressed, Session
    <3>2. session'.state = "Pulling" /\ p.cur # session.cliAt => OneType(p.queue)
      BY <3>1 DEF PullsCutBetweenTypes, CutBetweenTypes
    <3>3. SessionFinds(session')
      BY <1>1, <3>1, <3>2, SavedFinds DEF SessionFinds
    <3> QED
      BY <1>1, <2>1, <3>3, FoundFrame
  <2> QED
    BY <2>2, <2>3, <2>4
<1> QED
  BY <1>2, <1>3 DEF PullStep

(* A commit makes the handshakes stale that it overtakes. *)
LEMMA FoundPushCommit ==
    ASSUME ProtocolInv, CursorInv, NEW g \in Procs, PushCommit(g)
    PROVE  FoundInv'
<1> DEFINE p == push[g]
<1>1. UNCHANGED <<session, hsk, pull>> /\ Busy(p) /\ p \in PushProc
  BY DEF PushCommit, dbVars, ProtocolInv, TypeOK
<1>2. session.state = "Pushing"
  BY <1>1 DEF ProtocolInv, HandlersFitSession, Serves, CursorInv, HandlersHoldLock
<1>3. /\ ServerCursor' = p.start + p.req.n
      /\ ServerCursor <= p.start /\ p.req.n > 0
      /\ ServerCursor \in Nat /\ p.start \in Nat /\ p.req.n \in Nat
  BY <1>1, CommittedRows, ServerCursorType DEF ProtocolInv, TypeOK, PushProc, Request
<1>4. ASSUME NEW h \in Procs, Busy(hsk[h]) PROVE hsk[h].srv # ServerCursor'
  <2>1. hsk[h].srv \in Nat /\ hsk[h].srv <= ServerCursor
    BY <1>4 DEF ProtocolInv, TypeOK, HskProc, CursorInv, HandshakeSawCollection
  <2> QED
    BY <1>3, <2>1
<1>5. ASSUME NEW h \in Procs, Busy(hsk'[h]) PROVE PlanFinds(hsk[h])'
  BY <1>1, <1>4, <1>5 DEF PlanFinds
<1> QED
  BY <1>1, <1>2, <1>5, NoPullOutsidePulling DEF FoundInv, SessionFinds

LEMMA FoundNext ==
    ASSUME ~SlowHandlers, ProtocolInv, CursorInv, UnitsMatchRows, SyncedInv,
           PullsCutBetweenTypes, PullsCutBetweenTypes', FoundInv, [Next]_vars
    PROVE  FoundInv'
BY StepKinds, FoundQuiet, FoundHskStep, FoundPullStep, FoundPushCommit, FoundPullClaim

LEMMA FoundInit == Init => FoundInv
BY IdleFacts DEF Init, NoSession, FoundInv, SessionFinds

LEMMA FoundRows == ProtocolInv /\ FoundInv => PullsFindRows
<1> SUFFICES ASSUME ProtocolInv, FoundInv, NEW g \in Procs,
                    Busy(pull[g]), pull[g].queue # {}
             PROVE  Selected(HeadOf(pull[g].queue), pull[g].cur, pull[g].end) # {}
  BY DEF PullsFindRows
<1>1. pull[g].queue \in SUBSET Types
  BY DEF ProtocolInv, TypeOK, PullProc
<1>2. HeadOf(pull[g].queue) \in pull[g].queue
  BY <1>1, HeadLowest
<1> QED
  BY <1>2 DEF FoundInv, PullFinds, AllFound

(* A pull never asks for a type without rows as long as pulls are cut      *)
(* between types, or inside the last type of their queue: then what the    *)
(* handshake queued (PullEntityQueue, from sync_units) is what the queries *)
(* of GetChangesSinceUSN find in the tables, response after response.      *)
THEOREM PullsFind ==
    ASSUME ~SlowHandlers, ~StaleHandshake
    PROVE  Spec /\ []PullsCutBetweenTypes => []PullsFindRows
<1>1. ProtocolInv /\ CursorInv /\ UnitsMatchRows /\ PullsCutBetweenTypes
      /\ PullsCutBetweenTypes' /\ SyncedInv /\ FoundInv /\ [Next]_vars
      => SyncedInv' /\ FoundInv'
  BY SyncedNext, FoundNext
<1> QED
  BY <1>1, FoundRows, SyncedInit, FoundInit, ProtocolCorrect, CursorCorrect,
     UnitsAgree, PTL DEF Spec
-----------------------------------------------------------------------------
(* Where a pull is cut. *)
LEMMA CutFrame ==
    ASSUME CutInv, UNCHANGED rows,
           session'.state = "Pulling" => SameSession \/ CutBetweenTypes(session'),
           \A g \in Procs : Busy(pull'[g]) =>
              /\ session'.cliAt = session.cliAt
              /\ \/ pull'[g] = pull[g]
                 \/ CountsRows(pull'[g]) /\ CutFits(pull'[g], session.cliAt)
    PROVE  CutInv'
<1>1. PullsCutBetweenTypes'
  <2>1. CutBetweenTypes(session')
    BY DEF CutInv, PullsCutBetweenTypes, CutBetweenTypes, SameSession
  <2> QED
    BY <2>1 DEF PullsCutBetweenTypes, CutBetweenTypes
<1>2. ASSUME NEW g \in Procs, Busy(pull'[g])
      PROVE  CountsRows(pull'[g]) /\ CutFits(pull'[g], session'.cliAt)
  <2>1. CASE pull'[g] = pull[g]
    BY <1>2, <2>1 DEF CutInv
  <2> QED
    BY <1>2, <2>1
<1>3. ASSUME NEW g \in Procs, CountsRows(pull'[g]) PROVE CountsRows(pull[g])'
  BY <1>3 DEF CountsRows, Beyond
<1>4. ASSUME NEW g \in Procs, CutFits(pull'[g], session'.cliAt)
      PROVE  CutFits(pull[g], session.cliAt)'
  BY <1>4 DEF CutFits
<1> QED
  BY <1>1, <1>2, <1>3, <1>4 DEF CutInv

LEMMA CutQuiet ==
    ASSUME CutInv, Quiet
    PROVE  CutInv'
BY CutFrame DEF Quiet, SameSession

LEMMA CutHskStep ==
    ASSUME ProtocolInv, CursorInv, SyncedInv, CutInv, NEW g \in Procs, HskStep(g)
    PROVE  CutInv'
<1>1. UNCHANGED <<rows, pull>> /\ Busy(hsk[g])
  BY DEF HskStep, HskQueue, HskCreate, HskFail, dbVars
<1>2. CASE UNCHANGED session
  BY <1>1, <1>2, CutFrame DEF SameSession
<1>3. CASE ~UNCHANGED session
  <2>1. /\ session.sid = NoSid
        /\ session' = CreatedSession(nextSid, hsk[g].state, hsk[g].cursor,
                                     hsk[g].req.cli, hsk[g].srv, hsk[g].queue)
    BY <1>3 DEF HskStep, HskQueue, HskCreate, HskFail, CreateSessionResult
  <2>2. session'.state = "Pulling" => session'.cursor = session'.cliAt
    BY <1>1, <2>1 DEF CreatedSession, SyncedInv, HandshakePlanOK
  <2>3. \A h \in Procs : ~Busy(pull[h])
    BY <2>1 DEF CursorInv, HandlersHoldLock, ProtocolInv, RequestsInService, InService
  <2> QED
    BY <1>1, <2>2, <2>3, CutFrame DEF CutBetweenTypes
<1> QED
  BY <1>2, <1>3

LEMMA CutPullClaim ==
    ASSUME ProtocolInv, CutInv, NEW g \in Procs, NEW d \in Devices, PullClaim(g, d)
    PROVE  CutInv'
<1>1. ASSUME NEW h \in Procs, pull'[h] # pull[h]
      PROVE  CountsRows(pull'[h]) /\ CutFits(pull'[h], session.cliAt)
  <2> DEFINE new == pull'[h]
  <2>1. /\ session.state = "Pulling"
        /\ new.queue = session.queue /\ new.cur = session.cursor
        /\ \A e \in Entities : ~Exists(new.got[e])
        /\ new.size = 0 /\ ~new.done
    BY <1>1, ClaimFacts
  <2> HIDE DEF new
  <2>2. CountsRows(new)
    <3>1. {e \in Entities : Exists(new.got[e])} = {}
      BY <2>1
    <3> QED
      BY <2>1, <3>1, FS_EmptySet DEF CountsRows
  <2>3. CutFits(new, session.cliAt)
    BY <2>1 DEF CutFits, CutInv, PullsCutBetweenTypes, CutBetweenTypes
  <2> QED
    BY <2>2, <2>3 DEF new
<1> QED
  BY <1>1, ClaimFacts, CutFrame DEF SameSession

(* A query takes rows that the response does not have yet. *)
LEMMA TakenCounted ==
    ASSUME ProtocolInv, NEW g \in Procs, Busy(pull[g]), pull[g].queue # {},
           CountsRows(pull[g]),
           NEW first, NEW after, NEW new, Takes(pull[g], first, after, new)
    PROVE  CountsRows(new)
<1> DEFINE p == pull[g]
           type == HeadOf(p.queue)
           selected == Selected(type, p.cur, p.end)
           Got(q) == {e \in Entities : Exists(q.got[e])}
<1>0. /\ first \subseteq selected /\ after \in SyncCursorUsn(first) /\ after > p.cur
      /\ new.got = [e \in Entities |-> IF e \in first THEN rows[e] ELSE p.got[e]]
      /\ new.queue = IF first # selected THEN p.queue ELSE p.queue \ {type}
      /\ new.cur = IF first # selected THEN after ELSE p.start
      /\ new.size = p.size + Cardinality(first)
      /\ new.done = (new.size >= MaxBatchSize)
  BY DEF Takes
<1>1. /\ p.cur \in Nat /\ p.queue \in SUBSET Types
      /\ \A e \in Entities : rows[e].usn \in Nat
  BY DEF ProtocolInv, TypeOK, PullProc, Row
<1>2. type \in p.queue
  BY HeadLowest, <1>1
<1> HIDE DEF p, selected
<1>3. \A e \in first : /\ e \in Entities /\ Exists(rows[e])
                       /\ TypeOf[e] = type /\ p.cur <= rows[e].usn
  BY <1>0 DEF Selected, selected
<1>4. Got(new) = Got(p) \union first
  BY <1>0, <1>3
<1>5. Got(p) \cap first = {}
  BY <1>1, <1>2, <1>3 DEF CountsRows, Beyond, p
<1>6. new.size = Cardinality(Got(new))
  <2>1. IsFiniteSet(Got(p)) /\ IsFiniteSet(first)
    <3>1. Got(p) \in SUBSET Entities /\ first \in SUBSET Entities
      BY <1>3
    <3> QED
      BY <3>1, EntitiesAssumption, FS_Subset
  <2>2. Cardinality(Got(p) \union first) = Cardinality(Got(p)) + Cardinality(first)
    <3>1. Cardinality(Got(p)) \in Nat /\ Cardinality(first) \in Nat
      BY <2>1, FS_CardinalityType
    <3> HIDE DEF Got
    <3>2. Cardinality(Got(p) \cap first) = 0
      BY <1>5, FS_EmptySet
    <3>3. Cardinality(Got(p) \union first)
          = Cardinality(Got(p)) + Cardinality(first) - Cardinality(Got(p) \cap first)
      BY <2>1, FS_Union
    <3> QED
      BY <3>1, <3>2, <3>3
  <2>3. p.size = Cardinality(Got(p))
    BY DEF CountsRows, p
  <2> QED
    BY <1>0, <1>4, <2>2, <2>3
<1>7. ASSUME NEW e \in first PROVE rows[e].usn < after
  <2>1. PICK x \in first : /\ after = rows[x].usn + 1
                           /\ \A y \in first : rows[y].usn <= rows[x].usn
    BY <1>0 DEF SyncCursorUsn
  <2> QED
    BY <1>1, <1>3, <2>1
<1>8. after \in Nat
  BY <1>0, <1>1, <1>3 DEF SyncCursorUsn
<1>9. ASSUME NEW e \in Entities, Exists(new.got[e])
      PROVE  Beyond(new.queue, new.cur, e)
  <2>1. CASE e \in first
    BY <1>0, <1>3, <1>7, <2>1 DEF Beyond
  <2>2. CASE Exists(p.got[e])
    <3>1. Beyond(p.queue, p.cur, e)
      BY <2>2 DEF CountsRows, p
    <3> QED
      BY <1>0, <1>1, <1>8, <3>1 DEF Beyond
  <2> QED
    BY <1>4, <1>9, <2>1, <2>2
<1> QED
  BY <1>0, <1>6, <1>9 DEF CountsRows

(* A query that leaves rows of its type behind has taken others of it. *)
LEMMA TakenFits ==
    ASSUME ProtocolInv, CursorInv, SyncedInv, CutInv,
           NEW g \in Procs, Busy(pull[g]), pull[g].queue # {},
           NEW first, NEW after, NEW new, Takes(pull[g], first, after, new)
    PROVE  CutFits(new, session.cliAt)
<1> DEFINE p == pull[g]
           type == HeadOf(p.queue)
           selected == Selected(type, p.cur, p.end)
<1>0. /\ first \subseteq selected /\ after \in SyncCursorUsn(first) /\ after > p.cur
      /\ new.got = [e \in Entities |-> IF e \in first THEN rows[e] ELSE p.got[e]]
      /\ new.queue = IF first # selected THEN p.queue ELSE p.queue \ {type}
      /\ new.cur = IF first # selected THEN after ELSE p.start
  BY DEF Takes
<1>1. p.cur \in Nat /\ p.queue \in SUBSET Types
  BY DEF ProtocolInv, TypeOK, PullProc
<1>2. type \in p.queue /\ \A t \in p.queue : type <= t
  BY <1>1, HeadLowest
<1>3. \A e \in Entities, t \in p.queue : Exists(p.got[e]) => TypeOf[e] <= t
  BY DEF CutInv, CutFits
<1>4. \A e \in first : e \in Entities /\ TypeOf[e] = type
  BY <1>0 DEF Selected
<1>5. /\ p.start = session.cursor /\ p.queue \subseteq session.queue
      /\ session.state = "Pulling"
  BY DEF SyncedInv, PullHandlersOK, CursorInv, HandlersHoldLock,
         ProtocolInv, HandlersFitSession, Serves
<1> HIDE DEF p, type
<1>6. ASSUME NEW e \in Entities, NEW t \in new.queue, Exists(new.got[e])
      PROVE  TypeOf[e] <= t
  <2>1. t \in p.queue
    BY <1>0, <1>6
  <2>2. CASE e \in first
    BY <1>2, <1>4, <2>1, <2>2
  <2>3. CASE e \notin first
    BY <1>0, <1>3, <1>6, <2>1, <2>3
  <2> QED
    BY <2>2, <2>3
<1>7. CASE first # selected
  <2>1. PICK y \in selected : y \notin first
    BY <1>0, <1>7
  <2>2. first # {}
    BY <1>0, <1>1 DEF SyncCursorUsn
  <2>3. PICK x \in first : TRUE
    BY <2>2
  <2>4. y \in Entities /\ TypeOf[y] = type
    BY <2>1 DEF Selected
  <2>5. x \in Entities /\ TypeOf[x] = type /\ x # y
    BY <1>4, <2>1, <2>3
  <2>6. type = HeadOf(new.queue)
    BY <1>0, <1>7 DEF type
  <2> QED
    BY <1>6, <2>4, <2>5, <2>6 DEF CutFits
<1>8. CASE first = selected
  <2>1. new.cur = session.cursor /\ new.queue \subseteq session.queue
    BY <1>0, <1>5, <1>8
  <2>2. new.cur = session.cliAt \/ OneType(new.queue)
    BY <1>5, <2>1 DEF CutInv, PullsCutBetweenTypes, CutBetweenTypes, OneType
  <2> QED
    BY <1>6, <2>2 DEF CutFits
<1> QED
  BY <1>7, <1>8

(* A full response is in the middle of a type only if that is the last:    *)
(* all entities up to another type with several would not have filled it.  *)
LEMMA FullCutLast ==
    ASSUME OnlyLastTypeLarge, ProtocolInv, CutInv, FoundInv,
           NEW g \in Procs, Busy(pull[g]), pull[g].done, pull[g].queue # {},
           pull[g].cur # session.cliAt
    PROVE  OneType(pull[g].queue)
<1> DEFINE p == pull[g]
           head == HeadOf(p.queue)
           Got == {e \in Entities : Exists(p.got[e])}
<1>1. /\ p.queue \in SUBSET Types /\ p.size \in Nat
  BY DEF ProtocolInv, TypeOK, PullProc
<1>2. head \in p.queue /\ \A t \in p.queue : head <= t
  BY <1>1, HeadLowest
<1>3. SUFFICES ASSUME ~OneType(p.queue) PROVE FALSE
  OBVIOUS
<1>4. PICK e \in Entities, f \in Entities : e # f /\ TypeOf[e] = TypeOf[f] /\ TypeOf[e] = head
  BY <1>3 DEF CutInv, CutFits
<1>5. CASE \A x \in Entities : TypeOf[x] <= head
  <2>1. ASSUME NEW t \in p.queue PROVE t = head
    <3>1. PICK x \in Entities : x \in Selected(t, IF t = head THEN p.cur ELSE p.start, p.end)
      BY <2>1 DEF FoundInv, PullFinds, AllFound
    <3>2. TypeOf[x] = t
      BY <3>1 DEF Selected
    <3>3. t \in 1..7 /\ head \in 1..7
      BY <1>1, <1>2, <2>1 DEF Types
    <3> HIDE DEF head
    <3> QED
      BY <1>2, <1>5, <2>1, <3>2, <3>3
  <2> HIDE DEF head, p
  <2> QED
    BY <1>3, <2>1 DEF OneType
<1>6. CASE Cardinality({x \in Entities : TypeOf[x] <= head}) < MaxBatchSize
  <2> DEFINE UpTo == {x \in Entities : TypeOf[x] <= head}
  <2>1. Got \subseteq UpTo
    BY <1>2 DEF CutInv, CutFits
  <2>2. IsFiniteSet(UpTo)
    <3>1. UpTo \in SUBSET Entities
      OBVIOUS
    <3> QED
      BY <3>1, EntitiesAssumption, FS_Subset
  <2>3. p.size = Cardinality(Got) /\ p.size >= MaxBatchSize
    BY DEF CutInv, CountsRows
  <2>4. Cardinality(UpTo) < MaxBatchSize
    BY <1>6
  <2> HIDE DEF UpTo, Got, p
  <2>5. Cardinality(Got) <= Cardinality(UpTo) /\ Cardinality(Got) \in Nat
        /\ Cardinality(UpTo) \in Nat
    BY <2>1, <2>2, FS_Subset, FS_CardinalityType
  <2> QED
    BY <2>3, <2>4, <2>5, BoundsAssumption
<1> QED
  BY <1>4, <1>5, <1>6 DEF OnlyLastTypeLarge

LEMMA CutPullStep ==
    ASSUME OnlyLastTypeLarge, ProtocolInv, CursorInv, SyncedInv, FoundInv, CutInv,
           NEW g \in Procs, PullStep(g)
    PROVE  CutInv'
<1> DEFINE p == pull[g]
<1>1. /\ UNCHANGED rows /\ Busy(p)
      /\ pull \in [Procs -> PullProc] /\ session \in Session
  BY DEF PullStep, PullQuery, PullSave, PullFail, dbVars, ProtocolInv, TypeOK
<1>2. CASE PullQuery(g)
  <2>1. UNCHANGED session /\ p.queue # {} /\ SameSession
    BY <1>2 DEF PullQuery, SameSession
  <2>2. CASE pull' = [pull EXCEPT ![g] = IdlePull]
    BY <1>1, <2>1, <2>2, IdleFacts, CutFrame
  <2>3. ASSUME NEW first, NEW after, NEW new, Takes(p, first, after, new),
               pull' = [pull EXCEPT ![g] = new]
        PROVE  CutInv'
    <3>1. CountsRows(p)
      BY <1>1 DEF CutInv
    <3>2. CountsRows(new) /\ CutFits(new, session.cliAt)
      BY <1>1, <2>1, <2>3, <3>1, TakenCounted, TakenFits
    <3>3. \A h \in Procs : pull'[h] = pull[h] \/ pull'[h] = new
      BY <1>1, <2>3
    <3> QED
      BY <1>1, <2>1, <3>2, <3>3, CutFrame
  <2> QED
    BY <1>2, <2>2, <2>3, PullQueryTakes
<1>3. CASE PullSave(g) \/ PullFail(g)
  <2>1. \A h \in Procs : Busy(pull'[h]) => pull'[h] = pull[h]
    BY <1>1, <1>3, IdleFacts DEF PullSave, PullFail
  <2>2. \/ session' = session
        \/ p.queue = {} /\ session' = PullFinished(session)
        \/ p.queue # {} /\ p.done /\ session' = PullProgressed(session, p.queue, p.cur)
    BY <1>3 DEF PullSave, PullFail
  <2>3. session'.cliAt = session.cliAt
    BY <1>1, <2>2 DEF PullFinished, PullProgressed, Session
  <2>4. session' = session \/ (session'.state = "Pulling" => CutBetweenTypes(session'))
    <3>1. CASE p.queue = {}
      BY <1>1, <2>2, <3>1 DEF PullFinished, Session
    <3>2. CASE p.queue # {} /\ p.done /\ session' = PullProgressed(session, p.queue, p.cur)
      <4>1. session'.cursor = p.cur /\ session'.queue = p.queue
        BY <1>1, <3>2 DEF PullProgressed, Session
      <4> QED
        BY <1>1, <2>3, <3>2, <4>1, FullCutLast DEF CutBetweenTypes
    <3> QED
      BY <2>2, <3>1, <3>2
  <2> QED
    BY <1>1, <2>1, <2>3, <2>4, CutFrame DEF SameSession
<1> QED
  BY <1>2, <1>3 DEF PullStep

LEMMA CutPushCommit ==
    ASSUME ProtocolInv, CursorInv, NEW g \in Procs, PushCommit(g)
    PROVE  CutInv'
<1>1. session.state = "Pushing" /\ UNCHANGED <<session, pull>>
  BY DEF PushCommit, ProtocolInv, HandlersFitSession, Serves, CursorInv, HandlersHoldLock
<1> QED
  BY <1>1, NoPullOutsidePulling DEF CutInv, PullsCutBetweenTypes, CutBetweenTypes

LEMMA CutNext ==
    ASSUME OnlyLastTypeLarge, ~SlowHandlers, ProtocolInv, CursorInv, SyncedInv,
           FoundInv, CutInv, [Next]_vars
    PROVE  CutInv'
BY StepKinds, CutQuiet, CutHskStep, CutPullStep, CutPushCommit, CutPullClaim

LEMMA CutInit == Init => CutInv
BY IdleFacts DEF Init, NoSession, CutInv, PullsCutBetweenTypes, CutBetweenTypes

(* The three invariants together: what is left to pull tells which type is *)
(* the last of a queue, where a pull is cut tells that nothing is skipped. *)
LEMMA LargeLastTypeInv ==
    ASSUME ~SlowHandlers, ~StaleHandshake, OnlyLastTypeLarge
    PROVE  Spec => [](ProtocolInv /\ SyncedInv /\ FoundInv /\ CutInv)
<1>1. CutInv => PullsCutBetweenTypes
  BY DEF CutInv
<1>2. CutInv' => PullsCutBetweenTypes'
  BY DEF CutInv
<1>3. ProtocolInv /\ CursorInv /\ UnitsMatchRows /\ SyncedInv /\ FoundInv /\ CutInv
      /\ [Next]_vars => SyncedInv' /\ FoundInv' /\ CutInv'
  BY <1>1, <1>2, SyncedNext, FoundNext, CutNext
<1> QED
  BY <1>3, SyncedInit, FoundInit, CutInit, ProtocolCorrect, CursorCorrect,
     UnitsAgree, PTL DEF Spec

(* Which accounts are safe: those whose rows of every type but the last    *)
(* fit into one response together with the types before it, with room to   *)
(* spare.  Their pulls are never cut in the middle of a type that others   *)
(* follow, however many rows the last type has.                            *)
THEOREM CutsOnlyInLastType ==
    ASSUME ~SlowHandlers, ~StaleHandshake, OnlyLastTypeLarge
    PROVE  Spec => []PullsCutBetweenTypes
<1>1. CutInv => PullsCutBetweenTypes
  BY DEF CutInv
<1> QED
  BY <1>1, LargeLastTypeInv, PTL

(* The devices of such an account miss nothing. *)
THEOREM LargeLastTypeSynced ==
    ASSUME ~SlowHandlers, ~StaleHandshake, OnlyLastTypeLarge
    PROVE  Spec => []NothingMissedBelowCursor
BY CutsOnlyInLastType, NothingMissed, PTL

(* Nor does a pull of theirs ask for a type without rows. *)
THEOREM LargeLastTypePulled ==
    ASSUME ~SlowHandlers, ~StaleHandshake, OnlyLastTypeLarge
    PROVE  Spec => []PullsFindRows
BY CutsOnlyInLastType, PullsFind, PTL

(* The devices of an account whose rows fit into one response, with room   *)
(* to spare, miss nothing: no pull of theirs is ever cut.                  *)
THEOREM SmallCollectionsSynced ==
    ASSUME ~SlowHandlers, ~StaleHandshake, Cardinality(Entities) < MaxBatchSize
    PROVE  Spec => []NothingMissedBelowCursor
<1>1. ASSUME NEW S \in SUBSET Entities PROVE Cardinality(S) < MaxBatchSize
  <2>1. /\ Cardinality(S) <= Cardinality(Entities) /\ Cardinality(S) \in Nat
        /\ Cardinality(Entities) \in Nat
    BY <1>1, EntitiesAssumption, FS_Subset, FS_CardinalityType
  <2> QED
    BY <2>1, BoundsAssumption
<1>2. OnlyLastTypeLarge
  BY <1>1 DEF OnlyLastTypeLarge
<1> QED
  BY <1>2, LargeLastTypeSynced
=============================================================================
