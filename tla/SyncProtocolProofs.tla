------------------------- MODULE SyncProtocolProofs -------------------------
(***************************************************************************)
(* SyncServer under any timing, for every number of devices, goroutines    *)
(* and entities and every bound: type correctness, the agreement of        *)
(* sync_units with the entity tables, and the protocol between devices,    *)
(* handlers and the session.  ProtocolInv is inductive, so that a session  *)
(* has one batch in flight and commits each batch once, however often      *)
(* requests arrive and whenever the session expires.                       *)
(***************************************************************************)
EXTENDS SyncInv, FiniteSetTheorems, TLAPS

(* The null values have the types they stand in for. *)
LEMMA NullTypes ==
    /\ NoSession \in Session
    /\ NoRows \in [Entities -> Row]
    /\ NoUnits \in [Entities -> Unit]
    /\ NoRequest \in Request
    /\ IdleHsk \in HskProc
    /\ IdlePull \in PullProc
    /\ IdlePush \in PushProc
    /\ IdleFin \in FinProc
    /\ NewDevice \in Device
<1>1. NoSession \in Session
  BY DEF NoSession, Session, SessionStates, NoSid
<1>2. NoRows \in [Entities -> Row] /\ NoUnits \in [Entities -> Unit]
  BY DEF NoRows, NoUnits, NoRow, NoUnit, Row, Unit
<1>3. NoRequest \in Request
  BY DEF NoRequest, Request, RequestTypes, NoSid
<1>4. IdleHsk \in HskProc
  BY <1>3 DEF IdleHsk, HskProc, DeviceOrNone, SessionStates
<1>5. IdlePull \in PullProc
  BY <1>2, <1>3 DEF IdlePull, PullProc, DeviceOrNone
<1>6. IdlePush \in PushProc
  BY <1>2, <1>3 DEF IdlePush, PushProc, DeviceOrNone
<1>7. IdleFin \in FinProc
  BY <1>3 DEF IdleFin, FinProc, DeviceOrNone
<1>8. NewDevice \in Device
  BY <1>2, <1>3 DEF NewDevice, Device, Phases, NoSid
<1> QED
  BY <1>1, <1>2, <1>3, <1>4, <1>5, <1>6, <1>7, <1>8

(* Abandoning a session leaves a device, and laying rows over rows leaves   *)
(* rows.                                                                    *)
LEMMA AbandonedType ==
    ASSUME NEW dv \in Device
    PROVE  Abandoned(dv) \in Device
BY DEF Abandoned, Device, Phases, NoSid

LEMMA OverlayType ==
    /\ \A o, n \in [Entities -> Row] : Overlay(o, n) \in [Entities -> Row]
    /\ \A o, n \in [Entities -> Unit] : Overlay(o, n) \in [Entities -> Unit]
BY DEF Overlay

(* An answer changes at most the device it is for. *)
LEMMA AnswerType ==
    ASSUME dev \in [Devices -> Device],
           NEW d \in Devices, NEW r, NEW dv \in Device, Answer(d, r, dv)
    PROVE  dev' \in [Devices -> Device]
BY DEF Answer

LEMMA AnswerErrorType ==
    ASSUME dev \in [Devices -> Device],
           NEW d \in Devices, NEW r, AnswerError(d, r)
    PROVE  dev' \in [Devices -> Device]
BY AnswerType, AbandonedType DEF AnswerError

(* A busy handler serves a device. *)
LEMMA BusyDevice ==
    ASSUME NEW p, p.dev \in DeviceOrNone, Busy(p)
    PROVE  p.dev \in Devices
BY DEF Busy, DeviceOrNone

LEMMA ServerCursorType ==
    ASSUME TypeOK
    PROVE  ServerCursor \in Nat
BY DEF TypeOK, ServerCursor

LEMMA SessionRequestType ==
    ASSUME NEW type \in RequestTypes, NEW sid \in Nat, NEW seq \in Nat, NEW n \in Nat
    PROVE  SessionRequest(type, sid, seq, n) \in Request
BY DEF SessionRequest, Request

-----------------------------------------------------------------------------
LEMMA TypeInit == Init => TypeOK
<1> SUFFICES ASSUME Init PROVE TypeOK
  OBVIOUS
<1>1. rows \in [Entities -> Row]
  BY InitRowsAssumption DEF Init, Row
<1>2. units \in [Entities -> Unit]
  BY <1>1 DEF Init, UnitOf, Unit, Row
<1>3. cursor \in Nat /\ colId \in CollectionIds \union {NoCollectionId}
  BY BoundsAssumption DEF Init
<1> QED
  BY <1>1, <1>2, <1>3, NullTypes DEF Init, TypeOK

LEMMA TypeSend ==
    ASSUME TypeOK, NEW d \in Devices, NEW r \in Request, Send(d, r)
    PROVE  TypeOK'
<1>1. dev' \in [Devices -> Device]
  BY DEF TypeOK, Send, Device
<1> QED
  BY <1>1 DEF TypeOK, Send, dbVars, hdlVars

LEMMA TypeDevice ==
    ASSUME TypeOK, NEW d \in Devices, DeviceStep(d)
    PROVE  TypeOK'
<1> USE DEF TypeOK, Device
<1>1. CASE StartSync(d)
  <2>1. PICK local \in BOOLEAN :
           Send(d, [NoRequest EXCEPT !.type = "handshake",
                                     !.cli = dev[d].cursor, !.local = local])
    BY <1>1 DEF StartSync
  <2>2. [NoRequest EXCEPT !.type = "handshake",
                          !.cli = dev[d].cursor, !.local = local] \in Request
    BY NullTypes DEF Request, RequestTypes
  <2> QED
    BY <2>1, <2>2, TypeSend
<1>2. CASE SendPull(d)
  BY <1>2, TypeSend, SessionRequestType DEF SendPull, RequestTypes
<1>3. CASE SendPush(d)
  <2>1. PICK n \in 1..MaxChanges :
           Send(d, SessionRequest("push", dev[d].sid, dev[d].seq, n))
    BY <1>3 DEF SendPush
  <2> QED
    BY <2>1, TypeSend, SessionRequestType, BoundsAssumption DEF RequestTypes
<1>4. CASE SendFinishPush(d)
  BY <1>4, TypeSend, SessionRequestType DEF SendFinishPush, RequestTypes
<1>5. CASE SendFinishSync(d)
  BY <1>5, TypeSend, SessionRequestType DEF SendFinishSync, RequestTypes
<1>6. CASE GiveUp(d)
  <2>1. dev' \in [Devices -> Device]
    BY <1>6, AbandonedType DEF GiveUp
  <2> QED
    BY <1>6, <2>1 DEF GiveUp, dbVars, hdlVars
<1> QED
  BY <1>1, <1>2, <1>3, <1>4, <1>5, <1>6 DEF DeviceStep

-----------------------------------------------------------------------------
(* What the Lua scripts leave is a session. *)
LEMMA ScriptTypes ==
    ASSUME NEW s \in Session, NEW seq \in Nat, NEW n \in Nat,
           NEW queue \in SUBSET Types
    PROVE  /\ PullClaimed(s, seq) \in Session
           /\ PullProgressed(s, queue, n) \in Session
           /\ PullFinished(s) \in Session
           /\ PushClaimed(s, seq, n) \in Session
           /\ PushFinished(s) \in Session
<1> USE DEF Session, SessionStates
<1>1. PullClaimed(s, seq) \in Session
  BY DEF PullClaimed
<1>2. PullProgressed(s, queue, n) \in Session
  BY DEF PullProgressed
<1>3. PullFinished(s) \in Session
  BY DEF PullFinished
<1>4. PushClaimed(s, seq, n) \in Session
  <2>1. seq + 1 \in Nat /\ s.cursor + n \in Nat
    OBVIOUS
  <2>2. \A a, b \in Nat :
          [s EXCEPT !.state = "Pushing", !.seq = a, !.cursor = b] \in Session
    OBVIOUS
  <2> QED
    BY <2>1, <2>2 DEF PushClaimed
<1>5. PushFinished(s) \in Session
  BY DEF PushFinished
<1> QED
  BY <1>1, <1>2, <1>3, <1>4, <1>5

LEMMA TypeHskRead ==
    ASSUME TypeOK, NEW g \in Procs, NEW d \in Devices, HskRead(g, d)
    PROVE  TypeOK'
<1> DEFINE r == dev[d].req
<1>1. r \in Request /\ ServerCursor \in Nat
  BY ServerCursorType DEF TypeOK, Device
<1>2. ASSUME NEW status PROVE HskSession(d, r, status) \in HskProc
  BY <1>1, NullTypes DEF HskSession, HskProc, DeviceOrNone, SessionStates, Request
<1>3. hsk' \in [Procs -> HskProc]
  BY <1>2 DEF HskRead, TypeOK
<1>4. dev' \in [Devices -> Device]
  BY AnswerErrorType DEF HskRead, TypeOK
<1> QED
  BY <1>3, <1>4 DEF HskRead, TypeOK, dbVars

LEMMA TypeHskStep ==
    ASSUME TypeOK, NEW g \in Procs, HskStep(g)
    PROVE  TypeOK'
<1> DEFINE p == hsk[g]
<1>1. p \in HskProc
  BY DEF TypeOK
<1>2. Busy(p) /\ p.dev \in Devices
  BY <1>1, BusyDevice DEF HskProc, HskStep, HskQueue, HskCreate, HskFail
<1>3. CASE HskQueue(g)
  <2>1. PullEntityQueue(p.req.cli, p.srv) \in SUBSET Types
    BY EntitiesAssumption DEF PullEntityQueue
  <2>2. hsk' \in [Procs -> HskProc]
    BY <1>1, <1>3, <2>1 DEF HskQueue, HskProc, TypeOK
  <2> QED
    BY <1>3, <2>2 DEF HskQueue, TypeOK, dbVars
<1>4. CASE HskCreate(g)
  <2>1. hsk' \in [Procs -> HskProc]
    BY <1>4, NullTypes DEF HskCreate, TypeOK
  <2>2. Joined(dev[p.dev], nextSid, p.state) \in Device
    <3>1. dev[p.dev] \in Device /\ nextSid \in Nat
      BY <1>2 DEF TypeOK
    <3>2. ASSUME NEW dv \in Device, NEW phase \in Phases, NEW sid \in Nat
          PROVE  [dv EXCEPT !.phase = phase, !.waiting = FALSE,
                            !.sid = sid, !.seq = 1] \in Device
      BY DEF Device
    <3> QED
      BY <3>1, <3>2, AbandonedType DEF Joined, Phases
  <2>3. dev' \in [Devices -> Device]
    BY <1>2, <1>4, <2>2, AnswerType, AnswerErrorType DEF HskCreate, TypeOK
  <2>4. CreatedSession(nextSid, p.state, p.cursor, p.req.cli, p.srv, p.queue)
           \in Session
    BY <1>1 DEF CreatedSession, Session, HskProc, Request, TypeOK
  <2>5. session' \in Session /\ nextSid' \in Nat
    BY <1>4, <2>4 DEF HskCreate, TypeOK
  <2> QED
    BY <1>4, <2>1, <2>3, <2>5 DEF HskCreate, TypeOK, dbVars
<1>5. CASE HskFail(g)
  <2>1. hsk' \in [Procs -> HskProc]
    BY <1>5, NullTypes DEF HskFail, TypeOK
  <2>2. dev' \in [Devices -> Device]
    BY <1>2, <1>5, AnswerErrorType DEF HskFail, TypeOK
  <2> QED
    BY <1>5, <2>1, <2>2 DEF HskFail, TypeOK, dbVars
<1> QED
  BY <1>3, <1>4, <1>5 DEF HskStep

LEMMA TypePullClaim ==
    ASSUME TypeOK, NEW g \in Procs, NEW d \in Devices, PullClaim(g, d)
    PROVE  TypeOK'
<1> DEFINE r == dev[d].req
<1>1. r \in Request
  BY DEF TypeOK, Device
<1>2. ClaimPullBatchResult(d, r) \in PullProc
  BY <1>1, NullTypes DEF ClaimPullBatchResult, PullProc, DeviceOrNone, TypeOK, Session
<1>3. pull' \in [Procs -> PullProc]
  BY <1>2 DEF PullClaim, TypeOK
<1>4. session' \in Session
  <2>1. session \in Session /\ r.seq \in Nat
    BY <1>1 DEF TypeOK, Request
  <2>2. PullClaimed(session, r.seq) \in Session
    BY <2>1, ScriptTypes
  <2> QED
    BY <2>1, <2>2 DEF PullClaim
<1>5. dev' \in [Devices -> Device]
  BY AnswerErrorType DEF PullClaim, TypeOK
<1> QED
  BY <1>3, <1>4, <1>5 DEF PullClaim, TypeOK, dbVars

LEMMA TypePullQuery ==
    ASSUME TypeOK, NEW g \in Procs, PullQuery(g)
    PROVE  TypeOK'
<1> DEFINE p == pull[g]
           type == HeadOf(p.queue)
           selected == Selected(type, p.cur, p.end)
<1>1. p \in PullProc /\ Busy(p)
  BY DEF TypeOK, PullQuery
<1>2. p.dev \in Devices
  BY <1>1, BusyDevice DEF PullProc
<1>3. PICK first \in SUBSET selected : \E after \in SyncCursorUsn(first) :
        \/ /\ pull' = [pull EXCEPT ![g] =
                [p EXCEPT
                    !.got = [e \in Entities |-> IF e \in first
                                                THEN rows[e] ELSE p.got[e]],
                    !.size = p.size + Cardinality(first),
                    !.queue = IF first # selected THEN @ ELSE @ \ {type},
                    !.cur = IF first # selected THEN after ELSE p.start,
                    !.done = p.size + Cardinality(first) >= MaxBatchSize]]
           /\ UNCHANGED dev
        \/ /\ pull' = [pull EXCEPT ![g] = IdlePull]
           /\ AnswerError(p.dev, p.req)
  BY DEF PullQuery
<1>4. PICK after \in SyncCursorUsn(first) :
        \/ /\ pull' = [pull EXCEPT ![g] =
                [p EXCEPT
                    !.got = [e \in Entities |-> IF e \in first
                                                THEN rows[e] ELSE p.got[e]],
                    !.size = p.size + Cardinality(first),
                    !.queue = IF first # selected THEN @ ELSE @ \ {type},
                    !.cur = IF first # selected THEN after ELSE p.start,
                    !.done = p.size + Cardinality(first) >= MaxBatchSize]]
           /\ UNCHANGED dev
        \/ /\ pull' = [pull EXCEPT ![g] = IdlePull]
           /\ AnswerError(p.dev, p.req)
  BY <1>3
<1>5. first \subseteq Entities
  BY <1>3 DEF Selected
<1>6. Cardinality(first) \in Nat
  BY <1>5, EntitiesAssumption, FS_Subset, FS_CardinalityType
<1>7. after \in Nat
  BY <1>5 DEF SyncCursorUsn, TypeOK, Row
<1>8. [p EXCEPT
         !.got = [e \in Entities |-> IF e \in first THEN rows[e] ELSE p.got[e]],
         !.size = p.size + Cardinality(first),
         !.queue = IF first # selected THEN @ ELSE @ \ {type},
         !.cur = IF first # selected THEN after ELSE p.start,
         !.done = p.size + Cardinality(first) >= MaxBatchSize] \in PullProc
  <2>1. [e \in Entities |-> IF e \in first THEN rows[e] ELSE p.got[e]]
           \in [Entities -> Row]
    BY <1>1 DEF PullProc, TypeOK
  <2>2. p.size + Cardinality(first) \in Nat
    BY <1>1, <1>6 DEF PullProc
  <2>3. p.queue \ {type} \in SUBSET Types
    BY <1>1 DEF PullProc
  <2>4. p.start \in Nat
    BY <1>1 DEF PullProc
  <2>5. ASSUME NEW got \in [Entities -> Row], NEW size \in Nat, NEW cur \in Nat,
               NEW queue \in SUBSET Types, NEW done \in BOOLEAN
        PROVE  [p EXCEPT !.got = got, !.size = size, !.queue = queue,
                         !.cur = cur, !.done = done] \in PullProc
    BY <1>1 DEF PullProc
  <2>6. p.queue \in SUBSET Types
    BY <1>1 DEF PullProc
  <2>7. /\ (IF first # selected THEN p.queue ELSE p.queue \ {type}) \in SUBSET Types
        /\ (IF first # selected THEN after ELSE p.start) \in Nat
        /\ (p.size + Cardinality(first) >= MaxBatchSize) \in BOOLEAN
    BY <1>7, <2>3, <2>4, <2>6
  <2> HIDE DEF p, type, selected
  <2> QED
    BY <2>1, <2>2, <2>5, <2>7
<1>9. pull' \in [Procs -> PullProc]
  BY <1>4, <1>8, NullTypes DEF TypeOK
<1>10. dev' \in [Devices -> Device]
  BY <1>2, <1>4, AnswerErrorType DEF TypeOK
<1> QED
  BY <1>9, <1>10 DEF PullQuery, TypeOK, dbVars

LEMMA TypePullStep ==
    ASSUME TypeOK, NEW g \in Procs, PullStep(g)
    PROVE  TypeOK'
<1> DEFINE p == pull[g]
<1>1. p \in PullProc
  BY DEF TypeOK
<1>2. Busy(p) /\ p.dev \in Devices
  BY <1>1, BusyDevice DEF PullProc, PullStep, PullQuery, PullSave, PullFail
<1>3. CASE PullQuery(g)
  BY <1>3, TypePullQuery
<1>4. CASE PullSave(g)
  <2>1. Received(dev[p.dev], p) \in Device
    <3>1. Overlay(dev[p.dev].has, p.got) \in [Entities -> Row]
      BY <1>1, <1>2, OverlayType DEF PullProc, TypeOK, Device
    <3>2. /\ dev[p.dev] \in Device /\ dev[p.dev].seq + 1 \in Nat
          /\ p.end \in Nat
      BY <1>1, <1>2 DEF TypeOK, PullProc, Device
    <3>3. ASSUME NEW dv \in Device, NEW has \in [Entities -> Row],
                 NEW n \in Nat, NEW end \in Nat
          PROVE  /\ [dv EXCEPT !.has = has, !.waiting = FALSE] \in Device
                 /\ [dv EXCEPT !.phase = "either", !.seq = 1, !.cursor = end]
                      \in Device
                 /\ [dv EXCEPT !.seq = n] \in Device
      BY DEF Device, Phases
    <3> QED
      BY <3>1, <3>2, <3>3 DEF Received
  <2>2. dev' \in [Devices -> Device]
    BY <1>2, <1>4, <2>1, AnswerType, AnswerErrorType DEF PullSave, TypeOK
  <2>3. session' \in Session
    <3>1. /\ session \in Session
          /\ p.queue \in SUBSET Types /\ p.cur \in Nat
      BY <1>1 DEF TypeOK, PullProc
    <3>2. /\ PullFinished(session) \in Session
          /\ PullProgressed(session, p.queue, p.cur) \in Session
      BY <3>1, ScriptTypes
    <3> QED
      BY <1>4, <3>1, <3>2 DEF PullSave
  <2>4. pull' \in [Procs -> PullProc]
    BY <1>4, NullTypes DEF PullSave, TypeOK
  <2> QED
    BY <1>4, <2>2, <2>3, <2>4 DEF PullSave, TypeOK, dbVars
<1>5. CASE PullFail(g)
  <2>1. pull' \in [Procs -> PullProc]
    BY <1>5, NullTypes DEF PullFail, TypeOK
  <2>2. dev' \in [Devices -> Device]
    BY <1>2, <1>5, AnswerErrorType DEF PullFail, TypeOK
  <2> QED
    BY <1>5, <2>1, <2>2 DEF PullFail, TypeOK, dbVars
<1> QED
  BY <1>3, <1>4, <1>5 DEF PullStep

-----------------------------------------------------------------------------
LEMMA TypePushClaim ==
    ASSUME TypeOK, NEW g \in Procs, NEW d \in Devices, PushClaim(g, d)
    PROVE  TypeOK'
<1> DEFINE r == dev[d].req
<1>1. r \in Request /\ r.seq \in Nat /\ r.n \in Nat
  BY DEF TypeOK, Device, Request
<1>2. session \in Session /\ session.cursor \in Nat
  BY DEF TypeOK, Session
<1>3. ClaimPushBatchResult(d, r) \in PushProc
  BY <1>1, <1>2, NullTypes DEF ClaimPushBatchResult, PushProc, DeviceOrNone
<1>4. push' \in [Procs -> PushProc]
  BY <1>3 DEF PushClaim, TypeOK
<1>5. session' \in Session
  <2>1. PushClaimed(session, r.seq, r.n) \in Session
    BY <1>1, <1>2, ScriptTypes
  <2> QED
    BY <1>2, <2>1 DEF PushClaim
<1>6. dev' \in [Devices -> Device]
  BY AnswerErrorType DEF PushClaim, TypeOK
<1> QED
  BY <1>4, <1>5, <1>6 DEF PushClaim, TypeOK, dbVars

LEMMA TypePushApply ==
    ASSUME TypeOK, NEW g \in Procs, NEW e \in Entities,
           PushUpsert(g, e) \/ PushDelete(g, e)
    PROVE  TypeOK'
<1> DEFINE p == push[g]
<1>1. p \in PushProc /\ p.i + 1 \in Nat /\ AssignedUsn(p) \in Nat
  BY DEF TypeOK, PushProc, AssignedUsn
<1>2. ASSUME NEW row \in Row, NEW unit \in Unit, NEW n \in Nat
      PROVE  [push EXCEPT ![g].txRows[e] = row, ![g].txUnits[e] = unit,
                          ![g].i = n] \in [Procs -> PushProc]
  <2>1. [p EXCEPT !.txRows = [@ EXCEPT ![e] = row],
                  !.txUnits = [@ EXCEPT ![e] = unit], !.i = n] \in PushProc
    BY <1>1 DEF PushProc
  <2> QED
    BY <2>1 DEF TypeOK, PushProc
<1>3. ASSUME NEW n \in Nat
      PROVE  [push EXCEPT ![g].i = n] \in [Procs -> PushProc]
  BY DEF TypeOK, PushProc
<1>4. \A del \in BOOLEAN : [usn |-> AssignedUsn(p), del |-> del] \in Row
  BY <1>1 DEF Row
<1>5. \A op \in {"upsert", "delete"} : [usn |-> AssignedUsn(p), op |-> op] \in Unit
  BY <1>1 DEF Unit
<1>6. push' \in [Procs -> PushProc]
  <2> HIDE DEF p
  <2>1. ASSUME NEW del \in BOOLEAN, NEW op \in {"upsert", "delete"}
        PROVE  [push EXCEPT ![g].txRows[e] = [usn |-> AssignedUsn(p), del |-> del],
                            ![g].txUnits[e] = [usn |-> AssignedUsn(p), op |-> op],
                            ![g].i = p.i + 1] \in [Procs -> PushProc]
    <3>1. /\ [usn |-> AssignedUsn(p), del |-> del] \in Row
          /\ [usn |-> AssignedUsn(p), op |-> op] \in Unit
      BY <1>4, <1>5
    <3> QED
      BY <1>1, <1>2, <3>1
  <2>2. [push EXCEPT ![g].i = p.i + 1] \in [Procs -> PushProc]
    BY <1>1, <1>3
  <2> USE DEF p
  <2>3. CASE PushUpsert(g, e)
    BY <2>1, <2>3 DEF PushUpsert
  <2>4. CASE PushDelete(g, e)
    BY <2>1, <2>2, <2>4 DEF PushDelete
  <2> QED
    BY <2>3, <2>4
<1> QED
  BY <1>6 DEF PushUpsert, PushDelete, TypeOK, dbVars

LEMMA TypePushCommit ==
    ASSUME TypeOK, NEW g \in Procs, PushCommit(g)
    PROVE  TypeOK'
<1> DEFINE p == push[g]
<1>1. p \in PushProc /\ Busy(p)
  BY DEF TypeOK, PushCommit
<1>2. p.dev \in Devices
  BY <1>1, BusyDevice DEF PushProc
<1>3. /\ p.txRows \in [Entities -> Row] /\ p.txUnits \in [Entities -> Unit]
      /\ p.start \in Nat /\ p.start + p.req.n \in Nat
      /\ p.req.sid \in Nat /\ p.req.seq \in Nat
  BY <1>1 DEF PushProc, Request
<1>4. rows' \in [Entities -> Row] /\ units' \in [Entities -> Unit] /\ cursor' \in Nat
  BY <1>3, OverlayType DEF PushCommit, TypeOK
<1>5. colId' \in CollectionIds \union {NoCollectionId}
  BY <1>2, CollectionsAssumption DEF PushCommit, TypeOK
<1>6. landed' \subseteq Batch
  BY <1>3 DEF PushCommit, TypeOK, Batch
<1>7. Assigned(dev[p.dev], p) \in Device
  <2>1. /\ dev[p.dev] \in Device /\ dev[p.dev].seq + 1 \in Nat
        /\ dev[p.dev].has \in [Entities -> Row]
    BY <1>2 DEF TypeOK, Device
  <2>2. Overlay(dev[p.dev].has, p.txRows) \in [Entities -> Row]
    BY <1>3, <2>1, OverlayType
  <2>3. ASSUME NEW dv \in Device, NEW has \in [Entities -> Row],
               NEW n \in Nat, NEW c \in Nat
        PROVE  [dv EXCEPT !.phase = "push", !.waiting = FALSE, !.seq = n,
                          !.cursor = c, !.has = has] \in Device
    BY DEF Device, Phases
  <2> QED
    BY <1>3, <2>1, <2>2, <2>3 DEF Assigned
<1>8. dev' \in [Devices -> Device]
  BY <1>2, <1>7, AnswerType DEF PushCommit, TypeOK
<1>9. push' \in [Procs -> PushProc]
  BY NullTypes DEF PushCommit, TypeOK
<1> QED
  BY <1>4, <1>5, <1>6, <1>8, <1>9 DEF PushCommit, TypeOK

LEMMA TypePushStep ==
    ASSUME TypeOK, NEW g \in Procs, PushStep(g)
    PROVE  TypeOK'
<1>1. CASE \E e \in Entities : PushUpsert(g, e) \/ PushDelete(g, e)
  BY <1>1, TypePushApply
<1>2. CASE PushCommit(g)
  BY <1>2, TypePushCommit
<1>3. CASE PushFail(g)
  <2>1. push[g].dev \in Devices
    BY <1>3, BusyDevice DEF PushFail, TypeOK, PushProc
  <2>2. dev' \in [Devices -> Device]
    BY <1>3, <2>1, AnswerErrorType DEF PushFail, TypeOK
  <2>3. push' \in [Procs -> PushProc]
    BY <1>3, NullTypes DEF PushFail, TypeOK
  <2> QED
    BY <1>3, <2>2, <2>3 DEF PushFail, TypeOK, dbVars
<1> QED
  BY <1>1, <1>2, <1>3 DEF PushStep

LEMMA TypeFinishPush ==
    ASSUME TypeOK, NEW d \in Devices, FinishPush(d)
    PROVE  TypeOK'
<1>1. session' \in Session
  <2>1. PushFinished(session) \in Session
    BY DEF TypeOK, PushFinished, Session, SessionStates
  <2> QED
    BY <2>1 DEF FinishPush, TypeOK
<1>2. dev' \in [Devices -> Device]
  <2>1. [dev[d] EXCEPT !.phase = "finish", !.waiting = FALSE] \in Device
    BY DEF TypeOK, Device, Phases
  <2> QED
    BY <2>1, AnswerType, AnswerErrorType DEF FinishPush, TypeOK
<1> QED
  BY <1>1, <1>2 DEF FinishPush, TypeOK, dbVars, hdlVars

-----------------------------------------------------------------------------
LEMMA TypeFinCheck ==
    ASSUME TypeOK, NEW g \in Procs, NEW d \in Devices, FinCheck(g, d)
    PROVE  TypeOK'
<1>1. dev[d].req \in Request
  BY DEF TypeOK, Device
<1>2. [IdleFin EXCEPT !.dev = d, !.req = dev[d].req] \in FinProc
  BY <1>1, NullTypes DEF FinProc, DeviceOrNone
<1>3. fin' \in [Procs -> FinProc]
  BY <1>2 DEF FinCheck, TypeOK
<1>4. dev' \in [Devices -> Device]
  BY AnswerErrorType DEF FinCheck, TypeOK
<1> QED
  BY <1>3, <1>4 DEF FinCheck, TypeOK, dbVars

LEMMA TypeFinStep ==
    ASSUME TypeOK, NEW g \in Procs, FinStep(g)
    PROVE  TypeOK'
<1>1. fin[g] \in FinProc /\ fin[g].req.sid \in Nat
  BY DEF TypeOK, FinProc, Request
<1>2. fin[g].dev \in Devices
  BY <1>1, BusyDevice DEF FinProc, FinStep, FinUpdateTime, FinRelease, FinFail
<1>3. CASE FinUpdateTime(g)
  <2>1. fin' \in [Procs -> FinProc]
    BY <1>1, <1>3 DEF FinUpdateTime, TypeOK, FinProc
  <2> QED
    BY <1>1, <1>3, <2>1 DEF FinUpdateTime, TypeOK
<1>4. CASE FinRelease(g)
  <2>1. dev[fin[g].dev] \in Device
    BY <1>2 DEF TypeOK
  <2>2. dev' \in [Devices -> Device]
    BY <1>2, <1>4, <2>1, AbandonedType, AnswerType, AnswerErrorType
    DEF FinRelease, TypeOK
  <2>3. session' \in Session /\ fin' \in [Procs -> FinProc]
    BY <1>4, NullTypes DEF FinRelease, TypeOK
  <2> QED
    BY <1>4, <2>2, <2>3 DEF FinRelease, TypeOK, dbVars
<1>5. CASE FinFail(g)
  <2>1. dev' \in [Devices -> Device]
    BY <1>2, <1>5, AnswerErrorType DEF FinFail, TypeOK
  <2>2. fin' \in [Procs -> FinProc]
    BY <1>5, NullTypes DEF FinFail, TypeOK
  <2> QED
    BY <1>5, <2>1, <2>2 DEF FinFail, TypeOK, dbVars
<1> QED
  BY <1>3, <1>4, <1>5 DEF FinStep

-----------------------------------------------------------------------------
(* Every step of the service and of the devices preserves the types. *)
LEMMA TypeNext == TypeOK /\ [Next]_vars => TypeOK'
<1> SUFFICES ASSUME TypeOK, [Next]_vars PROVE TypeOK'
  OBVIOUS
<1>1. ASSUME NEW d \in Devices, DeviceStep(d) PROVE TypeOK'
  BY <1>1, TypeDevice
<1>2. ASSUME NEW g \in Procs, NEW d \in Devices, RequestStep(g, d) PROVE TypeOK'
  BY <1>2, TypeHskRead, TypePullClaim, TypePushClaim, TypeFinishPush, TypeFinCheck
  DEF RequestStep
<1>3. ASSUME NEW g \in Procs, HskStep(g) \/ PullStep(g) \/ PushStep(g) \/ FinStep(g)
      PROVE  TypeOK'
  BY <1>3, TypeHskStep, TypePullStep, TypePushStep, TypeFinStep
<1>4. CASE Expire
  BY <1>4, NullTypes DEF Expire, TypeOK, dbVars, hdlVars
<1>5. CASE UNCHANGED vars
  BY <1>5 DEF vars, TypeOK, dbVars, hdlVars
<1> QED
  BY <1>1, <1>2, <1>3, <1>4, <1>5 DEF Next

(* Type correctness: whatever the timing, the faults and the number of      *)
(* devices, goroutines and entities, every variable keeps its type; in      *)
(* particular no handler serves a device that does not exist, a session's   *)
(* queue holds entity types only and every committed batch has a range.     *)
THEOREM TypeCorrect == Spec => []TypeOK
<1>1. Init => TypeOK
  BY TypeInit
<1>2. TypeOK /\ [Next]_vars => TypeOK'
  BY TypeNext
<1> QED
  BY <1>1, <1>2, PTL DEF Spec

-----------------------------------------------------------------------------
(***************************************************************************)
(* sync_units and the entity tables agree: the part of the correctness of  *)
(* the service that rests on the transaction alone.                        *)
(***************************************************************************)
LEMMA UnitsInit == Init => UnitsInv
<1> SUFFICES ASSUME Init PROVE UnitsInv
  OBVIOUS
<1>1. rows \in [Entities -> Row]
  BY InitRowsAssumption DEF Init, Row
<1>2. UnitsMatchRows
  BY <1>1 DEF Init, UnitsMatchRows, UnitOf, Exists, Row
<1>3. TxUnitsMatch
  BY DEF Init, TxUnitsMatch, IdlePush, NoRows, NoUnits, NoRow, NoUnit, Exists
<1> QED
  BY <1>2, <1>3 DEF UnitsInv

(* A step that touches neither the tables nor the transactions. *)
LEMMA UnitsUnchanged ==
    ASSUME UnitsInv, UNCHANGED <<rows, units, push>>
    PROVE  UnitsInv'
BY DEF UnitsInv, UnitsMatchRows, TxUnitsMatch

(* A step that starts or ends a transaction without committing it. *)
LEMMA UnitsNewTx ==
    ASSUME TypeOK, UnitsInv, NEW g \in Procs, NEW p,
           p.txRows = NoRows, p.txUnits = NoUnits,
           push' = [push EXCEPT ![g] = p], UNCHANGED <<rows, units>>
    PROVE  UnitsInv'
<1>1. UnitsMatchRows'
  BY DEF UnitsInv, UnitsMatchRows
<1>2. ASSUME NEW h \in Procs, NEW e \in Entities
      PROVE  LET row == push'[h].txRows[e]
                 unit == push'[h].txUnits[e]
             IN  /\ unit.usn = row.usn
                 /\ Exists(row) => unit.op = IF row.del THEN "delete" ELSE "upsert"
  <2>1. CASE h = g
    BY <2>1 DEF TypeOK, NoRows, NoUnits, NoRow, NoUnit, Exists
  <2>2. CASE h # g
    BY <2>2 DEF TypeOK, UnitsInv, TxUnitsMatch
  <2> QED
    BY <2>1, <2>2
<1> QED
  BY <1>1, <1>2 DEF UnitsInv, TxUnitsMatch

(* A change writes an entity's row and its unit together, or neither. *)
LEMMA UnitsPushApply ==
    ASSUME TypeOK, UnitsInv, NEW g \in Procs, NEW e \in Entities,
           PushUpsert(g, e) \/ PushDelete(g, e)
    PROVE  UnitsInv'
<1>1. UnitsMatchRows'
  BY DEF UnitsInv, UnitsMatchRows, PushUpsert, PushDelete, dbVars
<1>2. ASSUME NEW h \in Procs, NEW f \in Entities
      PROVE  LET row == push'[h].txRows[f]
                 unit == push'[h].txUnits[f]
             IN  /\ unit.usn = row.usn
                 /\ Exists(row) => unit.op = IF row.del THEN "delete" ELSE "upsert"
  <2>1. /\ push[h] \in PushProc /\ push[g] \in PushProc
        /\ LET row == push[h].txRows[f]
               unit == push[h].txUnits[f]
           IN  /\ unit.usn = row.usn
               /\ Exists(row) => unit.op = IF row.del THEN "delete" ELSE "upsert"
    BY DEF TypeOK, UnitsInv, TxUnitsMatch
  <2>2. \/ push'[h].txRows[f] = push[h].txRows[f] /\ push'[h].txUnits[f] = push[h].txUnits[f]
        \/ /\ push'[h].txRows[f] = [usn |-> AssignedUsn(push[g]), del |-> FALSE]
           /\ push'[h].txUnits[f] = [usn |-> AssignedUsn(push[g]), op |-> "upsert"]
        \/ /\ push'[h].txRows[f] = [usn |-> AssignedUsn(push[g]), del |-> TRUE]
           /\ push'[h].txUnits[f] = [usn |-> AssignedUsn(push[g]), op |-> "delete"]
    <3>1. CASE PushUpsert(g, e)
      BY <2>1, <3>1 DEF PushUpsert, TypeOK, PushProc
    <3>2. CASE PushDelete(g, e)
      <4>1. CASE push' = [push EXCEPT ![g].i = push[g].i + 1]
        BY <2>1, <4>1 DEF TypeOK, PushProc
      <4>2. CASE push' = [push EXCEPT
                  ![g].txRows[e] = [usn |-> AssignedUsn(push[g]), del |-> TRUE],
                  ![g].txUnits[e] = [usn |-> AssignedUsn(push[g]), op |-> "delete"],
                  ![g].i = push[g].i + 1]
        BY <2>1, <4>2 DEF TypeOK, PushProc
      <4> QED
        BY <3>2, <4>1, <4>2 DEF PushDelete
    <3> QED
      BY <3>1, <3>2
  <2> QED
    BY <2>1, <2>2 DEF Exists
<1> QED
  BY <1>1, <1>2 DEF UnitsInv, TxUnitsMatch

(* A commit lays the transaction's rows and units over the tables. *)
LEMMA UnitsPushCommit ==
    ASSUME TypeOK, UnitsInv, NEW g \in Procs, PushCommit(g)
    PROVE  UnitsInv'
<1> DEFINE p == push[g]
<1>1. p \in PushProc /\ rows \in [Entities -> Row] /\ units \in [Entities -> Unit]
  BY DEF TypeOK
<1>2. ASSUME NEW e \in Entities
      PROVE  /\ units'[e].usn = rows'[e].usn
             /\ Exists(rows'[e]) =>
                   units'[e].op = IF rows'[e].del THEN "delete" ELSE "upsert"
  <2>1. /\ rows'[e] = IF p.txRows[e].usn # 0 THEN p.txRows[e] ELSE rows[e]
        /\ units'[e] = IF p.txUnits[e].usn # 0 THEN p.txUnits[e] ELSE units[e]
    BY DEF PushCommit, Overlay
  <2>2. /\ p.txUnits[e].usn = p.txRows[e].usn
        /\ Exists(p.txRows[e]) =>
              p.txUnits[e].op = IF p.txRows[e].del THEN "delete" ELSE "upsert"
    BY DEF UnitsInv, TxUnitsMatch
  <2>3. /\ units[e].usn = rows[e].usn
        /\ Exists(rows[e]) =>
              units[e].op = IF rows[e].del THEN "delete" ELSE "upsert"
    BY DEF UnitsInv, UnitsMatchRows
  <2> QED
    BY <2>1, <2>2, <2>3 DEF Exists
<1>3. TxUnitsMatch'
  <2>1. ASSUME NEW h \in Procs, NEW e \in Entities
        PROVE  LET row == push'[h].txRows[e]
                   unit == push'[h].txUnits[e]
               IN  /\ unit.usn = row.usn
                   /\ Exists(row) => unit.op = IF row.del THEN "delete" ELSE "upsert"
    <3>1. CASE h = g
      BY <3>1 DEF PushCommit, TypeOK, IdlePush, NoRows, NoUnits, NoRow, NoUnit, Exists
    <3>2. CASE h # g
      BY <3>2 DEF PushCommit, TypeOK, UnitsInv, TxUnitsMatch
    <3> QED
      BY <3>1, <3>2
  <2> QED
    BY <2>1 DEF TxUnitsMatch
<1> QED
  BY <1>2, <1>3 DEF UnitsInv, UnitsMatchRows

LEMMA UnitsNext == TypeOK /\ UnitsInv /\ [Next]_vars => UnitsInv'
<1> SUFFICES ASSUME TypeOK, UnitsInv, [Next]_vars PROVE UnitsInv'
  OBVIOUS
<1> USE DEF dbVars, hdlVars
<1>1. ASSUME NEW d \in Devices, DeviceStep(d) PROVE UnitsInv'
  BY <1>1, UnitsUnchanged
  DEF DeviceStep, StartSync, SendPull, SendPush, SendFinishPush, SendFinishSync,
      GiveUp, Send
<1>2. ASSUME NEW g \in Procs, NEW d \in Devices, RequestStep(g, d) PROVE UnitsInv'
  <2>1. CASE HskRead(g, d) \/ PullClaim(g, d) \/ FinishPush(d) \/ FinCheck(g, d)
    BY <2>1, UnitsUnchanged DEF HskRead, PullClaim, FinishPush, FinCheck
  <2>2. CASE PushClaim(g, d)
    <3> DEFINE p == ClaimPushBatchResult(d, dev[d].req)
    <3>1. UNCHANGED <<rows, units>> /\ (push' = push \/ push' = [push EXCEPT ![g] = p])
      BY <2>2 DEF PushClaim
    <3>2. p.txRows = NoRows /\ p.txUnits = NoUnits
      BY DEF ClaimPushBatchResult, IdlePush
    <3> HIDE DEF p
    <3> QED
      BY <3>1, <3>2, UnitsUnchanged, UnitsNewTx
  <2> QED
    BY <1>2, <2>1, <2>2 DEF RequestStep
<1>3. ASSUME NEW g \in Procs, HskStep(g) \/ PullStep(g) \/ FinStep(g) PROVE UnitsInv'
  BY <1>3, UnitsUnchanged
  DEF HskStep, HskQueue, HskCreate, HskFail, PullStep, PullQuery, PullSave, PullFail,
      FinStep, FinUpdateTime, FinRelease, FinFail
<1>4. ASSUME NEW g \in Procs, PushStep(g) PROVE UnitsInv'
  <2>1. CASE PushFail(g)
    BY <2>1, UnitsNewTx DEF PushFail, IdlePush
  <2> QED
    BY <1>4, <2>1, UnitsPushApply, UnitsPushCommit DEF PushStep
<1>5. CASE Expire \/ UNCHANGED vars
  BY <1>5, UnitsUnchanged DEF Expire, vars
<1> QED
  BY <1>1, <1>2, <1>3, <1>4, <1>5 DEF Next

(* However handlers, expiries, repeats and failures interleave, a committed *)
(* row always has the sync unit a handshake looks it up by, with its USN    *)
(* and its deletion: ApplyPushChanges writes both or rolls both back.       *)
THEOREM UnitsAgree == Spec => []UnitsMatchRows
<1>1. Init => UnitsInv
  BY UnitsInit
<1>2. TypeOK /\ UnitsInv /\ [Next]_vars => UnitsInv'
  BY UnitsNext
<1>3. UnitsInv => UnitsMatchRows
  BY DEF UnitsInv
<1> QED
  BY <1>1, <1>2, <1>3, TypeCorrect, PTL DEF Spec

-----------------------------------------------------------------------------
(***************************************************************************)
(* The protocol.                                                           *)
(***************************************************************************)
LEMMA ProtocolInit == Init => ProtocolInv
<1> SUFFICES ASSUME Init PROVE ProtocolInv
  OBVIOUS
<1> USE DEF Init, NoSession, NewDevice, NoRequest, IdleHsk, IdlePull, IdlePush,
            IdleFin, NoSid, Busy, Serves
<1>1. TypeOK
  BY TypeInit
<1>2. SidsHandedOut
  BY DEF SidsHandedOut
<1>3. DevicesOK
  BY DEF DevicesOK, DeviceOK
<1>4. SidsPrivate
  BY DEF SidsPrivate, KnownTo
<1>5. RequestsInService
  BY DEF RequestsInService, InService
<1>6. HandlersFitSession /\ SessionFollowsDevice /\ OneBatchInFlight
  BY DEF HandlersFitSession, SessionFollowsDevice, OneBatchInFlight
<1>7. LandedInSession /\ BatchesOfASessionDisjoint
  BY DEF LandedInSession, BatchesOfASessionDisjoint
<1> QED
  BY <1>1, <1>2, <1>3, <1>4, <1>5, <1>6, <1>7 DEF ProtocolInv

-----------------------------------------------------------------------------
(***************************************************************************)
(* Steps that leave the session alone and in which devices at most give up *)
(* and handlers at most retire, a batch handler only when no device is     *)
(* left in its session.                                                    *)
(***************************************************************************)
SameTask(p, q) == p.dev = q.dev /\ p.req = q.req

Retired(p, q) ==
    /\ ~Busy(p) /\ p.req.sid = NoSid
    /\ Busy(q) => \A d \in Devices : dev'[d].sid # q.req.sid

DevicesKeepOrGiveUp ==
    \A d \in Devices : dev'[d] = dev[d] \/ dev'[d] = Abandoned(dev[d])

HandlersKeepOrRetire ==
    \A g \in Procs :
        /\ SameTask(pull'[g], pull[g]) \/ Retired(pull'[g], pull[g])
        /\ \/ SameTask(push'[g], push[g]) /\ push'[g].start = push[g].start
           \/ Retired(push'[g], push[g])
        /\ \/ SameTask(fin'[g], fin[g])
           \/ ~Busy(fin'[g]) /\ fin'[g].req.sid = NoSid
        /\ Busy(hsk'[g]) => HandshakeOK(hsk'[g])

LEMMA AbandonedFields ==
    ASSUME NEW dv \in Device
    PROVE  LET a == Abandoned(dv) IN
           /\ a.phase = "idle" /\ a.waiting = FALSE /\ a.sid = NoSid
           /\ a.req = dv.req
BY DEF Abandoned, Device

(* The parts of ProtocolInv that do not mention the session. *)
LEMMA FrameWithoutSession ==
    ASSUME ProtocolInv, TypeOK', UNCHANGED <<nextSid, landed>>,
           session'.sid \in {session.sid, NoSid},
           DevicesKeepOrGiveUp, HandlersKeepOrRetire
    PROVE  /\ SidsHandedOut' /\ DevicesOK' /\ SidsPrivate'
           /\ RequestsInService' /\ OneBatchInFlight'
<1> USE DEF NoSid
<1>1. \A d \in Devices : /\ dev[d] \in Device /\ dev'[d] \in Device
                         /\ dev'[d].req = dev[d].req
                         /\ dev'[d].sid # NoSid => dev'[d] = dev[d]
                         /\ dev'[d].sid = NoSid \/ dev'[d].sid = dev[d].sid
  <2>1. ASSUME NEW d \in Devices PROVE dev[d] \in Device /\ dev'[d] \in Device
    BY DEF ProtocolInv, TypeOK
  <2>2. ASSUME NEW d \in Devices
        PROVE  dev'[d] = dev[d] \/ (dev'[d].req = dev[d].req /\ dev'[d].sid = NoSid)
    <3>1. CASE dev'[d] = Abandoned(dev[d])
      BY <2>1, <3>1 DEF Abandoned, Device
    <3> QED
      BY <3>1 DEF DevicesKeepOrGiveUp
  <2> QED
    BY <2>1, <2>2
<1>2. nextSid \in Nat /\ NoSid < nextSid
  BY DEF ProtocolInv, TypeOK, SidsHandedOut, Session
<1>3. SidsHandedOut'
  BY <1>1, <1>2 DEF ProtocolInv, SidsHandedOut, HandlersKeepOrRetire, SameTask, Retired
<1>4. DevicesOK'
  <2>1. ASSUME NEW d \in Devices PROVE DeviceOK(dev'[d])
    <3>1. CASE dev'[d] = dev[d]
      BY <3>1 DEF ProtocolInv, DevicesOK
    <3>2. CASE dev'[d] = Abandoned(dev[d])
      <4>1. /\ dev'[d].phase = "idle" /\ ~dev'[d].waiting /\ dev'[d].sid = NoSid
            /\ dev'[d].req = dev[d].req
        <5>1. dev[d] \in Device
          BY <1>1
        <5> QED
          BY <3>2, <5>1 DEF Abandoned, Device
      <4>2. DeviceOK(dev[d])
        BY DEF ProtocolInv, DevicesOK
      <4> QED
        BY <4>1, <4>2 DEF DeviceOK
    <3> QED
      BY <3>1, <3>2 DEF DevicesKeepOrGiveUp
  <2> QED
    BY <2>1 DEF DevicesOK
<1>5. \A d \in Devices, sid \in Nat :
         sid # NoSid /\ KnownTo(dev'[d], sid) => KnownTo(dev[d], sid)
  BY <1>1 DEF KnownTo
<1>6. SidsPrivate'
  BY <1>1, <1>5 DEF ProtocolInv, SidsPrivate, KnownTo, Device, Request
<1>7. ASSUME NEW p, NEW q, NEW type, InService(p, type, dev), Busy(q) => SameTask(q, p)
      PROVE  InService(q, type, dev')
  <2> SUFFICES ASSUME Busy(q) PROVE InService(q, type, dev')
    BY DEF InService
  <2>1. Busy(p) /\ p.req = q.req /\ p.dev = q.dev
    BY <1>7 DEF Busy, SameTask
  <2>2. ASSUME NEW d \in Devices, dev'[d].sid = q.req.sid PROVE dev'[d].waiting
    BY <1>1, <1>7, <2>1, <2>2 DEF InService
  <2> QED
    BY <1>1, <1>7, <2>1, <2>2 DEF InService, KnownTo
<1>8. RequestsInService'
  <2>1. ASSUME NEW g \in Procs
        PROVE  /\ Busy(pull'[g]) => SameTask(pull'[g], pull[g])
               /\ Busy(push'[g]) => SameTask(push'[g], push[g])
               /\ Busy(fin'[g]) => SameTask(fin'[g], fin[g])
               /\ Busy(hsk'[g]) => HandshakeOK(hsk'[g])
    BY DEF HandlersKeepOrRetire, Retired
  <2> QED
    BY <1>7, <2>1 DEF ProtocolInv, RequestsInService
<1>9. OneBatchInFlight'
  BY DEF ProtocolInv, OneBatchInFlight, HandlersKeepOrRetire, SameTask, Retired, Busy
<1> QED
  BY <1>3, <1>4, <1>6, <1>8, <1>9

LEMMA ProtocolFrame ==
    ASSUME ProtocolInv, TypeOK', UNCHANGED <<session, nextSid, landed>>,
           DevicesKeepOrGiveUp, HandlersKeepOrRetire
    PROVE  ProtocolInv'
<1>1. /\ SidsHandedOut' /\ DevicesOK' /\ SidsPrivate'
      /\ RequestsInService' /\ OneBatchInFlight'
  BY FrameWithoutSession
<1>2. HandlersFitSession'
  BY DEF ProtocolInv, HandlersFitSession, RequestsInService, InService,
         HandlersKeepOrRetire, SameTask, Retired, Serves, Busy
<1>3. SessionFollowsDevice'
  <2> SUFFICES ASSUME NEW d \in Devices,
                      dev'[d].sid # NoSid, dev'[d].sid = session.sid, ~Claimed(d)'
               PROVE  /\ session.state = StateOf(dev'[d].phase)
                      /\ session.seq = dev'[d].seq
                      /\ ~dev'[d].waiting => Outdated(dev'[d])
    BY DEF SessionFollowsDevice
  <2>1. dev'[d] = dev[d]
    <3>1. dev[d] \in Device
      BY DEF ProtocolInv, TypeOK
    <3> QED
      BY <3>1, AbandonedFields DEF DevicesKeepOrGiveUp
  <2>2. ~Claimed(d)
    BY <2>1 DEF Claimed, Serves, Busy, HandlersKeepOrRetire, SameTask, Retired
  <2> QED
    BY <2>1, <2>2 DEF ProtocolInv, SessionFollowsDevice
<1>4. LandedInSession'
  BY DEF ProtocolInv, LandedInSession, HandlersKeepOrRetire, SameTask, Retired, Serves, Busy
<1>5. BatchesOfASessionDisjoint'
  BY DEF ProtocolInv, BatchesOfASessionDisjoint
<1> QED
  BY <1>1, <1>2, <1>3, <1>4, <1>5 DEF ProtocolInv

(* The session ends: its lock is free, whoever still works for it. *)
LEMMA ProtocolSessionEnds ==
    ASSUME ProtocolInv, TypeOK', session' = NoSession, UNCHANGED <<nextSid, landed>>,
           DevicesKeepOrGiveUp, HandlersKeepOrRetire
    PROVE  ProtocolInv'
<1>1. /\ SidsHandedOut' /\ DevicesOK' /\ SidsPrivate'
      /\ RequestsInService' /\ OneBatchInFlight'
  BY FrameWithoutSession DEF NoSession
<1>2. HandlersFitSession'
  BY <1>1 DEF HandlersFitSession, RequestsInService, InService, Serves, NoSession, Busy
<1>3. SessionFollowsDevice'
  BY DEF SessionFollowsDevice, NoSession
<1>4. LandedInSession'
  BY DEF ProtocolInv, LandedInSession, HandlersKeepOrRetire, SameTask, Retired, Serves,
         Busy, NoSession
<1>5. BatchesOfASessionDisjoint'
  BY DEF ProtocolInv, BatchesOfASessionDisjoint
<1> QED
  BY <1>1, <1>2, <1>3, <1>4, <1>5 DEF ProtocolInv

-----------------------------------------------------------------------------
(* A device sends a request only when it waits for none. *)
LEMMA ProtocolSend ==
    ASSUME ProtocolInv, TypeOK', NEW d \in Devices, NEW r \in Request, Send(d, r),
           ~dev[d].waiting, r.sid = dev[d].sid,
           r.type \in {"none", "handshake"} <=> r.sid = NoSid,
           r.type = "push" => r.n > 0,
           r.type = "pull" => dev[d].phase = "pull",
           r.type \in {"pull", "push", "finishPush"} => r.seq = dev[d].seq
    PROVE  ProtocolInv'
<1>1. /\ dev[d] \in Device
      /\ dev'[d] = [dev[d] EXCEPT !.req = r, !.waiting = TRUE]
      /\ \A e \in Devices : e # d => dev'[e] = dev[e]
  BY DEF ProtocolInv, TypeOK, Send
<1>2. /\ dev'[d].req = r /\ dev'[d].waiting
      /\ dev'[d].sid = dev[d].sid /\ dev'[d].phase = dev[d].phase
      /\ dev'[d].seq = dev[d].seq
  BY <1>1 DEF Device
<1> HIDE DEF Send
<1>3. UNCHANGED <<session, nextSid, hsk, pull, push, fin, landed>>
  BY DEF Send, hdlVars
<1>4. SidsHandedOut'
  BY <1>1, <1>2, <1>3 DEF ProtocolInv, SidsHandedOut
<1>5. DevicesOK'
  <2>1. DeviceOK(dev'[d])
    BY <1>2 DEF ProtocolInv, DevicesOK, DeviceOK
  <2> QED
    BY <1>1, <2>1 DEF ProtocolInv, DevicesOK
<1>6. \A e \in Devices, sid \in Nat :
         sid # NoSid /\ KnownTo(dev'[e], sid) => KnownTo(dev[e], sid)
  BY <1>1, <1>2 DEF KnownTo
<1>7. SidsPrivate'
  BY <1>6 DEF ProtocolInv, SidsPrivate, KnownTo, TypeOK, Device, Request
<1>8. ASSUME NEW p, NEW type, InService(p, type, dev) PROVE InService(p, type, dev')
  <2>1. Busy(p) => dev[d].sid # p.req.sid
    BY <1>8 DEF InService
  <2>2. Busy(p) => ~KnownTo(dev'[d], p.req.sid)
    BY <1>2, <2>1 DEF KnownTo
  <2>3. Busy(p) => dev'[d].sid # p.req.sid
    BY <1>2, <2>1
  <2> QED
    BY <1>1, <1>8, <2>2, <2>3 DEF InService
<1>9. RequestsInService'
  BY <1>3, <1>8 DEF ProtocolInv, RequestsInService
<1>10. HandlersFitSession' /\ OneBatchInFlight'
  BY <1>3 DEF ProtocolInv, HandlersFitSession, OneBatchInFlight
<1>11. SessionFollowsDevice'
  <2> SUFFICES ASSUME NEW e \in Devices,
                      dev'[e].sid # NoSid, dev'[e].sid = session.sid, ~Claimed(e)'
               PROVE  /\ session.state = StateOf(dev'[e].phase)
                      /\ session.seq = dev'[e].seq
                      /\ ~dev'[e].waiting => Outdated(dev'[e])
    BY <1>3 DEF SessionFollowsDevice
  <2>1. dev'[e].sid = dev[e].sid
    BY <1>1, <1>2
  <2>2. ~Claimed(e)
    BY <1>3, <2>1 DEF Claimed
  <2>3. /\ session.state = StateOf(dev[e].phase)
        /\ session.seq = dev[e].seq
        /\ ~dev[e].waiting => Outdated(dev[e])
    BY <2>1, <2>2 DEF ProtocolInv, SessionFollowsDevice
  <2>4. CASE e = d
    BY <1>2, <2>3, <2>4
  <2>5. CASE e # d
    BY <1>1, <2>3, <2>5
  <2> QED
    BY <2>4, <2>5
<1>12. LandedInSession' /\ BatchesOfASessionDisjoint'
  BY <1>3 DEF ProtocolInv, LandedInSession, BatchesOfASessionDisjoint
<1> QED
  BY <1>4, <1>5, <1>7, <1>9, <1>10, <1>11, <1>12 DEF ProtocolInv

LEMMA ProtocolDevice ==
    ASSUME ProtocolInv, TypeOK', NEW d \in Devices, DeviceStep(d)
    PROVE  ProtocolInv'
<1>1. /\ dev[d] \in Device /\ DeviceOK(dev[d])
      /\ dev[d].sid \in Nat /\ dev[d].seq \in Nat /\ dev[d].cursor \in Nat
  BY DEF ProtocolInv, TypeOK, DevicesOK, Device
<1>2. CASE StartSync(d)
  <2>1. PICK local \in BOOLEAN :
           Send(d, [NoRequest EXCEPT !.type = "handshake",
                                     !.cli = dev[d].cursor, !.local = local])
    BY <1>2 DEF StartSync
  <2> DEFINE r == [NoRequest EXCEPT !.type = "handshake",
                                    !.cli = dev[d].cursor, !.local = local]
  <2>2. r \in Request
    BY <1>1, NullTypes DEF Request, RequestTypes
  <2>3. r.type = "handshake" /\ r.sid = NoSid
    BY DEF NoRequest
  <2>4. dev[d].sid = NoSid /\ ~dev[d].waiting
    BY <1>1, <1>2 DEF StartSync, DeviceOK
  <2> HIDE DEF r
  <2>5. Send(d, r)
    BY <2>1 DEF r
  <2> QED
    BY <2>2, <2>3, <2>4, <2>5, ProtocolSend
<1>3. ASSUME NEW type \in {"pull", "push", "finishPush", "finishSync"},
             NEW seq \in Nat, NEW n \in Nat,
             Send(d, SessionRequest(type, dev[d].sid, seq, n)),
             ~dev[d].waiting, dev[d].phase # "idle",
             type = "push" => n > 0,
             type = "pull" => dev[d].phase = "pull",
             type # "finishSync" => seq = dev[d].seq
      PROVE  ProtocolInv'
  <2> DEFINE r == SessionRequest(type, dev[d].sid, seq, n)
  <2>1. r \in Request
    BY <1>1, <1>3, SessionRequestType DEF RequestTypes
  <2>2. r.type = type /\ r.sid = dev[d].sid /\ r.seq = seq /\ r.n = n
    BY DEF SessionRequest
  <2>3. dev[d].sid # NoSid
    BY <1>1, <1>3 DEF DeviceOK
  <2> HIDE DEF r
  <2>4. Send(d, r)
    BY <1>3 DEF r
  <2> QED
    BY <1>3, <2>1, <2>2, <2>3, <2>4, ProtocolSend
<1>4. CASE SendPull(d)
  BY <1>1, <1>3, <1>4 DEF SendPull
<1>5. CASE SendPush(d)
  <2>1. PICK n \in 1..MaxChanges :
           Send(d, SessionRequest("push", dev[d].sid, dev[d].seq, n))
    BY <1>5 DEF SendPush
  <2>2. n \in Nat /\ n > 0
    BY BoundsAssumption
  <2> QED
    BY <1>1, <1>3, <1>5, <2>1, <2>2 DEF SendPush
<1>6. CASE SendFinishPush(d)
  BY <1>1, <1>3, <1>6 DEF SendFinishPush
<1>7. CASE SendFinishSync(d)
  BY <1>1, <1>3, <1>7 DEF SendFinishSync
<1>8. CASE GiveUp(d)
  <2>1. DevicesKeepOrGiveUp
    BY <1>8 DEF GiveUp, DevicesKeepOrGiveUp, ProtocolInv, TypeOK
  <2>2. HandlersKeepOrRetire /\ UNCHANGED <<session, nextSid, landed>>
    BY <1>8 DEF GiveUp, HandlersKeepOrRetire, SameTask, hdlVars, ProtocolInv,
                RequestsInService
  <2> QED
    BY <2>1, <2>2, ProtocolFrame
<1> QED
  BY <1>2, <1>4, <1>5, <1>6, <1>7, <1>8 DEF DeviceStep

-----------------------------------------------------------------------------
(* An error is answered to its device, which gives the session up; a batch *)
(* handler that answers one leaves no device in its session.               *)
LEMMA AnswerErrorGivesUp ==
    ASSUME ProtocolInv, NEW d \in Devices, NEW r, AnswerError(d, r)
    PROVE  DevicesKeepOrGiveUp
BY DEF AnswerError, Answer, DevicesKeepOrGiveUp, ProtocolInv, TypeOK

LEMMA ErrorRetires ==
    ASSUME ProtocolInv, NEW p, NEW type, Busy(p), p.dev \in Devices,
           InService(p, type, dev), AnswerError(p.dev, p.req)
    PROVE  \A d \in Devices : dev'[d].sid # p.req.sid
<1> SUFFICES ASSUME NEW d \in Devices, dev'[d].sid = p.req.sid PROVE FALSE
  OBVIOUS
<1>1. dev[d] \in Device /\ p.req.sid # NoSid
  BY DEF ProtocolInv, TypeOK, InService
<1>2. dev'[d] = dev[d]
  BY <1>1, AnswerErrorGivesUp, AbandonedFields DEF DevicesKeepOrGiveUp
<1>3. d = p.dev /\ dev[d].req = p.req /\ dev[d].waiting
  BY <1>2 DEF InService, KnownTo
<1>4. dev'[d] = Abandoned(dev[d])
  BY <1>3 DEF AnswerError, Answer, ProtocolInv, TypeOK
<1> QED
  BY <1>1, <1>4, AbandonedFields

(* Idle handlers serve nothing. *)
LEMMA IdleFacts ==
    /\ ~Busy(IdleHsk)
    /\ ~Busy(IdlePull) /\ IdlePull.req.sid = NoSid
    /\ ~Busy(IdlePush) /\ IdlePush.req.sid = NoSid
    /\ ~Busy(IdleFin) /\ IdleFin.req.sid = NoSid
BY DEF Busy, IdleHsk, IdlePull, IdlePush, IdleFin, NoRequest

LEMMA ProtocolHskRead ==
    ASSUME ProtocolInv, TypeOK', NEW g \in Procs, NEW d \in Devices, HskRead(g, d)
    PROVE  ProtocolInv'
<1>1. UNCHANGED <<session, nextSid, pull, push, fin, landed>>
  BY DEF HskRead
<1>2. DevicesKeepOrGiveUp
  BY AnswerErrorGivesUp DEF HskRead, DevicesKeepOrGiveUp
<1>3. ASSUME NEW h \in Procs, Busy(hsk'[h]) PROVE HandshakeOK(hsk'[h])
  <2>1. CASE hsk'[h] = hsk[h]
    BY <1>3, <2>1 DEF ProtocolInv, RequestsInService
  <2>2. CASE hsk'[h] # hsk[h]
    <3>1. PICK status : hsk'[h] = HskSession(d, dev[d].req, status)
      BY <2>2 DEF HskRead, ProtocolInv, TypeOK
    <3>2. dev[d].req.type = "handshake" /\ dev[d].req.sid = NoSid
      BY DEF HskRead, Arrives, ProtocolInv, DevicesOK, DeviceOK
    <3>3. /\ hsk'[h].req = dev[d].req
          /\ hsk'[h].state = CASE status = "NEED_PULL" -> "Pulling"
                               [] status = "UPLOAD_ALL" -> "AwaitingUploadAllConfirm"
                               [] OTHER -> "Pushing"
      BY <3>1 DEF HskSession, IdleHsk
    <3> QED
      BY <3>2, <3>3 DEF HandshakeOK
  <2> QED
    BY <2>1, <2>2
<1>4. HandlersKeepOrRetire
  BY <1>1, <1>3 DEF HandlersKeepOrRetire, SameTask
<1> QED
  BY <1>1, <1>2, <1>4, ProtocolFrame

(* A session is created for one device, under a number nobody knows yet. *)
LEMMA ProtocolCreate ==
    ASSUME ProtocolInv, TypeOK', NEW g \in Procs, HskCreate(g),
           CreateSessionResult(session) = "ok"
    PROVE  ProtocolInv'
<1> DEFINE p == hsk[g]
<1>1. /\ p.dev \in Devices /\ HandshakeOK(p) /\ p \in HskProc
      /\ session.sid = NoSid /\ nextSid \in Nat /\ NoSid < nextSid
  <2>1. Busy(p) /\ p \in HskProc
    BY DEF HskCreate, ProtocolInv, TypeOK
  <2>2. p.dev \in Devices /\ HandshakeOK(p)
    BY <2>1, BusyDevice DEF HskProc, ProtocolInv, RequestsInService
  <2>3. session.sid = NoSid
    BY DEF CreateSessionResult
  <2> QED
    BY <2>1, <2>2, <2>3 DEF ProtocolInv, TypeOK, SidsHandedOut
<1>2. /\ nextSid' = nextSid + 1 /\ UNCHANGED <<pull, push, fin, landed>>
      /\ session'.sid = nextSid /\ session'.state = p.state /\ session'.seq = 1
      /\ Answer(p.dev, p.req, Joined(dev[p.dev], nextSid, p.state))
  BY DEF HskCreate, CreateSessionResult, CreatedSession
<1>3. hsk' = [hsk EXCEPT ![g] = IdleHsk]
  BY DEF HskCreate
<1>4. ASSUME NEW d \in Devices
      PROVE  \/ dev'[d] = dev[d]
             \/ dev'[d] = Abandoned(dev[d])
             \/ /\ d = p.dev
                /\ dev'[d].phase # "idle" /\ ~dev'[d].waiting
                /\ StateOf(dev'[d].phase) = p.state
                /\ dev'[d].sid = nextSid /\ dev'[d].seq = 1
                /\ dev'[d].req = dev[d].req /\ dev[d].req.type = "handshake"
                /\ dev[d].req.sid = NoSid
  <2>1. CASE dev'[d] = dev[d]
    BY <2>1
  <2>2. CASE dev'[d] # dev[d]
    <3>1. /\ d = p.dev /\ dev[d] \in Device /\ dev[d].req = p.req
          /\ dev'[d] = Joined(dev[d], nextSid, p.state)
      BY <1>1, <1>2, <2>2 DEF Answer, ProtocolInv, TypeOK
    <3>2. CASE p.state = "AwaitingUploadAllConfirm"
      BY <3>1, <3>2 DEF Joined
    <3>3. CASE p.state # "AwaitingUploadAllConfirm"
      <4>1. dev'[d] = [dev[d] EXCEPT !.phase = IF p.state = "Pulling" THEN "pull" ELSE "push",
                          !.waiting = FALSE, !.sid = nextSid, !.seq = 1]
        BY <3>1, <3>3 DEF Joined
      <4>2. /\ dev'[d].phase = IF p.state = "Pulling" THEN "pull" ELSE "push"
            /\ ~dev'[d].waiting /\ dev'[d].sid = nextSid /\ dev'[d].seq = 1
            /\ dev'[d].req = dev[d].req
        BY <3>1, <4>1 DEF Device
      <4> QED
        BY <1>1, <3>1, <3>3, <4>2 DEF HandshakeOK, StateOf
    <3> QED
      BY <3>2, <3>3
  <2> QED
    BY <2>1, <2>2
<1>5. ASSUME NEW d \in Devices
      PROVE  /\ dev[d] \in Device /\ dev'[d] \in Device
             /\ dev'[d].req = dev[d].req
             /\ dev'[d].sid \in {NoSid, nextSid} \/ dev'[d] = dev[d]
             /\ dev'[d].sid = nextSid =>
                   /\ d = p.dev
                   /\ dev'[d].phase # "idle" /\ ~dev'[d].waiting
                   /\ StateOf(dev'[d].phase) = p.state /\ dev'[d].seq = 1
                   /\ dev[d].req.type = "handshake" /\ dev[d].req.sid = NoSid
  <2>1. dev[d] \in Device /\ dev'[d] \in Device /\ dev[d].sid < nextSid /\ dev[d].sid \in Nat
    BY DEF ProtocolInv, TypeOK, SidsHandedOut, Device
  <2>2. CASE dev'[d] = dev[d]
    BY <2>1, <2>2
  <2>3. CASE dev'[d] = Abandoned(dev[d])
    <3>1. dev'[d].sid = NoSid /\ dev'[d].req = dev[d].req
      BY <2>1, <2>3, AbandonedFields
    <3> QED
      BY <1>1, <2>1, <3>1
  <2>4. CASE dev'[d] # dev[d] /\ dev'[d] # Abandoned(dev[d])
    BY <1>4, <2>1, <2>4
  <2> QED
    BY <2>2, <2>3, <2>4
<1> HIDE DEF p
<1>6. SidsHandedOut'
  <2>1. ASSUME NEW d \in Devices
        PROVE  dev'[d].sid < nextSid + 1 /\ dev'[d].req.sid < nextSid + 1
    BY <1>1, <1>5 DEF ProtocolInv, SidsHandedOut, TypeOK, Device, Request
  <2>2. ASSUME NEW h \in Procs
        PROVE  /\ pull[h].req.sid < nextSid + 1 /\ push[h].req.sid < nextSid + 1
               /\ fin[h].req.sid < nextSid + 1
    BY <1>1 DEF ProtocolInv, SidsHandedOut, TypeOK, PullProc, PushProc, FinProc, Request
  <2>3. ASSUME NEW b \in landed PROVE b.sid < nextSid + 1
    BY <1>1 DEF ProtocolInv, SidsHandedOut, TypeOK, Batch
  <2> QED
    BY <1>1, <1>2, <2>1, <2>2, <2>3 DEF SidsHandedOut
<1>7. DevicesOK'
  <2>1. ASSUME NEW d \in Devices PROVE DeviceOK(dev'[d])
    <3>1. DeviceOK(dev[d])
      BY DEF ProtocolInv, DevicesOK
    <3>2. CASE dev'[d] = dev[d]
      BY <3>1, <3>2
    <3>3. CASE dev'[d] = Abandoned(dev[d])
      BY <1>5, <3>1, <3>3, AbandonedFields DEF DeviceOK
    <3>4. CASE dev'[d].sid = nextSid
      BY <1>1, <1>5, <3>4 DEF DeviceOK
    <3> QED
      BY <1>4, <3>2, <3>3, <3>4
  <2> QED
    BY <2>1 DEF DevicesOK
<1>8. SidsPrivate'
  <2> SUFFICES ASSUME NEW d \in Devices, NEW e \in Devices, NEW sid,
                      sid \in {dev'[d].sid, dev'[d].req.sid}, sid # NoSid,
                      KnownTo(dev'[e], sid)
               PROVE  d = e
    BY DEF SidsPrivate
  <2>1. ASSUME NEW f \in Devices PROVE dev[f].sid # nextSid /\ dev[f].req.sid # nextSid
    BY <1>1 DEF ProtocolInv, SidsHandedOut
  <2>2. CASE sid = nextSid
    BY <1>5, <2>1, <2>2 DEF KnownTo
  <2>3. CASE sid # nextSid
    <3>1. sid \in {dev[d].sid, dev[d].req.sid} /\ KnownTo(dev[e], sid)
      BY <1>5, <2>3 DEF KnownTo
    <3> QED
      BY <3>1 DEF ProtocolInv, SidsPrivate
  <2> QED
    BY <2>2, <2>3
<1>9. RequestsInService'
  <2>1. ASSUME NEW q, NEW type, InService(q, type, dev), q.req.sid < nextSid
        PROVE  InService(q, type, dev')
    <3> SUFFICES ASSUME Busy(q), NEW d \in Devices
                 PROVE  /\ q.req.type = type /\ q.req.sid # NoSid
                        /\ KnownTo(dev'[d], q.req.sid) => d = q.dev /\ dev'[d].req = q.req
                        /\ dev'[d].sid = q.req.sid => dev'[d].waiting
      BY <1>1, <2>1 DEF InService
    <3>1. q.req.sid # nextSid
      BY <1>1, <2>1
    <3> QED
      BY <1>5, <2>1, <3>1 DEF InService, KnownTo
  <2>2. ASSUME NEW h \in Procs
        PROVE  /\ pull[h].req.sid < nextSid /\ push[h].req.sid < nextSid
               /\ fin[h].req.sid < nextSid
               /\ InService(pull[h], "pull", dev) /\ InService(push[h], "push", dev)
               /\ InService(fin[h], "finishSync", dev)
               /\ Busy(hsk'[h]) => HandshakeOK(hsk'[h])
    BY <1>3, IdleFacts DEF ProtocolInv, SidsHandedOut, RequestsInService, TypeOK
  <2> QED
    BY <1>2, <2>1, <2>2 DEF RequestsInService
<1>10. HandlersFitSession'
  BY <1>1, <1>2 DEF ProtocolInv, HandlersFitSession, SidsHandedOut, Serves
<1>11. SessionFollowsDevice'
  BY <1>1, <1>2, <1>5 DEF SessionFollowsDevice, Outdated
<1>12. OneBatchInFlight' /\ BatchesOfASessionDisjoint'
  BY <1>2 DEF ProtocolInv, OneBatchInFlight, BatchesOfASessionDisjoint
<1>13. LandedInSession'
  BY <1>1, <1>2 DEF ProtocolInv, LandedInSession, SidsHandedOut
<1> QED
  BY <1>6, <1>7, <1>8, <1>9, <1>10, <1>11, <1>12, <1>13 DEF ProtocolInv

LEMMA ProtocolHskStep ==
    ASSUME ProtocolInv, TypeOK', NEW g \in Procs, HskStep(g)
    PROVE  ProtocolInv'
<1>1. UNCHANGED <<pull, push, fin, landed>>
  BY DEF HskStep, HskQueue, HskCreate, HskFail
<1>2. hsk[g] \in HskProc /\ Busy(hsk[g]) /\ HandshakeOK(hsk[g])
  BY DEF HskStep, HskQueue, HskCreate, HskFail, ProtocolInv, TypeOK, RequestsInService
<1>3. hsk[g].dev \in Devices
  BY <1>2, BusyDevice DEF HskProc
<1>4. CASE HskQueue(g)
  <2>1. hsk'[g].req = hsk[g].req /\ hsk'[g].state = hsk[g].state
    BY <1>2, <1>4 DEF HskQueue, ProtocolInv, TypeOK, HskProc
  <2>2. ASSUME NEW h \in Procs, Busy(hsk'[h]) PROVE HandshakeOK(hsk'[h])
    BY <1>2, <1>4, <2>1, <2>2
    DEF HskQueue, ProtocolInv, TypeOK, RequestsInService, HandshakeOK
  <2>3. HandlersKeepOrRetire
    BY <1>1, <2>2 DEF HandlersKeepOrRetire, SameTask
  <2>4. DevicesKeepOrGiveUp /\ UNCHANGED <<session, nextSid>>
    BY <1>4 DEF HskQueue, DevicesKeepOrGiveUp
  <2> QED
    BY <1>1, <2>3, <2>4, ProtocolFrame
<1>5. CASE HskCreate(g) \/ HskFail(g)
  <2>1. ASSUME NEW h \in Procs, Busy(hsk'[h]) PROVE HandshakeOK(hsk'[h])
    BY <1>5, <2>1, IdleFacts DEF HskCreate, HskFail, ProtocolInv, TypeOK, RequestsInService
  <2>2. HandlersKeepOrRetire
    BY <1>1, <2>1 DEF HandlersKeepOrRetire, SameTask
  <2>3. CASE HskCreate(g) /\ CreateSessionResult(session) = "ok"
    BY <2>3, ProtocolCreate
  <2>4. CASE HskCreate(g) /\ CreateSessionResult(session) # "ok"
    <3>1. AnswerError(hsk[g].dev, hsk[g].req) /\ UNCHANGED <<session, nextSid>>
      BY <2>4 DEF HskCreate
    <3> QED
      BY <1>1, <1>3, <2>2, <3>1, AnswerErrorGivesUp, ProtocolFrame
  <2>5. CASE HskFail(g)
    <3>1. AnswerError(hsk[g].dev, hsk[g].req) /\ UNCHANGED <<session, nextSid>>
      BY <2>5 DEF HskFail
    <3> QED
      BY <1>1, <1>3, <2>2, <3>1, AnswerErrorGivesUp, ProtocolFrame
  <2> QED
    BY <1>5, <2>3, <2>4, <2>5
<1> QED
  BY <1>4, <1>5 DEF HskStep

-----------------------------------------------------------------------------
(* A handler of a session that a device's last request names works on that *)
(* very request.                                                           *)
LEMMA ServesLastRequest ==
    ASSUME ProtocolInv, NEW d \in Devices, NEW h \in Procs
    PROVE  /\ Serves(pull[h], dev[d].req.sid) =>
                 pull[h].req = dev[d].req /\ dev[d].req.type = "pull"
           /\ Serves(push[h], dev[d].req.sid) =>
                 push[h].req = dev[d].req /\ dev[d].req.type = "push"
           /\ Serves(fin[h], dev[d].req.sid) =>
                 fin[h].req = dev[d].req /\ dev[d].req.type = "finishSync"
BY DEF ProtocolInv, RequestsInService, InService, Serves, KnownTo

(* A request that finds its session expecting its sequence number has not  *)
(* been claimed: no handler serves the session, and its device still waits.*)
LEMMA ClaimIsFirst ==
    ASSUME ProtocolInv, NEW d \in Devices,
           dev[d].req.type \in {"pull", "push"},
           dev[d].req.sid # NoSid, session.sid = dev[d].req.sid,
           session.seq = dev[d].req.seq,
           dev[d].req.type = "pull" => session.state = "Pulling",
           dev[d].req.type = "push" => session.state \in {"Pushing", "AwaitingPushOrFinish"}
    PROVE  /\ \A h \in Procs : /\ ~Serves(pull[h], session.sid)
                               /\ ~Serves(push[h], session.sid)
                               /\ ~Serves(fin[h], session.sid)
           /\ \A e \in Devices :
                 /\ KnownTo(dev[e], session.sid) => e = d
                 /\ dev[e].sid = session.sid => dev[e].waiting
<1> DEFINE r == dev[d].req
<1>1. dev[d] \in Device /\ r.seq \in Nat /\ r.seq # r.seq + 1
  BY DEF ProtocolInv, TypeOK, Device, Request
<1>2. ASSUME NEW h \in Procs
      PROVE  /\ ~Serves(pull[h], session.sid)
             /\ ~Serves(push[h], session.sid)
             /\ ~Serves(fin[h], session.sid)
  BY <1>1, ServesLastRequest DEF ProtocolInv, HandlersFitSession
<1>3. \A e \in Devices : KnownTo(dev[e], session.sid) => e = d
  BY DEF ProtocolInv, SidsPrivate, KnownTo
<1>4. ASSUME NEW e \in Devices, dev[e].sid = session.sid, ~dev[e].waiting PROVE FALSE
  <2>1. e = d
    BY <1>3, <1>4 DEF KnownTo
  <2>2. ~Claimed(d)
    BY <1>2, <1>4, <2>1 DEF Claimed
  <2>3. session.state = StateOf(dev[d].phase) /\ session.seq = dev[d].seq /\ Outdated(dev[d])
    BY <1>4, <2>1, <2>2 DEF ProtocolInv, SessionFollowsDevice
  <2>4. dev[d].phase \in {"idle", "pull", "either", "push", "finish"}
    BY <1>1 DEF Device, Phases
  <2>5. CASE r.type = "pull"
    BY <2>3, <2>4, <2>5 DEF Outdated, StateOf
  <2>6. CASE r.type = "push"
    BY <2>3, <2>4, <2>6 DEF Outdated, StateOf
  <2> QED
    BY <2>5, <2>6
<1> QED
  BY <1>2, <1>3, <1>4

LEMMA ProtocolPullClaimed ==
    ASSUME ProtocolInv, TypeOK', NEW g \in Procs, NEW d \in Devices, PullClaim(g, d),
           ClaimPullResult(session, dev[d].req.sid, dev[d].req.seq) = "ok"
    PROVE  ProtocolInv'
<1> DEFINE r == dev[d].req
           new == ClaimPullBatchResult(d, r)
<1>1. /\ r.type = "pull" /\ session.sid = r.sid /\ r.sid # NoSid
      /\ session.state = "Pulling" /\ session.seq = r.seq /\ ~Busy(pull[g])
  BY DEF PullClaim, Arrives, ClaimPullResult
<1>2. /\ session'.sid = session.sid /\ session'.state = session.state
      /\ session'.seq = r.seq + 1
      /\ pull' = [pull EXCEPT ![g] = new]
      /\ UNCHANGED <<nextSid, hsk, push, fin, dev, landed>>
  <2>1. /\ session' = PullClaimed(session, r.seq) /\ pull' = [pull EXCEPT ![g] = new]
        /\ UNCHANGED <<nextSid, hsk, push, fin, dev, landed>>
    BY DEF PullClaim
  <2> QED
    BY <2>1 DEF PullClaimed, ProtocolInv, TypeOK, Session
<1>3. /\ \A h \in Procs : /\ ~Serves(pull[h], session.sid)
                          /\ ~Serves(push[h], session.sid)
                          /\ ~Serves(fin[h], session.sid)
      /\ \A e \in Devices : /\ KnownTo(dev[e], session.sid) => e = d
                            /\ dev[e].sid = session.sid => dev[e].waiting
  BY <1>1, ClaimIsFirst
<1>4. new.dev = d /\ new.req = r /\ Busy(new)
  BY DevicesAssumption DEF ClaimPullBatchResult, IdlePull, Busy
<1> HIDE DEF new
<1>5. \A h \in Procs : pull'[h] = IF h = g THEN new ELSE pull[h]
  BY <1>2 DEF ProtocolInv, TypeOK
<1>6. SidsHandedOut'
  BY <1>2, <1>4, <1>5 DEF ProtocolInv, SidsHandedOut
<1>7. DevicesOK' /\ SidsPrivate'
  BY <1>2 DEF ProtocolInv, DevicesOK, SidsPrivate
<1>8. RequestsInService'
  <2>1. InService(new, "pull", dev)
    BY <1>1, <1>3, <1>4 DEF InService
  <2> QED
    BY <1>2, <1>5, <2>1 DEF ProtocolInv, RequestsInService
<1>9. HandlersFitSession'
  BY <1>1, <1>2, <1>3, <1>4, <1>5 DEF HandlersFitSession
<1>10. SessionFollowsDevice'
  <2>1. ASSUME NEW e \in Devices, dev[e].sid = session.sid PROVE Claimed(e)'
    BY <1>1, <1>2, <1>4, <1>5, <2>1 DEF Claimed, Serves
  <2> QED
    BY <1>2, <2>1 DEF SessionFollowsDevice
<1>11. OneBatchInFlight'
  BY <1>1, <1>2, <1>3, <1>4, <1>5 DEF ProtocolInv, OneBatchInFlight, Serves
<1>12. LandedInSession' /\ BatchesOfASessionDisjoint'
  BY <1>1, <1>2 DEF ProtocolInv, LandedInSession, BatchesOfASessionDisjoint
<1> QED
  BY <1>6, <1>7, <1>8, <1>9, <1>10, <1>11, <1>12 DEF ProtocolInv

LEMMA ProtocolPushClaimed ==
    ASSUME ProtocolInv, TypeOK', NEW g \in Procs, NEW d \in Devices, PushClaim(g, d),
           ClaimPushResult(session, dev[d].req.sid, dev[d].req.seq, dev[d].req.n) = "ok"
    PROVE  ProtocolInv'
<1> DEFINE r == dev[d].req
           new == ClaimPushBatchResult(d, r)
<1>1. /\ r.type = "push" /\ session.sid = r.sid /\ r.sid # NoSid
      /\ session.state \in {"Pushing", "AwaitingPushOrFinish"}
      /\ session.seq = r.seq /\ ~Busy(push[g])
  BY DEF PushClaim, Arrives, ClaimPushResult
<1>2. /\ session'.sid = session.sid /\ session'.state = "Pushing"
      /\ session'.seq = r.seq + 1 /\ session'.cursor = session.cursor + r.n
      /\ push' = [push EXCEPT ![g] = new]
      /\ UNCHANGED <<nextSid, hsk, pull, fin, dev, landed>>
  <2>1. /\ session' = PushClaimed(session, r.seq, r.n)
        /\ push' = [push EXCEPT ![g] = new]
        /\ UNCHANGED <<nextSid, hsk, pull, fin, dev, landed>>
    BY DEF PushClaim
  <2> QED
    BY <2>1 DEF PushClaimed, ProtocolInv, TypeOK, Session
<1>3. /\ \A h \in Procs : /\ ~Serves(pull[h], session.sid)
                          /\ ~Serves(push[h], session.sid)
                          /\ ~Serves(fin[h], session.sid)
      /\ \A e \in Devices : /\ KnownTo(dev[e], session.sid) => e = d
                            /\ dev[e].sid = session.sid => dev[e].waiting
  BY <1>1, ClaimIsFirst
<1>4. new.dev = d /\ new.req = r /\ new.start = session.cursor /\ Busy(new)
  BY DevicesAssumption DEF ClaimPushBatchResult, IdlePush, Busy
<1> HIDE DEF new
<1>5. \A h \in Procs : push'[h] = IF h = g THEN new ELSE push[h]
  BY <1>2 DEF ProtocolInv, TypeOK
<1>6. SidsHandedOut'
  BY <1>2, <1>4, <1>5 DEF ProtocolInv, SidsHandedOut
<1>7. DevicesOK' /\ SidsPrivate'
  BY <1>2 DEF ProtocolInv, DevicesOK, SidsPrivate
<1>8. RequestsInService'
  <2>1. InService(new, "push", dev)
    BY <1>1, <1>3, <1>4 DEF InService
  <2> QED
    BY <1>2, <1>5, <2>1 DEF ProtocolInv, RequestsInService
<1>9. HandlersFitSession'
  BY <1>1, <1>2, <1>3, <1>4, <1>5 DEF HandlersFitSession
<1>10. SessionFollowsDevice'
  <2>1. ASSUME NEW e \in Devices, dev[e].sid = session.sid PROVE Claimed(e)'
    BY <1>1, <1>2, <1>4, <1>5, <2>1 DEF Claimed, Serves
  <2> QED
    BY <1>2, <2>1 DEF SessionFollowsDevice
<1>11. OneBatchInFlight'
  BY <1>1, <1>2, <1>3, <1>4, <1>5 DEF ProtocolInv, OneBatchInFlight, Serves
<1>12. LandedInSession'
  <2> SUFFICES ASSUME NEW b \in landed
               PROVE  /\ b.sid # NoSid
                      /\ b.sid = session'.sid =>
                            /\ session'.state \in {"Pushing", "AwaitingFinish"}
                            /\ b.seq < session'.seq
                            /\ b.hi <= session'.cursor
                      /\ \A h \in Procs : Serves(push'[h], b.sid) =>
                            b.seq < push'[h].req.seq /\ b.hi <= push'[h].start
    BY <1>2 DEF LandedInSession
  <2>1. /\ b \in Batch /\ session.seq \in Nat /\ session.cursor \in Nat
        /\ r.seq \in Nat /\ r.n \in Nat
    BY DEF ProtocolInv, TypeOK, Session, Device, Request
  <2>2. /\ b.sid # NoSid
        /\ b.sid = session.sid => b.seq < session.seq /\ b.hi <= session.cursor
        /\ \A h \in Procs : Serves(push[h], b.sid) =>
              b.seq < push[h].req.seq /\ b.hi <= push[h].start
    BY DEF ProtocolInv, LandedInSession
  <2>3. b.sid = session.sid => b.seq < r.seq + 1 /\ b.hi <= session.cursor + r.n
    BY <1>1, <2>1, <2>2 DEF Batch
  <2> QED
    BY <1>1, <1>2, <1>4, <1>5, <2>2, <2>3 DEF Serves
<1>13. BatchesOfASessionDisjoint'
  BY <1>2 DEF ProtocolInv, BatchesOfASessionDisjoint
<1> QED
  BY <1>6, <1>7, <1>8, <1>9, <1>10, <1>11, <1>12, <1>13 DEF ProtocolInv

(* A claim that is refused changes nothing but its device. *)
LEMMA ProtocolRefused ==
    ASSUME ProtocolInv, TypeOK', NEW d \in Devices, AnswerError(d, dev[d].req),
           UNCHANGED <<session, nextSid, hdlVars, landed>>
    PROVE  ProtocolInv'
<1>1. HandlersKeepOrRetire
  BY DEF HandlersKeepOrRetire, SameTask, hdlVars, ProtocolInv, RequestsInService
<1> QED
  BY <1>1, AnswerErrorGivesUp, ProtocolFrame

LEMMA ProtocolClaims ==
    ASSUME ProtocolInv, TypeOK', NEW g \in Procs, NEW d \in Devices,
           PullClaim(g, d) \/ PushClaim(g, d)
    PROVE  ProtocolInv'
<1>1. CASE PullClaim(g, d)
  <2>1. CASE ClaimPullResult(session, dev[d].req.sid, dev[d].req.seq) # "ok"
    BY <1>1, <2>1, ProtocolRefused DEF PullClaim, hdlVars
  <2> QED
    BY <1>1, <2>1, ProtocolPullClaimed
<1>2. CASE PushClaim(g, d)
  <2>1. CASE ClaimPushResult(session, dev[d].req.sid, dev[d].req.seq, dev[d].req.n) # "ok"
    BY <1>2, <2>1, ProtocolRefused DEF PushClaim, hdlVars
  <2> QED
    BY <1>2, <2>1, ProtocolPushClaimed
<1> QED
  BY <1>1, <1>2

-----------------------------------------------------------------------------
(* A batch handler that fails answers an error and retires; its claim, and *)
(* so the session, stays as it is.                                         *)
LEMMA ProtocolBatchFails ==
    ASSUME ProtocolInv, TypeOK', NEW g \in Procs,
           UNCHANGED <<session, nextSid, hsk, fin, landed>>,
           \/ /\ Busy(pull[g]) /\ AnswerError(pull[g].dev, pull[g].req)
              /\ pull' = [pull EXCEPT ![g] = IdlePull] /\ UNCHANGED push
           \/ /\ Busy(push[g]) /\ AnswerError(push[g].dev, push[g].req)
              /\ push' = [push EXCEPT ![g] = IdlePush] /\ UNCHANGED pull
    PROVE  ProtocolInv'
<1>1. /\ pull \in [Procs -> PullProc] /\ push \in [Procs -> PushProc]
      /\ pull[g] \in PullProc /\ push[g] \in PushProc
      /\ InService(pull[g], "pull", dev) /\ InService(push[g], "push", dev)
      /\ \A h \in Procs : Busy(hsk[h]) => HandshakeOK(hsk[h])
  BY DEF ProtocolInv, TypeOK, RequestsInService
<1>2. CASE /\ Busy(pull[g]) /\ AnswerError(pull[g].dev, pull[g].req)
           /\ pull' = [pull EXCEPT ![g] = IdlePull] /\ UNCHANGED push
  <2>1. pull[g].dev \in Devices
    BY <1>1, <1>2, BusyDevice DEF PullProc
  <2>2. Retired(pull'[g], pull[g])
    BY <1>1, <1>2, <2>1, IdleFacts, ErrorRetires DEF Retired
  <2>3. HandlersKeepOrRetire
    BY <1>1, <1>2, <2>2 DEF HandlersKeepOrRetire, SameTask
  <2> QED
    BY <1>2, <2>1, <2>3, AnswerErrorGivesUp, ProtocolFrame
<1>3. CASE /\ Busy(push[g]) /\ AnswerError(push[g].dev, push[g].req)
           /\ push' = [push EXCEPT ![g] = IdlePush] /\ UNCHANGED pull
  <2>1. push[g].dev \in Devices
    BY <1>1, <1>3, BusyDevice DEF PushProc
  <2>2. Retired(push'[g], push[g])
    BY <1>1, <1>3, <2>1, IdleFacts, ErrorRetires DEF Retired
  <2>3. HandlersKeepOrRetire
    BY <1>1, <1>3, <2>2 DEF HandlersKeepOrRetire, SameTask
  <2> QED
    BY <1>3, <2>1, <2>3, AnswerErrorGivesUp, ProtocolFrame
<1> QED
  BY <1>2, <1>3

(* A query or a statement of a batch handler leaves its task as it was. *)
LEMMA ProtocolBatchContinues ==
    ASSUME ProtocolInv, TypeOK', UNCHANGED <<session, nextSid, hsk, fin, dev, landed>>,
           \A g \in Procs : /\ SameTask(pull'[g], pull[g])
                            /\ SameTask(push'[g], push[g])
                            /\ push'[g].start = push[g].start
    PROVE  ProtocolInv'
<1>1. HandlersKeepOrRetire
  BY DEF HandlersKeepOrRetire, SameTask, ProtocolInv, RequestsInService
<1>2. DevicesKeepOrGiveUp
  BY DEF DevicesKeepOrGiveUp
<1> QED
  BY <1>1, <1>2, ProtocolFrame

(* A query leaves its handler with its task, or ends it with an error. *)
LEMMA PullQueryKeepsTask ==
    ASSUME ProtocolInv, NEW g \in Procs, PullQuery(g)
    PROVE  \/ UNCHANGED dev /\ \A h \in Procs : SameTask(pull'[h], pull[h])
           \/ /\ AnswerError(pull[g].dev, pull[g].req)
              /\ pull' = [pull EXCEPT ![g] = IdlePull]
<1> DEFINE p == pull[g]
<1>0. p \in PullProc /\ pull \in [Procs -> PullProc]
  BY DEF ProtocolInv, TypeOK
<1> DEFINE type == HeadOf(p.queue)
           selected == Selected(type, p.cur, p.end)
           Queried(first, after) ==
              [p EXCEPT
                  !.got = [e \in Entities |-> IF e \in first
                                              THEN rows[e] ELSE p.got[e]],
                  !.size = p.size + Cardinality(first),
                  !.queue = IF first # selected THEN @ ELSE @ \ {type},
                  !.cur = IF first # selected THEN after ELSE p.start,
                  !.done = p.size + Cardinality(first) >= MaxBatchSize]
<1>1. \A first, after : SameTask(Queried(first, after), p)
  BY <1>0 DEF SameTask, PullProc
<1>2. \E first, after :
        \/ pull' = [pull EXCEPT ![g] = Queried(first, after)] /\ UNCHANGED dev
        \/ AnswerError(p.dev, p.req) /\ pull' = [pull EXCEPT ![g] = IdlePull]
  BY DEF PullQuery
<1> HIDE DEF Queried, p
<1>3. PICK first, after :
        \/ pull' = [pull EXCEPT ![g] = Queried(first, after)] /\ UNCHANGED dev
        \/ AnswerError(p.dev, p.req) /\ pull' = [pull EXCEPT ![g] = IdlePull]
  BY <1>2
<1> USE DEF p
<1>4. ASSUME pull' = [pull EXCEPT ![g] = Queried(first, after)], NEW h \in Procs
      PROVE  SameTask(pull'[h], pull[h])
  BY <1>0, <1>1, <1>4 DEF SameTask
<1> QED
  BY <1>3, <1>4

LEMMA ProtocolPullQuery ==
    ASSUME ProtocolInv, TypeOK', NEW g \in Procs, PullQuery(g)
    PROVE  ProtocolInv'
<1> DEFINE p == pull[g]
<1>1. UNCHANGED <<session, nextSid, hsk, push, fin, landed>> /\ Busy(p)
  BY DEF PullQuery
<1>2. \/ UNCHANGED dev /\ \A h \in Procs : SameTask(pull'[h], pull[h])
      \/ AnswerError(p.dev, p.req) /\ pull' = [pull EXCEPT ![g] = IdlePull]
  BY PullQueryKeepsTask
<1>3. CASE UNCHANGED dev /\ \A h \in Procs : SameTask(pull'[h], pull[h])
  <2>1. \A h \in Procs : SameTask(push'[h], push[h]) /\ push'[h].start = push[h].start
    BY <1>1 DEF SameTask
  <2> QED
    BY <1>1, <1>3, <2>1, ProtocolBatchContinues
<1>4. CASE AnswerError(p.dev, p.req) /\ pull' = [pull EXCEPT ![g] = IdlePull]
  BY <1>1, <1>4, ProtocolBatchFails
<1> QED
  BY <1>2, <1>3, <1>4

LEMMA ProtocolPushStatement ==
    ASSUME ProtocolInv, TypeOK', NEW g \in Procs, NEW e \in Entities,
           PushUpsert(g, e) \/ PushDelete(g, e)
    PROVE  ProtocolInv'
<1>1. UNCHANGED <<session, nextSid, hsk, pull, fin, dev, landed>>
  BY DEF PushUpsert, PushDelete
<1>2. push \in [Procs -> PushProc]
  BY DEF ProtocolInv, TypeOK
<1>3. ASSUME NEW h \in Procs
      PROVE  SameTask(push'[h], push[h]) /\ push'[h].start = push[h].start
  <2>1. push[h] \in PushProc
    BY <1>2
  <2>2. CASE PushUpsert(g, e)
    BY <1>2, <2>1, <2>2 DEF PushUpsert, SameTask, PushProc
  <2>3. CASE push' = [push EXCEPT
                 ![g].txRows[e] = [usn |-> AssignedUsn(push[g]), del |-> TRUE],
                 ![g].txUnits[e] = [usn |-> AssignedUsn(push[g]), op |-> "delete"],
                 ![g].i = push[g].i + 1]
    BY <1>2, <2>1, <2>3 DEF SameTask, PushProc
  <2>4. CASE push' = [push EXCEPT ![g].i = push[g].i + 1]
    BY <1>2, <2>1, <2>4 DEF SameTask, PushProc
  <2> QED
    BY <2>2, <2>3, <2>4 DEF PushDelete
<1>4. \A h \in Procs : SameTask(pull'[h], pull[h])
  BY <1>1 DEF SameTask
<1> QED
  BY <1>1, <1>3, <1>4, ProtocolBatchContinues

-----------------------------------------------------------------------------
(***************************************************************************)
(* Answers that move a device on: to the one that waits in session sid.    *)
(***************************************************************************)
OnlyAnswered(sid) ==
    \A d \in Devices :
        \/ dev'[d] = dev[d]
        \/ /\ dev[d].sid = sid /\ dev[d].waiting
           /\ dev'[d].req = dev[d].req /\ dev'[d].sid = dev[d].sid
           /\ dev'[d].phase # "idle" /\ ~dev'[d].waiting

(* The batch handlers of the session are done, the others go on. *)
BatchDone(sid) ==
    \A g \in Procs :
        /\ pull'[g] = IdlePull \/ (pull'[g] = pull[g] /\ ~Serves(pull[g], sid))
        /\ push'[g] = IdlePush \/ (push'[g] = push[g] /\ ~Serves(push[g], sid))

LEMMA AnsweredWithoutSession ==
    ASSUME ProtocolInv, TypeOK', NEW sid, sid # NoSid,
           session'.sid = session.sid, UNCHANGED <<nextSid, hsk, fin>>,
           OnlyAnswered(sid), BatchDone(sid),
           UNCHANGED dev \/ \A g \in Procs : ~Serves(fin[g], sid),
           \A b \in landed' : b.sid < nextSid
    PROVE  /\ SidsHandedOut' /\ DevicesOK' /\ SidsPrivate'
           /\ RequestsInService' /\ OneBatchInFlight'
<1>1. \A d \in Devices : dev'[d].sid = dev[d].sid /\ dev'[d].req = dev[d].req
  BY DEF OnlyAnswered
<1>2. nextSid \in Nat /\ NoSid < nextSid
  BY DEF ProtocolInv, TypeOK, SidsHandedOut, Session, NoSid
<1>3. \A g \in Procs : /\ Busy(pull'[g]) => pull'[g] = pull[g] /\ pull[g].req.sid # sid
                       /\ Busy(push'[g]) => push'[g] = push[g] /\ push[g].req.sid # sid
  BY IdleFacts DEF BatchDone, Serves
<1>4. SidsHandedOut'
  <2>1. \A g \in Procs : pull'[g].req.sid < nextSid /\ push'[g].req.sid < nextSid
    BY <1>2, IdleFacts DEF BatchDone, ProtocolInv, SidsHandedOut
  <2> QED
    BY <1>1, <1>2, <2>1 DEF ProtocolInv, SidsHandedOut
<1>5. DevicesOK'
  <2>1. ASSUME NEW d \in Devices PROVE DeviceOK(dev'[d])
    <3>1. DeviceOK(dev[d])
      BY DEF ProtocolInv, DevicesOK
    <3>2. CASE dev'[d] = dev[d]
      BY <3>1, <3>2
    <3>3. CASE dev'[d] # dev[d]
      <4>1. /\ dev[d].sid = sid /\ dev'[d].sid = sid /\ dev'[d].req = dev[d].req
            /\ dev'[d].phase # "idle" /\ ~dev'[d].waiting
        BY <3>3 DEF OnlyAnswered
      <4> QED
        BY <3>1, <4>1 DEF DeviceOK
    <3> QED
      BY <3>2, <3>3
  <2> QED
    BY <2>1 DEF DevicesOK
<1>6. SidsPrivate'
  BY <1>1 DEF ProtocolInv, SidsPrivate, KnownTo
<1>7. ASSUME NEW p, NEW type, InService(p, type, dev),
             UNCHANGED dev \/ p.req.sid # sid
      PROVE  InService(p, type, dev')
  <2>1. CASE UNCHANGED dev
    BY <1>7, <2>1
  <2>2. CASE p.req.sid # sid
    <3> SUFFICES ASSUME Busy(p), NEW d \in Devices
                 PROVE  /\ p.req.type = type /\ p.req.sid # NoSid
                        /\ KnownTo(dev'[d], p.req.sid) => d = p.dev /\ dev'[d].req = p.req
                        /\ dev'[d].sid = p.req.sid => dev'[d].waiting
      BY <1>7 DEF InService
    <3>1. dev'[d].sid = p.req.sid => dev'[d] = dev[d]
      BY <1>1, <2>2 DEF OnlyAnswered
    <3> QED
      BY <1>1, <1>7, <3>1 DEF InService, KnownTo
  <2> QED
    BY <1>7, <2>1, <2>2
<1>8. RequestsInService'
  <2>1. ASSUME NEW g \in Procs
        PROVE  /\ InService(pull'[g], "pull", dev')
               /\ InService(push'[g], "push", dev')
               /\ InService(fin'[g], "finishSync", dev')
               /\ Busy(hsk'[g]) => HandshakeOK(hsk'[g])
    <3>1. /\ InService(pull[g], "pull", dev) /\ InService(push[g], "push", dev)
          /\ InService(fin[g], "finishSync", dev)
          /\ Busy(hsk[g]) => HandshakeOK(hsk[g])
      BY DEF ProtocolInv, RequestsInService
    <3>2. InService(pull'[g], "pull", dev')
      BY <1>3, <1>7, <3>1 DEF InService
    <3>3. InService(push'[g], "push", dev')
      BY <1>3, <1>7, <3>1 DEF InService
    <3>4. InService(fin[g], "finishSync", dev')
      <4>1. CASE ~Busy(fin[g])
        BY <4>1 DEF InService
      <4>2. CASE Busy(fin[g])
        BY <1>7, <3>1, <4>2 DEF Serves
      <4> QED
        BY <4>1, <4>2
    <3> QED
      BY <3>1, <3>2, <3>3, <3>4
  <2> QED
    BY <2>1 DEF RequestsInService
<1>9. OneBatchInFlight'
  BY <1>3 DEF ProtocolInv, OneBatchInFlight
<1> QED
  BY <1>4, <1>5, <1>6, <1>8, <1>9

(* A handler that serves the session of a waiting device works on the      *)
(* request that the device waits for.                                      *)
LEMMA ServesWaitingDevice ==
    ASSUME ProtocolInv, NEW p, NEW type, Busy(p), InService(p, type, dev),
           NEW d \in Devices, dev[d].sid = p.req.sid
    PROVE  d = p.dev /\ dev[d].req = p.req /\ dev[d].waiting /\ dev[d].req.type = type
BY DEF InService, KnownTo

LEMMA ProtocolPullSaved ==
    ASSUME ProtocolInv, TypeOK', NEW g \in Procs, PullSave(g),
           session.sid = pull[g].req.sid,
           session' = IF pull[g].queue = {} THEN PullFinished(session)
                      ELSE PullProgressed(session, pull[g].queue, pull[g].cur),
           Answer(pull[g].dev, pull[g].req, Received(dev[pull[g].dev], pull[g]))
    PROVE  ProtocolInv'
<1> DEFINE p == pull[g]
           sid == pull[g].req.sid
<1>1. /\ Busy(p) /\ p \in PullProc /\ InService(p, "pull", dev) /\ sid # NoSid
      /\ p.dev \in Devices
  <2>1. Busy(p) /\ p \in PullProc /\ InService(p, "pull", dev)
    BY DEF PullSave, ProtocolInv, TypeOK, RequestsInService
  <2>2. p.dev \in Devices
    BY <2>1, BusyDevice DEF PullProc
  <2> QED
    BY <2>1, <2>2 DEF InService
<1>2. /\ pull' = [pull EXCEPT ![g] = IdlePull]
      /\ UNCHANGED <<nextSid, hsk, push, fin, landed>>
  BY DEF PullSave
<1>3. session.state = "Pulling" /\ session.seq = p.req.seq + 1 /\ session \in Session
  BY <1>1 DEF ProtocolInv, TypeOK, HandlersFitSession, Serves
<1>4. /\ session'.sid = sid
      /\ p.queue = {} => session'.state = "AwaitingPushOrFinish" /\ session'.seq = 1
      /\ p.queue # {} => session'.state = "Pulling" /\ session'.seq = p.req.seq + 1
  BY <1>3 DEF PullFinished, PullProgressed, Session
<1>5. ASSUME NEW h \in Procs
      PROVE  /\ h # g => ~Serves(pull[h], sid)
             /\ ~Serves(push[h], sid) /\ ~Serves(fin[h], sid)
  BY <1>1, <1>3 DEF ProtocolInv, OneBatchInFlight, HandlersFitSession, Serves
<1>6. BatchDone(sid)
  BY <1>2, <1>5 DEF BatchDone, ProtocolInv, TypeOK
<1>7. ASSUME NEW d \in Devices
      PROVE  \/ dev'[d] = dev[d] /\ dev[d].sid # sid
             \/ /\ dev[d].sid = sid /\ dev[d].waiting
                /\ dev'[d].req = dev[d].req /\ dev'[d].sid = dev[d].sid
                /\ ~dev'[d].waiting /\ dev'[d].req.type = "pull"
                /\ p.queue = {} => dev'[d].phase = "either" /\ dev'[d].seq = 1
                /\ p.queue # {} => /\ dev'[d].phase = "pull"
                                   /\ dev'[d].seq = p.req.seq + 1
                                   /\ dev'[d].req.seq = p.req.seq
  <2>1. CASE dev[d].sid = sid
    <3>1. /\ d = p.dev /\ dev[d].req = p.req /\ dev[d].waiting /\ dev[d] \in Device
          /\ dev[d].req.type = "pull"
      BY <1>1, <2>1, ServesWaitingDevice DEF ProtocolInv, TypeOK
    <3>2. dev'[d] = Received(dev[d], p)
      BY <3>1 DEF Answer, ProtocolInv, TypeOK
    <3>3. dev[d].phase = "pull" /\ dev[d].seq = p.req.seq
      BY <3>1 DEF ProtocolInv, DevicesOK, DeviceOK
    <3> HIDE DEF p
    <3>4. CASE p.queue = {}
      <4>1. dev'[d] = [[dev[d] EXCEPT !.has = Overlay(dev[d].has, p.got), !.waiting = FALSE]
                          EXCEPT !.phase = "either", !.seq = 1, !.cursor = p.end]
        BY <3>2, <3>4 DEF Received
      <4>2. /\ dev'[d].req = dev[d].req /\ dev'[d].sid = dev[d].sid /\ ~dev'[d].waiting
            /\ dev'[d].phase = "either" /\ dev'[d].seq = 1
        BY <3>1, <4>1 DEF Device
      <4> QED
        BY <2>1, <3>1, <3>4, <4>2
    <3>5. CASE p.queue # {}
      <4>1. dev'[d] = [[dev[d] EXCEPT !.has = Overlay(dev[d].has, p.got), !.waiting = FALSE]
                          EXCEPT !.seq = dev[d].seq + 1]
        BY <3>2, <3>5 DEF Received
      <4>2. /\ dev'[d].req = dev[d].req /\ dev'[d].sid = dev[d].sid /\ ~dev'[d].waiting
            /\ dev'[d].phase = dev[d].phase /\ dev'[d].seq = dev[d].seq + 1
        BY <3>1, <4>1 DEF Device
      <4> QED
        BY <2>1, <3>1, <3>3, <3>5, <4>2
    <3> QED
      BY <3>4, <3>5
  <2>2. CASE dev[d].sid # sid
    <3>1. CASE d = p.dev /\ dev[d].waiting /\ dev[d].req = p.req
      BY <2>2, <3>1 DEF ProtocolInv, DevicesOK, DeviceOK
    <3>2. CASE ~(d = p.dev /\ dev[d].waiting /\ dev[d].req = p.req)
      BY <1>1, <2>2, <3>2 DEF Answer, ProtocolInv, TypeOK
    <3> QED
      BY <3>1, <3>2
  <2> QED
    BY <2>1, <2>2
<1> HIDE DEF p
<1>8. OnlyAnswered(sid)
  BY <1>7 DEF OnlyAnswered
<1>9. /\ SidsHandedOut' /\ DevicesOK' /\ SidsPrivate'
      /\ RequestsInService' /\ OneBatchInFlight'
  <2>1. \A b \in landed' : b.sid < nextSid
    BY <1>2 DEF ProtocolInv, SidsHandedOut
  <2> QED
    BY <1>1, <1>2, <1>4, <1>5, <1>6, <1>8, <2>1, AnsweredWithoutSession
<1>10. HandlersFitSession'
  BY <1>2, <1>4, <1>5, IdleFacts
  DEF HandlersFitSession, ProtocolInv, TypeOK, Serves
<1>11. SessionFollowsDevice'
  <2> SUFFICES ASSUME NEW d \in Devices, dev'[d].sid = sid
               PROVE  /\ session'.state = StateOf(dev'[d].phase)
                      /\ session'.seq = dev'[d].seq
                      /\ Outdated(dev'[d])
    BY <1>4 DEF SessionFollowsDevice
  <2>1. /\ dev'[d].req.type = "pull"
        /\ p.queue = {} => dev'[d].phase = "either" /\ dev'[d].seq = 1
        /\ p.queue # {} => /\ dev'[d].phase = "pull"
                           /\ dev'[d].seq = p.req.seq + 1
                           /\ dev'[d].req.seq = p.req.seq
    BY <1>7
  <2>2. p.req.seq # p.req.seq + 1
    BY <1>1 DEF PullProc, Request
  <2> QED
    BY <1>4, <2>1, <2>2 DEF StateOf, Outdated
<1>12. LandedInSession' /\ BatchesOfASessionDisjoint'
  BY <1>2, <1>3, <1>4 DEF ProtocolInv, LandedInSession, BatchesOfASessionDisjoint
<1> QED
  BY <1>9, <1>10, <1>11, <1>12 DEF ProtocolInv

LEMMA ProtocolPullStep ==
    ASSUME ProtocolInv, TypeOK', NEW g \in Procs, PullStep(g)
    PROVE  ProtocolInv'
<1>1. CASE PullQuery(g)
  BY <1>1, ProtocolPullQuery
<1>2. CASE PullSave(g)
  <2> DEFINE result == IF pull[g].queue = {}
                       THEN MarkPullFinishedResult(session, pull[g].req.sid)
                       ELSE UpdatePullProgressResult(session, pull[g].req.sid)
  <2>1. CASE result = "ok"
    <3>1. session.sid = pull[g].req.sid
      BY <2>1 DEF MarkPullFinishedResult, UpdatePullProgressResult
    <3> QED
      BY <1>2, <2>1, <3>1, ProtocolPullSaved DEF PullSave
  <2>2. CASE result # "ok"
    BY <1>2, <2>2, ProtocolBatchFails DEF PullSave
  <2> QED
    BY <2>1, <2>2
<1>3. CASE PullFail(g)
  BY <1>3, ProtocolBatchFails DEF PullFail
<1> QED
  BY <1>1, <1>2, <1>3 DEF PullStep

-----------------------------------------------------------------------------
(* A batch commits: its session may be gone, and may even be another's.    *)
LEMMA ProtocolPushCommit ==
    ASSUME ProtocolInv, TypeOK', NEW g \in Procs, PushCommit(g)
    PROVE  ProtocolInv'
<1> DEFINE p == push[g]
           sid == push[g].req.sid
           new == [sid |-> p.req.sid, seq |-> p.req.seq,
                   lo |-> p.start, hi |-> p.start + p.req.n]
<1>1. /\ Busy(p) /\ p \in PushProc /\ InService(p, "push", dev) /\ sid # NoSid
      /\ p.dev \in Devices
  <2>1. Busy(p) /\ p \in PushProc /\ InService(p, "push", dev)
    BY DEF PushCommit, ProtocolInv, TypeOK, RequestsInService
  <2>2. p.dev \in Devices
    BY <2>1, BusyDevice DEF PushProc
  <2> QED
    BY <2>1, <2>2 DEF InService
<1>2. /\ push' = [push EXCEPT ![g] = IdlePush] /\ landed' = landed \union {new}
      /\ Answer(p.dev, p.req, Assigned(dev[p.dev], p))
      /\ UNCHANGED <<session, nextSid, hsk, pull, fin>>
  BY DEF PushCommit
<1>3. p.start \in Nat /\ p.req.n \in Nat /\ p.req.seq \in Nat
  BY <1>1 DEF PushProc, Request
<1>4. session.sid = sid => /\ session.state = "Pushing"
                           /\ session.seq = p.req.seq + 1
                           /\ session.cursor = p.start + p.req.n
  BY <1>1 DEF ProtocolInv, HandlersFitSession, Serves
<1>5. ASSUME NEW h \in Procs
      PROVE  ~Serves(pull[h], sid) /\ (h # g => ~Serves(push[h], sid))
  BY <1>1 DEF ProtocolInv, OneBatchInFlight, Serves
<1>6. BatchDone(sid)
  BY <1>2, <1>5 DEF BatchDone, ProtocolInv, TypeOK
<1>7. ASSUME NEW d \in Devices
      PROVE  \/ dev'[d] = dev[d] /\ dev[d].sid # sid
             \/ /\ dev[d].sid = sid /\ dev[d].waiting
                /\ dev'[d].req = dev[d].req /\ dev'[d].sid = dev[d].sid
                /\ ~dev'[d].waiting /\ dev'[d].req.type = "push"
                /\ dev'[d].phase = "push"
                /\ dev'[d].seq = p.req.seq + 1 /\ dev'[d].req.seq = p.req.seq
  <2>1. CASE dev[d].sid = sid
    <3>1. /\ d = p.dev /\ dev[d].req = p.req /\ dev[d].waiting /\ dev[d] \in Device
          /\ dev[d].req.type = "push"
      BY <1>1, <2>1, ServesWaitingDevice DEF ProtocolInv, TypeOK
    <3>2. dev'[d] = Assigned(dev[d], p)
      BY <1>2, <3>1 DEF Answer, ProtocolInv, TypeOK
    <3>3. dev[d].seq = p.req.seq
      BY <3>1 DEF ProtocolInv, DevicesOK, DeviceOK
    <3> HIDE DEF p
    <3>4. /\ dev'[d].req = dev[d].req /\ dev'[d].sid = dev[d].sid /\ ~dev'[d].waiting
          /\ dev'[d].phase = "push" /\ dev'[d].seq = dev[d].seq + 1
      BY <3>1, <3>2 DEF Device, Assigned
    <3> QED
      BY <2>1, <3>1, <3>3, <3>4
  <2>2. CASE dev[d].sid # sid
    <3>1. CASE d = p.dev /\ dev[d].waiting /\ dev[d].req = p.req
      BY <2>2, <3>1 DEF ProtocolInv, DevicesOK, DeviceOK
    <3>2. CASE ~(d = p.dev /\ dev[d].waiting /\ dev[d].req = p.req)
      BY <1>1, <1>2, <2>2, <3>2 DEF Answer, ProtocolInv, TypeOK
    <3> QED
      BY <3>1, <3>2
  <2> QED
    BY <2>1, <2>2
<1>8. OnlyAnswered(sid)
  BY <1>7 DEF OnlyAnswered
<1>9. /\ SidsHandedOut' /\ DevicesOK' /\ SidsPrivate'
      /\ RequestsInService' /\ OneBatchInFlight'
  <2>1. \A b \in landed' : b.sid < nextSid
    BY <1>2 DEF ProtocolInv, SidsHandedOut
  <2>2. UNCHANGED dev \/ \A h \in Procs : ~Serves(fin[h], sid)
    <3>1. CASE \E d \in Devices : dev[d].sid = sid
      <4>1. PICK d \in Devices : dev[d].sid = sid
        BY <3>1
      <4>2. dev[d].req.type = "push"
        BY <1>1, <4>1, ServesWaitingDevice
      <4>3. ASSUME NEW h \in Procs, Serves(fin[h], sid) PROVE FALSE
        <5>1. dev[d].req.type = "finishSync"
          BY <4>1, <4>3, ServesWaitingDevice DEF ProtocolInv, RequestsInService, Serves
        <5> QED
          BY <4>2, <5>1
      <4> QED
        BY <4>3
    <3>2. CASE \A d \in Devices : dev[d].sid # sid
      <4>1. \A d \in Devices : dev'[d] = dev[d]
        BY <1>7, <3>2
      <4> QED
        BY <4>1 DEF ProtocolInv, TypeOK
    <3> QED
      BY <3>1, <3>2
  <2> QED
    BY <1>1, <1>2, <1>6, <1>8, <2>1, <2>2, AnsweredWithoutSession
<1>10. HandlersFitSession'
  BY <1>2, IdleFacts DEF HandlersFitSession, ProtocolInv, TypeOK, Serves
<1>11. SessionFollowsDevice'
  <2> SUFFICES ASSUME NEW d \in Devices,
                      dev'[d].sid # NoSid, dev'[d].sid = session.sid, ~Claimed(d)'
               PROVE  /\ session.state = StateOf(dev'[d].phase)
                      /\ session.seq = dev'[d].seq
                      /\ ~dev'[d].waiting => Outdated(dev'[d])
    BY <1>2 DEF SessionFollowsDevice
  <2>1. CASE session.sid = sid
    BY <1>3, <1>4, <1>7, <2>1 DEF StateOf, Outdated
  <2>2. CASE session.sid # sid
    <3>1. dev'[d] = dev[d]
      BY <1>7, <2>2
    <3>2. ~Claimed(d)
      <4>1. \A h \in Procs : Serves(push[h], dev[d].sid) => Serves(push'[h], dev[d].sid)
        BY <1>2, <2>2, <3>1 DEF Serves, ProtocolInv, TypeOK
      <4> QED
        BY <1>2, <3>1, <4>1 DEF Claimed
    <3> QED
      BY <3>1, <3>2 DEF ProtocolInv, SessionFollowsDevice
  <2> QED
    BY <2>1, <2>2
<1>12. new.sid = sid /\ new.seq = p.req.seq /\ new.lo = p.start /\ new.hi = p.start + p.req.n
  OBVIOUS
<1>13. \A b \in landed : b.sid = sid => b.seq < p.req.seq /\ b.hi <= p.start
  BY <1>1 DEF ProtocolInv, LandedInSession, Serves
<1> HIDE DEF new
<1>14. LandedInSession'
  <2>1. \A h \in Procs : Busy(push'[h]) => push'[h] = push[h] /\ push[h].req.sid # sid
    BY <1>6, IdleFacts DEF BatchDone, Serves
  <2>2. ASSUME NEW b \in landed
        PROVE  /\ b.sid # NoSid
               /\ b.sid = session.sid => /\ session.state \in {"Pushing", "AwaitingFinish"}
                                         /\ b.seq < session.seq
                                         /\ b.hi <= session.cursor
               /\ \A h \in Procs : Serves(push'[h], b.sid) =>
                     b.seq < push'[h].req.seq /\ b.hi <= push'[h].start
    BY <2>1 DEF ProtocolInv, LandedInSession, Serves
  <2>3. /\ new.sid # NoSid
        /\ new.sid = session.sid => /\ session.state \in {"Pushing", "AwaitingFinish"}
                                    /\ new.seq < session.seq
                                    /\ new.hi <= session.cursor
        /\ \A h \in Procs : ~Serves(push'[h], new.sid)
    BY <1>1, <1>3, <1>4, <1>12, <2>1 DEF Serves
  <2> QED
    BY <1>2, <2>2, <2>3 DEF LandedInSession
<1>15. BatchesOfASessionDisjoint'
  <2>1. ASSUME NEW b \in landed, b.sid = new.sid
        PROVE  b.seq # new.seq /\ b.hi <= new.lo
    <3>1. b \in Batch
      BY DEF ProtocolInv, TypeOK
    <3> QED
      BY <1>3, <1>12, <1>13, <2>1, <3>1 DEF Batch
  <2> QED
    BY <1>2, <2>1 DEF ProtocolInv, BatchesOfASessionDisjoint
<1> QED
  BY <1>9, <1>10, <1>11, <1>14, <1>15 DEF ProtocolInv

LEMMA ProtocolPushStep ==
    ASSUME ProtocolInv, TypeOK', NEW g \in Procs, PushStep(g)
    PROVE  ProtocolInv'
<1>1. CASE \E e \in Entities : PushUpsert(g, e) \/ PushDelete(g, e)
  BY <1>1, ProtocolPushStatement
<1>2. CASE PushCommit(g)
  BY <1>2, ProtocolPushCommit
<1>3. CASE PushFail(g)
  BY <1>3, ProtocolBatchFails DEF PushFail
<1> QED
  BY <1>1, <1>2, <1>3 DEF PushStep

-----------------------------------------------------------------------------
LEMMA ProtocolFinishPush ==
    ASSUME ProtocolInv, TypeOK', NEW d \in Devices, FinishPush(d)
    PROVE  ProtocolInv'
<1> DEFINE r == dev[d].req
<1>1. r.type = "finishPush" /\ UNCHANGED <<nextSid, hsk, pull, push, fin, landed>>
  BY DEF FinishPush, Arrives, hdlVars
<1>2. CASE MarkPushFinishedResult(session, r.sid, r.seq) # "ok"
  BY <1>2, ProtocolRefused DEF FinishPush
<1>3. CASE MarkPushFinishedResult(session, r.sid, r.seq) = "ok"
  <2>1. /\ session.sid = r.sid /\ r.sid # NoSid
        /\ session.state = "Pushing" /\ session.seq = r.seq
    BY <1>3 DEF MarkPushFinishedResult
  <2>2. /\ session'.sid = session.sid /\ session'.state = "AwaitingFinish"
        /\ session'.seq = session.seq /\ session'.cursor = session.cursor
    BY <1>3 DEF FinishPush, PushFinished, ProtocolInv, TypeOK, Session
  <2>3. Answer(d, r, [dev[d] EXCEPT !.phase = "finish", !.waiting = FALSE])
    BY <1>3 DEF FinishPush
  <2>4. ASSUME NEW h \in Procs
        PROVE  /\ ~Serves(pull[h], r.sid) /\ ~Serves(push[h], r.sid)
               /\ ~Serves(fin[h], r.sid)
    BY <1>1, ServesLastRequest
  <2>5. ASSUME NEW e \in Devices, dev[e].sid = r.sid
        PROVE  e = d /\ dev[e].waiting
    <3>1. e = d
      BY <2>1, <2>5 DEF ProtocolInv, SidsPrivate, KnownTo
    <3>2. ASSUME ~dev[d].waiting PROVE FALSE
      <4>1. ~Claimed(d)
        BY <2>4, <2>5, <3>1 DEF Claimed
      <4>2. session.state = StateOf(dev[d].phase) /\ Outdated(dev[d])
        BY <2>1, <2>5, <3>1, <3>2, <4>1 DEF ProtocolInv, SessionFollowsDevice
      <4> QED
        BY <1>1, <2>1, <4>2 DEF StateOf, Outdated
    <3> QED
      BY <3>1, <3>2
  <2>6. ASSUME NEW e \in Devices
        PROVE  \/ dev'[e] = dev[e] /\ dev[e].sid # r.sid
               \/ /\ dev[e].sid = r.sid /\ dev[e].waiting
                  /\ dev'[e].req = dev[e].req /\ dev'[e].sid = dev[e].sid
                  /\ ~dev'[e].waiting /\ dev'[e].req.type = "finishPush"
                  /\ dev'[e].phase = "finish" /\ dev'[e].seq = r.seq
    <3>1. CASE dev[e].sid = r.sid
      <4>1. e = d /\ dev[d].waiting /\ dev[d] \in Device
        BY <2>5, <3>1 DEF ProtocolInv, TypeOK
      <4>2. dev'[d] = [dev[d] EXCEPT !.phase = "finish", !.waiting = FALSE]
        BY <2>3, <4>1 DEF Answer, ProtocolInv, TypeOK
      <4>3. dev[d].seq = r.seq
        BY <1>1, <4>1 DEF ProtocolInv, DevicesOK, DeviceOK
      <4>4. /\ dev'[d].req = r /\ dev'[d].sid = dev[d].sid /\ ~dev'[d].waiting
            /\ dev'[d].phase = "finish" /\ dev'[d].seq = dev[d].seq
        BY <4>1, <4>2 DEF Device
      <4> QED
        BY <1>1, <3>1, <4>1, <4>3, <4>4
    <3>2. CASE dev[e].sid # r.sid
      <4>1. CASE e = d /\ dev[d].waiting
        BY <3>2, <4>1 DEF ProtocolInv, DevicesOK, DeviceOK
      <4>2. CASE ~(e = d /\ dev[d].waiting)
        BY <2>3, <3>2, <4>2 DEF Answer, ProtocolInv, TypeOK
      <4> QED
        BY <4>1, <4>2
    <3> QED
      BY <3>1, <3>2
  <2> HIDE DEF r
  <2>7. OnlyAnswered(r.sid) /\ BatchDone(r.sid)
    BY <1>1, <2>4, <2>6 DEF OnlyAnswered, BatchDone
  <2>8. /\ SidsHandedOut' /\ DevicesOK' /\ SidsPrivate'
        /\ RequestsInService' /\ OneBatchInFlight'
    <3>1. \A b \in landed' : b.sid < nextSid
      BY <1>1 DEF ProtocolInv, SidsHandedOut
    <3> QED
      BY <1>1, <2>1, <2>2, <2>4, <2>7, <3>1, AnsweredWithoutSession
  <2>9. HandlersFitSession'
    BY <1>1, <2>1, <2>2, <2>4 DEF HandlersFitSession
  <2>10. SessionFollowsDevice'
    <3>1. ASSUME NEW e \in Devices, dev'[e].sid = session'.sid
          PROVE  /\ session'.state = StateOf(dev'[e].phase)
                 /\ session'.seq = dev'[e].seq
                 /\ Outdated(dev'[e])
      BY <2>1, <2>2, <2>6, <3>1 DEF StateOf, Outdated
    <3> QED
      BY <3>1 DEF SessionFollowsDevice
  <2>11. LandedInSession' /\ BatchesOfASessionDisjoint'
    BY <1>1, <2>2 DEF ProtocolInv, LandedInSession, BatchesOfASessionDisjoint
  <2> QED
    BY <2>8, <2>9, <2>10, <2>11 DEF ProtocolInv
<1> QED
  BY <1>2, <1>3

-----------------------------------------------------------------------------
(* A FinishSync that passes its check is the last request of its device.   *)
LEMMA ProtocolFinCheck ==
    ASSUME ProtocolInv, TypeOK', NEW g \in Procs, NEW d \in Devices, FinCheck(g, d)
    PROVE  ProtocolInv'
<1> DEFINE r == dev[d].req
           new == [IdleFin EXCEPT !.dev = d, !.req = r]
<1>1. /\ r.type = "finishSync"
      /\ UNCHANGED <<session, nextSid, hsk, pull, push, landed>>
  BY DEF FinCheck, Arrives
<1>2. CASE CheckFinishResult(session, r.sid) # "ok"
  BY <1>1, <1>2, ProtocolRefused DEF FinCheck, hdlVars
<1>3. CASE CheckFinishResult(session, r.sid) = "ok"
  <2>1. /\ session.sid = r.sid /\ r.sid # NoSid
        /\ session.state \in {"AwaitingPushOrFinish", "AwaitingFinish"}
    BY <1>3 DEF CheckFinishResult
  <2>2. fin' = [fin EXCEPT ![g] = new] /\ UNCHANGED dev
    BY <1>3 DEF FinCheck
  <2>3. new.dev = d /\ new.req = r
    BY DEF IdleFin
  <2> HIDE DEF new
  <2>4. \A h \in Procs : fin'[h] = IF h = g THEN new ELSE fin[h]
    BY <2>2 DEF ProtocolInv, TypeOK
  <2>5. ASSUME NEW e \in Devices
        PROVE  /\ KnownTo(dev[e], r.sid) => e = d
               /\ dev[e].sid = r.sid => dev[e].waiting
    <3>1. KnownTo(dev[e], r.sid) => e = d
      BY <2>1 DEF ProtocolInv, SidsPrivate
    <3>2. ASSUME dev[e].sid = r.sid, ~dev[e].waiting PROVE FALSE
      <4>1. e = d
        BY <3>1, <3>2 DEF KnownTo
      <4>2. ~Claimed(d)
        BY <1>1, <3>2, <4>1, ServesLastRequest DEF Claimed
      <4>3. Outdated(dev[d])
        BY <2>1, <3>2, <4>1, <4>2 DEF ProtocolInv, SessionFollowsDevice
      <4> QED
        BY <1>1, <4>3 DEF Outdated
    <3> QED
      BY <3>1, <3>2
  <2>6. InService(new, "finishSync", dev)
    BY <1>1, <2>1, <2>3, <2>5 DEF InService
  <2>7. RequestsInService'
    BY <1>1, <2>2, <2>4, <2>6 DEF ProtocolInv, RequestsInService
  <2>8. SidsHandedOut'
    BY <1>1, <2>2, <2>3, <2>4 DEF ProtocolInv, SidsHandedOut
  <2>9. DevicesOK' /\ SidsPrivate' /\ OneBatchInFlight' /\ LandedInSession'
        /\ BatchesOfASessionDisjoint'
    BY <1>1, <2>2 DEF ProtocolInv, DevicesOK, SidsPrivate, OneBatchInFlight,
                      LandedInSession, BatchesOfASessionDisjoint
  <2>10. HandlersFitSession'
    BY <1>1, <2>1, <2>4 DEF ProtocolInv, HandlersFitSession
  <2>11. SessionFollowsDevice'
    BY <1>1, <2>2 DEF ProtocolInv, SessionFollowsDevice, Claimed
  <2> QED
    BY <2>7, <2>8, <2>9, <2>10, <2>11 DEF ProtocolInv
<1> QED
  BY <1>2, <1>3

LEMMA ProtocolFinStep ==
    ASSUME ProtocolInv, TypeOK', NEW g \in Procs, FinStep(g)
    PROVE  ProtocolInv'
<1>1. UNCHANGED <<nextSid, hsk, pull, push, landed>>
  BY DEF FinStep, FinUpdateTime, FinRelease, FinFail
<1>2. fin \in [Procs -> FinProc] /\ fin[g] \in FinProc /\ fin[g].dev \in Devices
  <2>1. fin \in [Procs -> FinProc] /\ fin[g] \in FinProc /\ Busy(fin[g])
    BY DEF FinStep, FinUpdateTime, FinRelease, FinFail, ProtocolInv, TypeOK
  <2> QED
    BY <2>1, BusyDevice DEF FinProc
<1>3. ASSUME \A h \in Procs : SameTask(fin'[h], fin[h]) \/ fin'[h] = IdleFin
      PROVE  HandlersKeepOrRetire
  BY <1>1, <1>3, IdleFacts
  DEF HandlersKeepOrRetire, SameTask, ProtocolInv, RequestsInService
<1>4. CASE FinUpdateTime(g)
  <2>1. \A h \in Procs : SameTask(fin'[h], fin[h])
    BY <1>2, <1>4 DEF FinUpdateTime, SameTask, FinProc
  <2>2. DevicesKeepOrGiveUp /\ UNCHANGED session
    BY <1>4 DEF FinUpdateTime, DevicesKeepOrGiveUp
  <2> QED
    BY <1>1, <1>3, <2>1, <2>2, ProtocolFrame
<1>5. CASE FinRelease(g) \/ FinFail(g)
  <2>1. HandlersKeepOrRetire
    <3>1. \A h \in Procs : SameTask(fin'[h], fin[h]) \/ fin'[h] = IdleFin
      BY <1>2, <1>5 DEF FinRelease, FinFail, SameTask
    <3> QED
      BY <1>3, <3>1
  <2>2. AnswerError(fin[g].dev, fin[g].req)
    BY <1>5 DEF FinRelease, FinFail, AnswerError
  <2>3. DevicesKeepOrGiveUp
    BY <1>2, <2>2, AnswerErrorGivesUp
  <2>4. UNCHANGED session \/ session' = NoSession
    BY <1>5 DEF FinRelease, FinFail
  <2> QED
    BY <1>1, <2>1, <2>3, <2>4, ProtocolFrame, ProtocolSessionEnds
<1> QED
  BY <1>4, <1>5 DEF FinStep

LEMMA ProtocolExpire ==
    ASSUME ProtocolInv, TypeOK', Expire
    PROVE  ProtocolInv'
<1>1. DevicesKeepOrGiveUp /\ HandlersKeepOrRetire
  BY DEF Expire, hdlVars, DevicesKeepOrGiveUp, HandlersKeepOrRetire, SameTask,
         ProtocolInv, RequestsInService
<1> QED
  BY <1>1, ProtocolSessionEnds DEF Expire

LEMMA ProtocolNext ==
    ASSUME ProtocolInv, TypeOK', [Next]_vars
    PROVE  ProtocolInv'
<1>1. CASE \E d \in Devices : DeviceStep(d)
  BY <1>1, ProtocolDevice
<1>2. CASE \E g \in Procs, d \in Devices : RequestStep(g, d)
  BY <1>2, ProtocolHskRead, ProtocolClaims, ProtocolFinishPush, ProtocolFinCheck
  DEF RequestStep
<1>3. CASE \E g \in Procs : HskStep(g) \/ PullStep(g) \/ PushStep(g) \/ FinStep(g)
  BY <1>3, ProtocolHskStep, ProtocolPullStep, ProtocolPushStep, ProtocolFinStep
<1>4. CASE Expire
  BY <1>4, ProtocolExpire
<1>5. CASE UNCHANGED vars
  <2>1. UNCHANGED <<session, nextSid, hsk, pull, push, fin, dev, landed>>
    BY <1>5 DEF vars, hdlVars
  <2>2. DevicesKeepOrGiveUp /\ HandlersKeepOrRetire
    BY <2>1 DEF DevicesKeepOrGiveUp, HandlersKeepOrRetire, SameTask, ProtocolInv,
                RequestsInService
  <2> QED
    BY <2>1, <2>2, ProtocolFrame
<1> QED
  BY <1>1, <1>2, <1>3, <1>4, <1>5 DEF Next

(* Devices, handlers and the session fit together as ProtocolInv says,     *)
(* whatever the timing: claim_pull_batch.lua and claim_push_batch.lua      *)
(* accept a request only when its device waits for it and nobody serves it.*)
THEOREM ProtocolCorrect == Spec => []ProtocolInv
<1>1. ProtocolInv /\ [Next]_vars => ProtocolInv'
  BY TypeNext, ProtocolNext DEF ProtocolInv
<1> QED
  BY <1>1, ProtocolInit, PTL DEF Spec

(* However often and however late a request arrives, and even when its     *)
(* session has expired, no second handler runs a batch of the session      *)
(* beside the first.                                                       *)
THEOREM OneBatch == Spec => []OneBatchInFlight
<1>1. ProtocolInv => OneBatchInFlight
  BY DEF ProtocolInv
<1> QED
  BY <1>1, ProtocolCorrect, PTL

(* Every batch of a session commits at most once, in a USN range that no   *)
(* other batch of the session gets.                                        *)
THEOREM BatchesDisjoint == Spec => []BatchesOfASessionDisjoint
<1>1. ProtocolInv => BatchesOfASessionDisjoint
  BY DEF ProtocolInv
<1> QED
  BY <1>1, ProtocolCorrect, PTL
=============================================================================
