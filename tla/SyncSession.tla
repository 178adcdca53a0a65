---------------------------- MODULE SyncSession ----------------------------
(***************************************************************************)
(* The synchronisation session of one user: the Redis hash                 *)
(* sync:{userID}:sync_lock, which is both the user's sync lock and the     *)
(* progress of the sync that holds it, and the Lua scripts that are its    *)
(* only readers and writers.  Redis runs a script atomically, so a script  *)
(* is a pair of operators: the code it returns for a session value and a   *)
(* request (the order of its tests is the order of its returns), and the   *)
(* session it leaves when that code is "ok".                               *)
(*                                                                         *)
(* Every successful script also renews the 60 s TTL.  The TTL itself is    *)
(* not a number here: a session may vanish whenever SyncServer says it may.*)
(***************************************************************************)
EXTENDS Integers, FiniteSets

(***************************************************************************)
(* The entity types, in the order in which a pull walks through them:      *)
(* collection, deck, note_type, processing_note, note, card, review_log.   *)
(***************************************************************************)
Types == 1..7

SessionStates == {"Unspecified", "Pulling", "Pushing", "AwaitingPushOrFinish",
                  "AwaitingFinish", "AwaitingUploadAllConfirm"}

(***************************************************************************)
(* Session identifiers are random 16-byte strings; here a counter hands    *)
(* them out, which is what "never reused" means.  0 stands for no session. *)
(*                                                                         *)
(* pull_entity_queue is a set: the queue is created in ascending type      *)
(* order and only ever loses its head, so the set of the types left        *)
(* determines it.  hasQueue tells whether the hash has the field at all.   *)
(***************************************************************************)
NoSid == 0

Session == [sid: Nat, state: SessionStates, seq: Nat, cursor: Nat,
            cliAt: Nat, srvAt: Nat, queue: SUBSET Types, hasQueue: BOOLEAN]

NoSession == [sid |-> NoSid, state |-> "Unspecified", seq |-> 0, cursor |-> 0,
              cliAt |-> 0, srvAt |-> 0, queue |-> {}, hasQueue |-> FALSE]

-----------------------------------------------------------------------------
\* Mutant: an existing session is overwritten.
CreateAlwaysOk(s) == "ok"

(* create_session.lua: the session is the lock, so creation is refused     *)
(* while one exists; only a pulling session gets the queue field.          *)
CreateSessionResult(s) == IF s.sid # NoSid THEN "exists" ELSE "ok"

CreatedSession(sid, state, cursor, cliAt, srvAt, queue) ==
    [sid |-> sid, state |-> state, seq |-> 1, cursor |-> cursor,
     cliAt |-> cliAt, srvAt |-> srvAt,
     queue |-> IF state = "Pulling" THEN queue ELSE {},
     hasQueue |-> state = "Pulling"]

(* claim_pull_batch.lua *)
ClaimPullResult(s, sid, seq) ==
    IF s.sid = NoSid \/ ~s.hasQueue THEN "notFound"
    ELSE IF s.sid # sid THEN "idMismatch"
    ELSE IF s.state # "Pulling" THEN "stateMismatch"
    ELSE IF s.seq # seq THEN "seqMismatch"
    ELSE "ok"

PullClaimed(s, seq) == [s EXCEPT !.seq = seq + 1]

(* update_pull_progress.lua: checks the session id and nothing else *)
UpdatePullProgressResult(s, sid) ==
    IF s.sid = NoSid THEN "notFound"
    ELSE IF s.sid # sid THEN "idMismatch"
    ELSE "ok"

PullProgressed(s, queue, cursor) ==
    [s EXCEPT !.queue = queue, !.hasQueue = TRUE, !.cursor = cursor]

(* mark_pull_finished.lua: checks the session id and nothing else *)
MarkPullFinishedResult(s, sid) ==
    IF s.sid = NoSid THEN "notFound"
    ELSE IF s.sid # sid THEN "idMismatch"
    ELSE "ok"

\* Mutant: a state that the Go side does not know.
PullFinishedUnknownState(s) ==
    [s EXCEPT !.cursor = s.srvAt, !.state = "PullDone",
              !.seq = 1, !.queue = {}, !.hasQueue = FALSE]

PullFinished(s) ==
    [s EXCEPT !.cursor = s.srvAt, !.state = "AwaitingPushOrFinish",
              !.seq = 1, !.queue = {}, !.hasQueue = FALSE]

\* Mutant: the sequence number is not compared.
ClaimPushIgnoresSeq(s, sid, seq, n) ==
    IF s.sid = NoSid \/ n <= 0 THEN "notFound"
    ELSE IF s.sid # sid THEN "idMismatch"
    ELSE IF s.state \in {"Pushing", "AwaitingPushOrFinish"} THEN "ok"
    ELSE "stateMismatch"

(* claim_push_batch.lua: reserves the USNs cursor .. cursor + n - 1 *)
ClaimPushResult(s, sid, seq, n) ==
    IF s.sid = NoSid \/ n <= 0 THEN "notFound"
    ELSE IF s.sid # sid THEN "idMismatch"
    ELSE IF s.state = "Pushing"
         THEN IF s.seq # seq THEN "seqMismatch" ELSE "ok"
    ELSE IF s.state = "AwaitingPushOrFinish"
         THEN IF s.seq # 1 \/ seq # 1 THEN "seqMismatch" ELSE "ok"
    ELSE "stateMismatch"

\* Mutant: the USNs are not reserved.
PushClaimedReservesNone(s, seq, n) ==
    [s EXCEPT !.state = "Pushing", !.seq = seq + 1]

\* Mutant: one USN too many is reserved.
PushClaimedOneMore(s, seq, n) ==
    [s EXCEPT !.state = "Pushing", !.seq = seq + 1, !.cursor = s.cursor + n + 1]

\* Mutant: the expected sequence number is not moved.
PushClaimedKeepsSeq(s, seq, n) ==
    [s EXCEPT !.state = "Pushing", !.cursor = s.cursor + n]

PushClaimed(s, seq, n) ==
    [s EXCEPT !.state = "Pushing", !.seq = seq + 1, !.cursor = s.cursor + n]

(* mark_push_finished.lua: the state moves on, the sequence number stays *)
MarkPushFinishedResult(s, sid, seq) ==
    IF s.sid = NoSid THEN "notFound"
    ELSE IF s.sid # sid THEN "idMismatch"
    ELSE IF s.state # "Pushing" THEN "stateMismatch"
    ELSE IF s.seq # seq THEN "seqMismatch"
    ELSE "ok"

PushFinished(s) == [s EXCEPT !.state = "AwaitingFinish"]

(* check_finish_session.lua: changes nothing but the TTL *)
CheckFinishResult(s, sid) ==
    IF s.sid = NoSid THEN "notFound"
    ELSE IF s.sid # sid THEN "idMismatch"
    ELSE IF s.state \notin {"AwaitingFinish", "AwaitingPushOrFinish"}
         THEN "stateMismatch"
    ELSE "ok"

\* Mutant: any session is released.
ReleaseAnySession(s, sid) == IF s.sid = NoSid THEN "notFound" ELSE "ok"

(* release_sync_session.lua: deletes the key when the session id matches *)
ReleaseResult(s, sid) ==
    IF s.sid = NoSid THEN "notFound"
    ELSE IF s.sid # sid THEN "idMismatch"
    ELSE "ok"
=============================================================================
