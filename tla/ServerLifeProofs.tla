-------------------------- MODULE ServerLifeProofs --------------------------
(***************************************************************************)
(* Theorems of ServerLife, for any number of clients and statements: the   *)
(* shutdown lets down no request and leaves nothing open.                  *)
(***************************************************************************)
EXTENDS ServerLife, TLAPS

(* One step of the specification, split into its actions. *)
LEMMA LifeActions ==
    ASSUME [LifeNext]_lifeVars
    PROVE  \/ Listen \/ ConnectMySQL \/ ConnectRedis \/ PrepareStmt \/ StartServing
           \/ TakeSignal \/ TakeErr \/ Drained \/ CloseStmt \/ DbClose \/ Exit
           \/ Signal \/ ServeFails
           \/ \E c \in Clients : Send(c) \/ Accept(c) \/ Receive(c)
           \/ \E c \in Clients : HandlerAnswers(c) \/ HandlerPanics(c) \/ Recover(c)
           \/ UNCHANGED lifeVars
BY DEF LifeNext, MainStep, HandlerStep

(* The process's variables are well-typed, and only a serving process      *)
(* accepts.                                                                *)
THEOREM LifeTypeCorrect == LifeSpec => []LifeTypeOK
<1>1. LifeInit => LifeTypeOK
  BY DEF LifeInit, LifeTypeOK, Phases, RequestStates
<1>2. ASSUME LifeTypeOK, [LifeNext]_lifeVars
      PROVE  LifeTypeOK'
  <2> USE <1>2, ServerLifeAssumption DEF LifeTypeOK, Phases, RequestStates
  <2>1. CASE Listen BY <2>1 DEF Listen
  <2>2. CASE ConnectMySQL BY <2>2 DEF ConnectMySQL
  <2>3. CASE ConnectRedis BY <2>3 DEF ConnectRedis
  <2>4. CASE PrepareStmt
    BY <2>4 DEF PrepareStmt, ClosePrepared
  <2>5. CASE StartServing BY <2>5 DEF StartServing
  <2>6. CASE TakeSignal BY <2>6 DEF TakeSignal, StopAccepting, Refuse
  <2>7. CASE TakeErr BY <2>7 DEF TakeErr
  <2>8. CASE Drained BY <2>8 DEF Drained
  <2>9. CASE CloseStmt BY <2>9 DEF CloseStmt
  <2>10. CASE DbClose BY <2>10 DEF DbClose
  <2>11. CASE Exit BY <2>11 DEF Exit
  <2>12. CASE Signal BY <2>12 DEF Signal
  <2>13. CASE ServeFails BY <2>13 DEF ServeFails
  <2>14. ASSUME NEW c \in Clients, Send(c) \/ Accept(c) \/ Receive(c)
         PROVE  LifeTypeOK'
    BY <2>14 DEF Send, Accept, Receive, Becomes
  <2>15. ASSUME NEW c \in Clients, HandlerAnswers(c) \/ HandlerPanics(c) \/ Recover(c)
         PROVE  LifeTypeOK'
    BY <2>15 DEF HandlerAnswers, HandlerPanics, Recover, Becomes
  <2>16. CASE UNCHANGED lifeVars BY <2>16 DEF lifeVars
  <2>. QED
    BY <2>1, <2>2, <2>3, <2>4, <2>5, <2>6, <2>7, <2>8, <2>9, <2>10, <2>11,
       <2>12, <2>13, <2>14, <2>15, <2>16, LifeActions
<1>. QED BY <1>1, <1>2, PTL DEF LifeSpec

-----------------------------------------------------------------------------
(* LifeInv without its last two conjuncts. *)
OpenInv ==
    /\ phase \in {"listen", "mysql"} => db = "none"
    /\ phase \in {"redis", "prepare", "serve", "drain", "close"} => db = "open"
    /\ phase \in {"listen", "mysql", "redis"} => \A op \in Ops : stmts[op] = "none"
    /\ phase \in {"serve", "drain"} => \A op \in Ops : stmts[op] = "open"
    /\ phase \in {"exit", "exited"} => db # "open"
    /\ phase \in {"drain", "close"} => errCh # "none"
    /\ phase \in {"unwind", "exit", "exited"} /\ errCh = "none"
          => \A op \in Ops : stmts[op] # "open"
    /\ failed => phase \in {"unwind", "exit", "exited"}

LEMMA OpenInvStep ==
    ASSUME LifeTypeOK, OpenInv, [LifeNext]_lifeVars
    PROVE  OpenInv'
<1> USE ServerLifeAssumption DEF LifeTypeOK, OpenInv, Phases
<1>1. CASE Listen BY <1>1 DEF Listen
<1>2. CASE ConnectMySQL BY <1>2 DEF ConnectMySQL
<1>3. CASE ConnectRedis BY <1>3 DEF ConnectRedis
<1>4. CASE PrepareStmt BY <1>4 DEF PrepareStmt, ClosePrepared
<1>5. CASE StartServing BY <1>5 DEF StartServing
<1>6. CASE TakeSignal BY <1>6 DEF TakeSignal, StopAccepting
<1>7. CASE TakeErr BY <1>7 DEF TakeErr
<1>8. CASE Drained BY <1>8 DEF Drained
<1>9. CASE CloseStmt BY <1>9 DEF CloseStmt
<1>10. CASE DbClose BY <1>10 DEF DbClose
<1>11. CASE Exit BY <1>11 DEF Exit
<1>12. CASE Signal BY <1>12 DEF Signal
<1>13. CASE ServeFails BY <1>13 DEF ServeFails
<1>14. ASSUME NEW c \in Clients, Send(c) \/ Accept(c) \/ Receive(c)
       PROVE  OpenInv'
  BY <1>14 DEF Send, Accept, Receive, Becomes
<1>15. ASSUME NEW c \in Clients, HandlerAnswers(c) \/ HandlerPanics(c) \/ Recover(c)
       PROVE  OpenInv'
  BY <1>15 DEF HandlerAnswers, HandlerPanics, Recover, Becomes
<1>16. CASE UNCHANGED lifeVars BY <1>16 DEF lifeVars
<1>. QED
  BY <1>1, <1>2, <1>3, <1>4, <1>5, <1>6, <1>7, <1>8, <1>9, <1>10, <1>11,
     <1>12, <1>13, <1>14, <1>15, <1>16, LifeActions

(* Handlers run only before the drain is over, unless Serve failed, and no *)
(* request is let down.                                                    *)
RequestInv ==
    ~failed =>
        /\ phase \notin {"serve", "drain"} => Running = {}
        /\ \A c \in Clients : req[c] \notin {"lost", "broken"}

LEMMA RequestInvStep ==
    ASSUME LifeTypeOK, OpenInv, RequestInv, [LifeNext]_lifeVars
    PROVE  RequestInv'
<1> USE DEF RequestInv, Running
<1>1. CASE \/ Listen \/ ConnectMySQL \/ ConnectRedis \/ PrepareStmt
           \/ StartServing \/ TakeErr \/ CloseStmt \/ DbClose
  BY <1>1 DEF Listen, ConnectMySQL, ConnectRedis, PrepareStmt, StartServing,
              TakeErr, CloseStmt, DbClose
<1>2. CASE TakeSignal BY <1>2 DEF TakeSignal, StopAccepting, Refuse
<1>3. CASE Drained BY <1>3 DEF Drained, Idle
<1>4. CASE Exit BY <1>4 DEF Exit
<1>5. CASE Signal \/ ServeFails \/ UNCHANGED lifeVars
  BY <1>5 DEF Signal, ServeFails, lifeVars
<1>6. ASSUME NEW c \in Clients, Send(c) \/ Accept(c) \/ Receive(c)
      PROVE  RequestInv'
  BY <1>6 DEF Send, Accept, Receive, Becomes, LifeTypeOK
<1>7. ASSUME NEW c \in Clients, HandlerAnswers(c) \/ HandlerPanics(c) \/ Recover(c)
      PROVE  RequestInv'
  <2>1. ~failed => phase \in {"serve", "drain"} /\ StoresOpen
    BY <1>7 DEF HandlerAnswers, HandlerPanics, Recover, StoresOpen, OpenInv
  <2>2. UNCHANGED <<phase, failed>>
    BY <1>7 DEF HandlerAnswers, HandlerPanics, Recover, Becomes
  <2>3. \/ ~failed => req' = [req EXCEPT ![c] = "answered"]
        \/ req' = [req EXCEPT ![c] = "panicking"] /\ req[c] = "running"
    BY <1>7, <2>1 DEF HandlerAnswers, HandlerPanics, Recover, Becomes
  <2>. QED BY <2>1, <2>2, <2>3 DEF LifeTypeOK
<1>. QED BY <1>1, <1>2, <1>3, <1>4, <1>5, <1>6, <1>7, LifeActions

(* The inductive invariant of the process's life. *)
THEOREM LifeInvariant == LifeSpec => []LifeInv
<1>1. LifeInit => OpenInv /\ RequestInv
  BY DEF LifeInit, OpenInv, RequestInv, Running
<1>2. LifeTypeOK /\ OpenInv /\ RequestInv /\ [LifeNext]_lifeVars
         => OpenInv' /\ RequestInv'
  BY OpenInvStep, RequestInvStep
<1>3. OpenInv /\ RequestInv => LifeInv
  BY DEF OpenInv, RequestInv, LifeInv, NoRequestLost, NothingLeftOpen
<1>. QED BY <1>1, <1>2, <1>3, LifeTypeCorrect, PTL DEF LifeSpec

(* A server whose accept loop does not fail lets down no request, however  *)
(* many clients there are and whenever the signal comes.                   *)
THEOREM ShutdownLosesNothing == LifeSpec => []NoRequestLost
<1>1. LifeInv => NoRequestLost
  BY DEF LifeInv
<1>. QED BY <1>1, LifeInvariant, PTL

(* The process exits with its database closed, and with no open statement  *)
(* when it failed before serving.                                          *)
THEOREM ExitLeavesNothingOpen == LifeSpec => []NothingLeftOpen
<1>1. LifeInv => NothingLeftOpen
  BY DEF LifeInv
<1>. QED BY <1>1, LifeInvariant, PTL
=============================================================================
