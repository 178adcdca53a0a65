----------------------------- MODULE ServerLife -----------------------------
(***************************************************************************)
(* The life of the server process: it connects to MySQL and Redis,         *)
(* prepares the pull statements, serves requests in goroutines, and on a   *)
(* signal drains them, closes the statements and the database and exits.   *)
(* It also exits, at once, when its accept loop fails.                     *)
(*                                                                         *)
(* net/http and database/sql are external: Serve accepts and answers,      *)
(* Shutdown closes the listener and waits until no handler runs.           *)
(***************************************************************************)
EXTENDS Naturals

CONSTANTS
    Clients,   \* connections, each with one request at a time
    NumOps,    \* the number of pull statements
    Faults     \* may calls of the operating system and of MySQL fail?

ASSUME ServerLifeAssumption == NumOps \in Nat \ {0} /\ Faults \in BOOLEAN

Ops == 1 .. NumOps

VARIABLES
    phase,     \* where main is
    db,        \* the sql.DB
    stmts,     \* the statements of PullStmtCache
    signalled, \* ctx.Done(): SIGINT or SIGTERM has come
    accepting, \* the goroutine in httpServer.Serve accepts connections
    errCh,     \* what that goroutine has returned: "none", "closed" or "err"
    req,       \* the request of each client
    failed     \* history: main left the select because of errCh

lifeVars == <<phase, db, stmts, signalled, accepting, errCh, req, failed>>

Phases == {"listen", "mysql", "redis", "prepare", "serve", "drain", "close",
           "unwind", "exit", "exited"}

(* panicking: its handler panicked and has not been recovered yet;         *)
(* refused: never read; lost: the process or the connection ended under    *)
(* its handler; broken: its handler found the stores closed.               *)
RequestStates == {"idle", "sent", "running", "panicking", "answered",
                  "refused", "lost", "broken"}

LifeTypeOK ==
    /\ phase \in Phases
    /\ db \in {"none", "open", "closed"}
    /\ stmts \in [Ops -> {"none", "open", "closed"}]
    /\ signalled \in BOOLEAN /\ accepting \in BOOLEAN /\ failed \in BOOLEAN
    /\ errCh \in {"none", "closed", "err"}
    /\ req \in [Clients -> RequestStates]
    /\ accepting => phase = "serve" /\ errCh = "none"
    /\ phase \in {"listen", "mysql", "redis", "prepare"} => errCh = "none"

LifeInit ==
    /\ phase = "listen" /\ db = "none"
    /\ stmts = [op \in Ops |-> "none"]
    /\ signalled = FALSE /\ accepting = FALSE /\ errCh = "none"
    /\ req = [c \in Clients |-> "idle"]
    /\ failed = FALSE

(* The handlers that Shutdown waits for. *)
Running == {c \in Clients : req[c] \in {"running", "panicking"}}

-----------------------------------------------------------------------------
(* main: Run and Serve.                                                    *)

Listen ==
    /\ phase = "listen"
    /\ phase' = "mysql" \/ (Faults /\ phase' = "exited")
    /\ UNCHANGED <<db, stmts, signalled, accepting, errCh, req, failed>>

(* A ping that fails panics, before db.Close is deferred. *)
ConnectMySQL ==
    /\ phase = "mysql"
    /\ \/ phase' = "redis" /\ db' = "open"
       \/ Faults /\ phase' = "exit" /\ UNCHANGED db
    /\ UNCHANGED <<stmts, signalled, accepting, errCh, req, failed>>

ConnectRedis ==
    /\ phase = "redis"
    /\ phase' = "prepare" \/ (Faults /\ phase' = "unwind")
    /\ UNCHANGED <<db, stmts, signalled, accepting, errCh, req, failed>>

\* Mutant: the statements prepared before the failing one stay open.
PrepareLeaks == UNCHANGED stmts

(* NewPullStmtCache closes what it has prepared when one fails. *)
ClosePrepared ==
    stmts' = [op \in Ops |-> IF stmts[op] = "open" THEN "closed" ELSE stmts[op]]

(* NewPullStmtCache; a failure makes New panic. *)
PrepareStmt ==
    /\ phase = "prepare"
    /\ \E op \in Ops :
          /\ stmts[op] = "none" /\ \A o \in Ops : o < op => stmts[o] = "open"
          /\ \/ stmts' = [stmts EXCEPT ![op] = "open"] /\ UNCHANGED phase
             \/ Faults /\ ClosePrepared /\ phase' = "unwind"
    /\ UNCHANGED <<db, signalled, accepting, errCh, req, failed>>

(* go httpServer.Serve(listener) *)
StartServing ==
    /\ phase = "prepare" /\ \A op \in Ops : stmts[op] = "open"
    /\ phase' = "serve" /\ accepting' = TRUE
    /\ UNCHANGED <<db, stmts, signalled, errCh, req, failed>>

Refuse == req' = [c \in Clients |-> IF req[c] = "sent" THEN "refused" ELSE req[c]]

(* Shutdown closes the listener first: Serve returns ErrServerClosed. *)
StopAccepting ==
    /\ accepting' = FALSE
    /\ errCh' = IF errCh = "none" THEN "closed" ELSE errCh
    /\ Refuse

\* Mutant: GracefulShutdown before Shutdown.
TakeSignalClosesFirst ==
    /\ phase = "serve" /\ signalled
    /\ phase' = "drain"
    /\ StopAccepting
    /\ stmts' = [op \in Ops |-> "closed"]
    /\ UNCHANGED <<db, signalled, failed>>

(* The select, when a signal has come. *)
TakeSignal ==
    /\ phase = "serve" /\ signalled
    /\ phase' = "drain"
    /\ StopAccepting
    /\ UNCHANGED <<db, stmts, signalled, failed>>

(* The select, when Serve has failed; it takes either if both are ready. *)
TakeErr ==
    /\ phase = "serve" /\ errCh = "err"
    /\ phase' = "unwind" /\ failed' = TRUE
    /\ UNCHANGED <<db, stmts, signalled, accepting, errCh, req>>

Idle == Running = {}

\* Mutant: main also waits for Serve to return ErrServerClosed.
DrainedAwaitsServe ==
    /\ phase = "drain" /\ Idle /\ errCh = "closed"
    /\ phase' = "close" \/ (Faults /\ phase' = "unwind")
    /\ UNCHANGED <<db, stmts, signalled, accepting, errCh, req, failed>>

(* Shutdown returns when no handler runs, with the listener's error if     *)
(* closing that had failed; then the statements are left to db.Close.      *)
Drained ==
    /\ phase = "drain" /\ Idle
    /\ phase' = "close" \/ (Faults /\ phase' = "unwind")
    /\ UNCHANGED <<db, stmts, signalled, accepting, errCh, req, failed>>

(* GracefulShutdown closes one statement after the other, also after one   *)
(* that could not be closed cleanly.                                       *)
CloseStmt ==
    /\ phase = "close"
    /\ \E op \in Ops : /\ stmts[op] = "open"
                       /\ \A o \in Ops : o < op => stmts[o] = "closed"
                       /\ stmts' = [stmts EXCEPT ![op] = "closed"]
    /\ phase' = IF \A op \in Ops : stmts'[op] = "closed" THEN "unwind" ELSE "close"
    /\ UNCHANGED <<db, signalled, accepting, errCh, req, failed>>

(* The deferred db.Close closes the connections and what is on them. *)
DbClose ==
    /\ phase = "unwind"
    /\ db' = "closed"
    /\ phase' = "exit"
    /\ UNCHANGED <<stmts, signalled, accepting, errCh, req, failed>>

Exit ==
    /\ phase = "exit"
    /\ phase' = "exited"
    /\ accepting' = FALSE
    /\ req' = [c \in Clients |-> CASE c \in Running -> "lost"
                                   [] req[c] = "sent" -> "refused"
                                   [] OTHER -> req[c]]
    /\ UNCHANGED <<db, stmts, signalled, errCh, failed>>

-----------------------------------------------------------------------------
(* The signal, the accept loop, the handlers and the clients.              *)

Signal ==
    /\ ~signalled /\ phase # "exited"
    /\ signalled' = TRUE
    /\ UNCHANGED <<phase, db, stmts, accepting, errCh, req, failed>>

\* Mutant: the goroutine reports the error and serves on.
ServeFailsAndGoesOn ==
    /\ Faults /\ accepting
    /\ errCh' = "err"
    /\ UNCHANGED <<phase, db, stmts, signalled, accepting, req, failed>>

(* Serve returns an error, which the goroutine puts into errCh. *)
ServeFails ==
    /\ Faults /\ accepting
    /\ accepting' = FALSE /\ errCh' = "err"
    /\ UNCHANGED <<phase, db, stmts, signalled, req, failed>>

Becomes(c, state) ==
    /\ req' = [req EXCEPT ![c] = state]
    /\ UNCHANGED <<phase, db, stmts, signalled, accepting, errCh, failed>>

(* Connections wait in the backlog from Listen on, until Shutdown or the   *)
(* deferred listener.Close.                                                *)
ListenerOpen ==
    \/ accepting
    \/ phase \in {"mysql", "redis", "prepare", "serve"}
    \/ phase \in {"unwind", "exit"} /\ (failed \/ errCh = "none")

Send(c) == ListenerOpen /\ req[c] = "idle" /\ Becomes(c, "sent")

Accept(c) == accepting /\ req[c] = "sent" /\ Becomes(c, "running")

StoresOpen == db = "open" /\ \A op \in Ops : stmts[op] = "open"

(* A handler uses its stores and answers. *)
HandlerAnswers(c) ==
    /\ req[c] = "running" /\ phase # "exited"
    /\ Becomes(c, IF StoresOpen THEN "answered" ELSE "broken")

(* A handler panics under PanicRecovery. *)
HandlerPanics(c) == Faults /\ req[c] = "running" /\ Becomes(c, "panicking")

(* Its deferred recover() ends the panic and answers 500, without a store. *)
Recover(c) == req[c] = "panicking" /\ Becomes(c, "answered")

(* The client has its answer and may send its next request. *)
Receive(c) == req[c] = "answered" /\ Becomes(c, "idle")

-----------------------------------------------------------------------------
MainStep ==
    \/ Listen \/ ConnectMySQL \/ ConnectRedis \/ PrepareStmt \/ StartServing
    \/ TakeSignal \/ TakeErr \/ Drained \/ CloseStmt \/ DbClose \/ Exit

HandlerStep(c) == HandlerAnswers(c) \/ HandlerPanics(c) \/ Recover(c)

LifeNext ==
    \/ MainStep \/ Signal \/ ServeFails
    \/ \E c \in Clients : Send(c) \/ Accept(c) \/ HandlerStep(c) \/ Receive(c)

LifeSpec == LifeInit /\ [][LifeNext]_lifeVars

(* main goes on, and every handler ends: the calls they make return.       *)
LifeFairSpec ==
    /\ LifeSpec
    /\ WF_lifeVars(MainStep)
    /\ \A c \in Clients : WF_lifeVars(HandlerStep(c))

-----------------------------------------------------------------------------
(* Unless its accept loop fails, the server lets down no request that it   *)
(* has begun to handle: the stores outlive every handler, a panic is       *)
(* answered, and the process exits after the last answer.                  *)
NoRequestLost ==
    ~failed => \A c \in Clients : req[c] \notin {"lost", "broken"}

(* Whatever fails on the way, the process leaves no database open, and no  *)
(* statement either unless it left Serve with an error: a failing Prepare  *)
(* closes the statements before it.                                        *)
NothingLeftOpen ==
    phase = "exited" =>
        /\ db # "open"
        /\ errCh = "none" => \A op \in Ops : stmts[op] # "open"

(* A signal ends the process, whenever it comes: during the start, while   *)
(* clients keep sending, or together with a failure of the accept loop.    *)
SignalExits == signalled ~> phase = "exited"

-----------------------------------------------------------------------------
(* The inductive invariant behind the first two: what is open in which     *)
(* phase, and that nobody runs once the listener is closed and drained.    *)
LifeInv ==
    /\ phase \in {"listen", "mysql"} => db = "none"
    /\ phase \in {"redis", "prepare", "serve", "drain", "close"} => db = "open"
    /\ phase \in {"listen", "mysql", "redis"} => \A op \in Ops : stmts[op] = "none"
    /\ phase \in {"serve", "drain"} => \A op \in Ops : stmts[op] = "open"
    /\ phase \in {"exit", "exited"} => db # "open"
    /\ phase \in {"drain", "close"} => errCh # "none"
    /\ phase \in {"unwind", "exit", "exited"} /\ errCh = "none"
          => \A op \in Ops : stmts[op] # "open"
    /\ ~failed /\ phase \notin {"serve", "drain"} => Running = {}
    /\ failed => phase \in {"unwind", "exit", "exited"}
    /\ NoRequestLost
    /\ NothingLeftOpen
=============================================================================
