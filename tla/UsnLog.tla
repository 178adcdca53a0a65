------------------------------- MODULE UsnLog -------------------------------
(***************************************************************************)
(* What the sync service promises about one user's USNs, without handlers, *)
(* requests or tables: a log of batches behind a lock.  Whoever holds the  *)
(* lock appends at the end; the log may skip USNs (a batch that was        *)
(* claimed and never committed) but never goes back and never reuses one.  *)
(***************************************************************************)
EXTENDS Integers

VARIABLES
    holder,   \* the session that holds the lock, 0 for none
    last,     \* the last session id handed out
    end,      \* the next USN a handshake would report
    log       \* the batches appended: session, sequence number, range of USNs

logVars == <<holder, last, end, log>>

LogInit ==
    /\ holder = 0
    /\ last = 0
    /\ end \in Nat \ {0}
    /\ log = {}

Acquire ==
    /\ holder = 0
    /\ last' = last + 1
    /\ holder' = last'
    /\ UNCHANGED <<end, log>>

Release ==
    /\ holder # 0
    /\ holder' = 0
    /\ UNCHANGED <<last, end, log>>

Append ==
    /\ holder # 0
    /\ \E b \in log' :
          /\ log' = log \union {b}
          /\ b.sid = holder
          /\ end <= b.lo /\ b.lo < b.hi /\ b.hi = end'
    /\ UNCHANGED <<holder, last>>

LogNext == Acquire \/ Release \/ Append

LogSpec == LogInit /\ [][LogNext]_logVars
=============================================================================
