----------------------------- MODULE PullBatch -----------------------------
(***************************************************************************)
(* One whole pull, row by row: the loop of GetChangesSinceUSN, the seven   *)
(* collectors with their limits in rows and bytes, and the responses they  *)
(* fill.  It has the variables of PullPages, which it implements, and its  *)
(* own: where the handler is, the running query, the collector.            *)
(* SyncServer has the session, the faults and the other devices around it; *)
(* the session's lock keeps the rows as they are meanwhile.                *)
(***************************************************************************)
EXTENDS PullPages, Sequences, FiniteSets, SequencesExt

CONSTANTS
    Databases,    \* the sets of rows that a user may have
    MaxBatchSize, \* capacity of a response, in bytes
    Limit,        \* rows of a query, for each type
    Faults        \* may MySQL or the session fail?

VARIABLES
    pc,      \* where the Pull handler is
    unread,  \* the rows of the running query that are still to be read
    count,   \* the rows taken from it
    last,    \* SyncCursorUsn of its CollectResult
    resp,    \* syncChanges of the collector
    size,    \* actualSize of the collector
    maxUsn,  \* maxUSN of the collector
    sent     \* the responses

queryVars     == <<unread, count, last>>
collectorVars == <<resp, size, maxUsn>>
batchVars     == <<pageVars, pc, queryVars, collectorVars, sent>>

Collection == 1
Deck == 2
NoteType == 3
ProcessingNote == 4
Note == 5
Card == 6
ReviewLog == 7

(* A row; text is the length of its texts in bytes. *)
IsRow(r) ==
    /\ DOMAIN r = {"type", "usn", "deleted", "text"}
    /\ r.type \in Types /\ r.usn \in Nat \ {0}
    /\ r.deleted \in BOOLEAN /\ r.text \in Nat
    /\ r.deleted => r.type \notin {Collection, ReviewLog}

(* Every USN is given once (SyncServer.UsnsUnique), a user has one         *)
(* collection, and the server asks for a pull only when Cli < End.         *)
ASSUME PullBatchAssumption ==
    /\ Cli < End
    /\ MaxBatchSize \in Nat \ {0}
    /\ Limit \in [Types -> Nat \ {0}]
    /\ Faults \in BOOLEAN
    /\ \A db \in Databases :
          /\ IsFiniteSet(db)
          /\ \A r \in db : IsRow(r)
          /\ \A r, s \in db : r # s => r.usn # s.usn
          /\ \A r, s \in db : r.type = Collection /\ s.type = Collection => r = s

(* The head of the queue, which is created in ascending order. *)
HeadType == CHOOSE t \in todo : IsNext(t)

Points == {"claim", "query", "collect", "save", "finished"}

PullTypeOK ==
    /\ PagesTypeOK
    /\ \A r \in rows : IsRow(r)
    /\ pc \in Points
    /\ unread \subseteq rows
    /\ count \in Nat
    /\ pc = "collect" /\ HeadType # Collection => count <= Limit[HeadType]
    /\ last \in Nat /\ size \in Nat /\ maxUsn \in Nat
    /\ \A i \in DOMAIN resp : resp[i] \in rows
    /\ \A i \in DOMAIN sent : /\ \A j \in DOMAIN sent[i].changes :
                                    sent[i].changes[j] \in rows
                              /\ sent[i].maxUsn \in Nat
                              /\ sent[i].lastBatch \in BOOLEAN

Lowest(set) == CHOOSE r \in set : \A s \in set : r.usn <= s.usn

PullInit ==
    /\ rows \in Databases
    /\ PagesInit
    /\ pc = "claim"
    /\ unread = {} /\ count = 0 /\ last = 0
    /\ resp = << >> /\ size = 0 /\ maxUsn = 0
    /\ sent = << >>

-----------------------------------------------------------------------------
At(point) == status = "running" /\ pc = point

NewPullCollector == resp' = << >> /\ size' = 0 /\ maxUsn' = 0

(* Pull claims the batch: it goes on where the session says. *)
ClaimBatch ==
    /\ At("claim")
    /\ NewPullCollector
    /\ start' = cur
    /\ pc' = IF todo = {} THEN "save" ELSE "query"
    /\ UNCHANGED <<rows, todo, cur, got, from, status, queryVars, sent>>

\* Mutant: a query without the row that shows whether there are more.
LimitedExactly(type, selected) ==
    {r \in selected : Cardinality({s \in selected : s.usn < r.usn}) < Limit[type]}

(* LIMIT limit + 1: one row more than the collector will take. *)
Limited(type, selected) ==
    {r \in selected : Cardinality({s \in selected : s.usn < r.usn}) <= Limit[type]}

QueryRows ==
    /\ At("query")
    /\ unread' = Limited(HeadType, SelectRows(HeadType, cur))
    /\ count' = 0 /\ last' = 0
    /\ pc' = "collect"
    /\ UNCHANGED <<pageVars, collectorVars, sent>>

\* Mutant: full only beyond the capacity.
IsOverfull == size > MaxBatchSize

IsFull == size >= MaxBatchSize

(* The queue after a query: its head stays while it has more rows. *)
QueueAfter(more) == IF more THEN todo ELSE todo \ {HeadType}

(* The rows that the running query has added to the response. *)
Taken == {r \in ToSet(resp) : r.type = HeadType /\ cur <= r.usn}

(* GetChangesSinceUSN after a query: no row is a logic error; a type that  *)
(* has more goes on at its cursor, the next one begins at start; a full    *)
(* collector ends the response.                                            *)
QueryDone(more) ==
    /\ \/ /\ last <= cur
          /\ status' = "stuck"
          /\ UNCHANGED <<todo, cur, got, from, pc>>
       \/ /\ last > cur
          /\ todo' = QueueAfter(more)
          /\ cur' = IF more THEN last ELSE CursorReset
          /\ got' = got \union Taken
          /\ from' = [from EXCEPT ![HeadType] = IF @ = 0 THEN cur ELSE @]
          /\ pc' = IF IsFull \/ todo' = {} THEN "save" ELSE "query"
          /\ UNCHANGED status
    /\ unread' = {} /\ count' = 0 /\ last' = 0
    /\ UNCHANGED <<rows, start, collectorVars, sent>>

\* Mutant: the cursor stays on the row.
CursorOn(row) == row.usn

\* Mutant: the cursor skips a USN.
CursorBeyond(row) == row.usn + 2

CursorAfter(row) == row.usn + 1

(* One row in the response. *)
AddChange(row, bytes) ==
    /\ resp' = Append(resp, row)
    /\ size' = size + bytes
    /\ maxUsn' = IF row.usn > maxUsn THEN row.usn ELSE maxUsn
    /\ last' = CursorAfter(row)
    /\ count' = count + 1
    /\ unread' = unread \ {row}
    /\ UNCHANGED <<pageVars, pc, sent>>

NextRow == Lowest(unread)

(* One turn of a collector's loop over the rows of its query; bytes is the *)
(* size of the next row.                                                   *)
Collect(type, limited, bytes) ==
    /\ At("collect") /\ HeadType = type
    /\ \/ unread = {} /\ QueryDone(FALSE)
       \/ unread # {} /\ (limited \/ IsFull) /\ QueryDone(TRUE)
       \/ /\ unread # {} /\ ~limited /\ ~IsFull
          /\ AddChange(NextRow, bytes)

\* Mutant: the check is commented out, as it is for the collection.
NeverAtLimit(type) == FALSE

AtLimit(type) == count = Limit[type]

(* A deleted row is sent as its id, USN, time and mark. *)
DeletedSize == 33

CollectionSize(row) == 48 + row.text
DeckSize(row) == IF row.deleted THEN DeletedSize ELSE 57 + row.text
NoteTypeSize(row) == IF row.deleted THEN DeletedSize ELSE 37 + row.text
ProcessingNoteSize(row) == IF row.deleted THEN DeletedSize ELSE 61 + row.text
NoteSize(row) == IF row.deleted THEN DeletedSize ELSE 61 + row.text
CardSize(row) == IF row.deleted THEN DeletedSize ELSE 121
ReviewLogSize(row) == 84

(* The collection has no limit in rows: its check is commented out. *)
AddCollectionChanges == Collect(Collection, FALSE, CollectionSize(NextRow))
AddDeckChanges == Collect(Deck, AtLimit(Deck), DeckSize(NextRow))
AddNoteTypeChanges == Collect(NoteType, AtLimit(NoteType), NoteTypeSize(NextRow))
AddProcessingNoteChanges ==
    Collect(ProcessingNote, AtLimit(ProcessingNote), ProcessingNoteSize(NextRow))
AddNoteChanges == Collect(Note, AtLimit(Note), NoteSize(NextRow))
AddCardChanges == Collect(Card, AtLimit(Card), CardSize(NextRow))
AddReviewLogChanges == Collect(ReviewLog, AtLimit(ReviewLog), ReviewLogSize(NextRow))

AddChanges ==
    \/ AddCollectionChanges \/ AddDeckChanges \/ AddNoteTypeChanges
    \/ AddProcessingNoteChanges \/ AddNoteChanges \/ AddCardChanges
    \/ AddReviewLogChanges

(* Pull saves the progress and answers. *)
SaveProgress ==
    /\ At("save")
    /\ sent' = Append(sent, [changes |-> resp, maxUsn |-> maxUsn,
                             lastBatch |-> todo = {}])
    /\ pc' = IF todo = {} THEN "finished" ELSE "claim"
    /\ resp' = << >>
    /\ UNCHANGED <<pageVars, queryVars, size, maxUsn>>

(* An error of a query, of a Scan or of the session ends the sync. *)
PullError ==
    /\ Faults /\ status = "running" /\ pc # "finished"
    /\ status' = "error"
    /\ UNCHANGED <<rows, todo, start, cur, got, from, pc,
                   queryVars, collectorVars, sent>>

-----------------------------------------------------------------------------
PullNext ==
    ClaimBatch \/ QueryRows \/ AddChanges \/ SaveProgress \/ PullError

PullSpec == PullInit /\ [][PullNext]_batchVars
-----------------------------------------------------------------------------
RowSize(row) ==
    CASE row.type = Collection -> CollectionSize(row)
      [] row.type = Deck -> DeckSize(row)
      [] row.type = NoteType -> NoteTypeSize(row)
      [] row.type = ProcessingNote -> ProcessingNoteSize(row)
      [] row.type = Note -> NoteSize(row)
      [] row.type = Card -> CardSize(row)
      [] row.type = ReviewLog -> ReviewLogSize(row)

(* Totals(changes)[k] is the size of the first k changes. *)
Totals(changes) ==
    LET sum[k \in 0..Len(changes)] ==
            IF k = 0 THEN 0 ELSE sum[k - 1] + RowSize(changes[k])
    IN  sum

(* A response brings something, exceeds the capacity by no more than the   *)
(* row that filled it, and is the last one unless it is full: however the  *)
(* pages of seven types fall into it, a batch is neither unbounded nor     *)
(* empty nor cut early.  Only a pull without a row in range is answered by *)
(* one empty batch, with maximum 0.                                        *)
ResponsesFilled ==
    \A i \in DOMAIN sent :
        LET changes == sent[i].changes IN
        \/ /\ changes = << >> /\ TypeQueue = {}
           /\ i = 1 /\ sent[i].maxUsn = 0 /\ sent[i].lastBatch
        \/ /\ changes # << >>
           /\ Totals(changes)[Len(changes) - 1] < MaxBatchSize
           /\ Totals(changes)[Len(changes)] >= MaxBatchSize \/ sent[i].lastBatch
           /\ \E r \in ToSet(changes) : r.usn = sent[i].maxUsn
           /\ \A r \in ToSet(changes) : r.usn <= sent[i].maxUsn

Before(r, s) == r.type < s.type \/ (r.type = s.type /\ r.usn < s.usn)

Ascending(changes) ==
    \A i, j \in DOMAIN changes : i < j => Before(changes[i], changes[j])

(* Over all responses of a pull the changes come by type, in the order of  *)
(* the foreign keys, and by USN within a type: a device never gets a row   *)
(* before the rows it refers to, nor one row twice.                        *)
SentInOrder ==
    /\ Ascending(resp)
    /\ \A i \in DOMAIN sent :
          /\ Ascending(sent[i].changes)
          /\ \A r \in ToSet(sent[i].changes) :
                /\ \A s \in ToSet(resp) : Before(r, s)
                /\ \A j \in DOMAIN sent :
                      i < j => \A s \in ToSet(sent[j].changes) : Before(r, s)

(* The seven collectors with their limits implement paging: a page is what *)
(* one query adds to the response.  What PullPages says of omitted rows    *)
(* and of failures is thereby said of the program.                         *)
ImplementsPages == PagesSpec
-----------------------------------------------------------------------------
(* The inductive invariant of the row-by-row pull, in parts.               *)

Added == ToSet(resp) \union UNION {ToSet(sent[i].changes) : i \in DOMAIN sent}

(* The queue and the cursor have gone beyond row. *)
Passed(row) ==
    IF row.type \in todo THEN IsNext(row.type) /\ row.usn < cur
                         ELSE \A t \in todo : row.type < t

(* A collector in its loop: what it has taken are the first rows of its    *)
(* query and count is their number, the rest is unread, and last is one    *)
(* above the highest; a query begins with room in the response.            *)
QueryInv ==
    LET found == Limited(HeadType, SelectRows(HeadType, cur)) IN
    /\ Taken \subseteq found
    /\ unread = found \ Taken
    /\ \A r \in Taken, s \in unread : r.usn < s.usn
    /\ count = Cardinality(Taken)
    /\ Taken = {} => last = 0 /\ ~IsFull
    /\ Taken # {} => \E row \in Taken : /\ \A r \in Taken : r.usn <= row.usn
                                        /\ last = CursorAfter(row)

(* Where the handler is: a query has a type to ask for and room in the     *)
(* response, and whatever was added is behind the queue and the cursor or  *)
(* was taken by the running query.                                         *)
HandlerInv ==
    status = "running" =>
        /\ pc \in {"query", "collect"} => todo # {}
        /\ pc = "query" => ~IsFull
        /\ pc = "collect" => QueryInv
        /\ \A row \in Added : Passed(row) \/ (pc = "collect" /\ row \in Taken)

BatchInv ==
    /\ rows \in Databases
    /\ resp \in Seq(rows)
    /\ sent \in Seq([changes : Seq(rows), maxUsn : Nat, lastBatch : BOOLEAN])
    /\ HandlerInv
    /\ SentInOrder

(* The response in the making: size is its size, only its last row reaches *)
(* the capacity, and maxUsn is its highest USN.                            *)
CollectorInv ==
    /\ size = Totals(resp)[Len(resp)]
    /\ resp # << >> => Totals(resp)[Len(resp) - 1] < MaxBatchSize
    /\ IF resp = << >> THEN maxUsn = 0
       ELSE \E r \in ToSet(resp) : r.usn = maxUsn
    /\ \A r \in ToSet(resp) : r.usn <= maxUsn

(* A handler has nothing to do only when there was nothing from the start, *)
(* and saves a full response or the last one.                              *)
FillInv ==
    /\ pc \in {"query", "collect", "save"} => CollectorInv
    /\ \/ pc = "claim" /\ todo = {}
       \/ pc = "save" /\ resp = << >>
       => TypeQueue = {} /\ sent = << >> /\ todo = {}
    /\ pc = "save" => IsFull \/ todo = {}
    /\ ResponsesFilled
=============================================================================
