----------------------------- MODULE PullProofs -----------------------------
(***************************************************************************)
(* Theorems of a pull.  Of PullPages, for any rows, pages and cuts: what a *)
(* pull may omit, and when it may fail.  Of PullBatch, for any finite      *)
(* databases, limits and capacity: the types, the order of the changes     *)
(* over all responses, and that it implements PullPages.                   *)
(***************************************************************************)
EXTENDS PullBatch, FiniteSetTheorems, TLAPS

(* Every action preserves the types. *)
LEMMA PagesTypeStep ==
    ASSUME PagesTypeOK, [PagesNext]_pageVars
    PROVE  PagesTypeOK'
<1> USE PullPagesAssumption DEF PagesTypeOK
<1>1. ASSUME NEW type \in todo, NEW page \in SUBSET SelectRows(type, cur),
             Page(type, page)
      PROVE  PagesTypeOK'
  <2>1. cur' \in Nat
    BY <1>1 DEF Page, SelectRows, CursorReset
  <2>. QED BY <1>1, <2>1 DEF Page
<1>2. CASE Cut BY <1>2 DEF Cut
<1>3. CASE Stuck BY <1>3 DEF Stuck
<1>4. CASE Error BY <1>4 DEF Error
<1>5. CASE UNCHANGED pageVars BY <1>5 DEF pageVars
<1>. QED BY <1>1, <1>2, <1>3, <1>4, <1>5 DEF PagesNext

(* The variables of a pull keep their types. *)
THEOREM PagesTypeCorrect == PagesSpec => []PagesTypeOK
<1>1. PagesInit => PagesTypeOK
  BY PullPagesAssumption DEF PagesInit, PagesTypeOK, TypeQueue
<1>2. PagesTypeOK /\ [PagesNext]_pageVars => PagesTypeOK'
  BY PagesTypeStep
<1>. QED BY <1>1, <1>2, PTL DEF PagesSpec

-----------------------------------------------------------------------------
(* What PagesInv says of a type that is still to be pulled, and of one     *)
(* that is not.                                                            *)
TodoInv(t) ==
    /\ SelectRows(t, Cli) # {}
    /\ IsNext(t) /\ from[t] = 0 => cur = start
    /\ from[t] # 0 =>
          /\ IsNext(t)
          /\ SelectRows(t, cur) # {}
          /\ \A r \in rows : r.type = t /\ from[t] <= r.usn /\ r.usn < cur => r \in got

DoneInv(t) ==
    /\ from[t] # 0 \/ SelectRows(t, Cli) = {}
    /\ from[t] # 0 =>
          \A r \in rows : r.type = t /\ from[t] <= r.usn /\ r.usn < End => r \in got

StartInv ==
    /\ Cli <= start /\ start <= cur
    /\ start = Cli => status # "stuck" /\ \A t \in Types : from[t] \in {0, Cli}

LEMMA PagesInvParts ==
    PagesInv <=> /\ StartInv
                 /\ \A t \in todo : TodoInv(t)
                 /\ \A t \in Types \ todo : DoneInv(t)
BY DEF PagesInv, StartInv, TodoInv, DoneInv, CollectedFromStart

(* A page that is not all that was found: the type goes on above it. *)
LEMMA PartOfAType ==
    ASSUME PagesTypeOK, PagesInv,
           NEW type \in todo, NEW page \in SUBSET SelectRows(type, cur),
           Page(type, page), page # SelectRows(type, cur)
    PROVE  PagesInv'
<1> USE PullPagesAssumption
<1>a. /\ StartInv
      /\ \A t \in todo : TodoInv(t)
      /\ \A t \in Types \ todo : DoneInv(t)
  BY PagesInvParts
<1>b. /\ IsNext(type) /\ page # {} /\ Prefix(page, SelectRows(type, cur))
      /\ got' = got \union page
      /\ from' = [from EXCEPT ![type] = IF @ = 0 THEN cur ELSE @]
      /\ UNCHANGED <<rows, todo, start, status>>
  BY DEF Page
<1>c. PICK row \in page : /\ \A x \in page : x.usn <= row.usn
                          /\ cur' = row.usn + 1
  BY DEF Page
<1>d. /\ row \in rows /\ row.usn \in Nat /\ row.type = type
      /\ cur <= row.usn /\ row.usn < End
      /\ type \in Types /\ cur \in Nat /\ start \in Nat /\ cur' \in Nat
  BY <1>c DEF SelectRows, PagesTypeOK
<1>1. StartInv'
  <2>1. start = Cli => from'[type] \in {0, Cli}
    <3>1. from[type] = 0 => cur = start
      BY <1>a, <1>b DEF TodoInv
    <3>. QED BY <1>a, <1>b, <1>d, <3>1 DEF StartInv, PagesTypeOK
  <2>2. \A t \in Types : t # type => from'[t] = from[t]
    BY <1>b DEF PagesTypeOK
  <2>. QED BY <1>a, <1>b, <1>c, <1>d, <2>1, <2>2 DEF StartInv
<1>2. ASSUME NEW t \in todo' PROVE TodoInv(t)'
  <2>1. CASE t # type
    <3>1. ~IsNext(t) /\ ~IsNext(t)'
      <4>1. t \in todo /\ t \in Nat /\ type \in Nat
        BY <1>b, <1>d DEF PagesTypeOK, Types
      <4>2. ~(t <= type)
        BY <1>b, <2>1, <4>1 DEF IsNext
      <4>. QED BY <1>b, <4>2 DEF IsNext
    <3>2. from'[t] = from[t] /\ from[t] = 0
      BY <1>a, <1>b, <2>1, <3>1 DEF TodoInv, PagesTypeOK
    <3>. QED BY <1>a, <1>b, <3>1, <3>2 DEF TodoInv, SelectRows
  <2>2. CASE t = type
    <3>1. from'[type] # 0 /\ from'[type] \in Nat
          /\ from'[type] = IF from[type] = 0 THEN cur ELSE from[type]
      BY <1>a, <1>b, <1>d DEF PagesTypeOK, StartInv
    <3>2. PICK y \in SelectRows(type, cur) : y \notin page
      BY <1>b DEF Prefix
    <3>3. y \in rows /\ y.usn \in Nat /\ y.type = type /\ y.usn < End /\ row.usn < y.usn
      BY <1>b, <1>c, <3>2 DEF SelectRows, Prefix, PagesTypeOK
    <3>4. SelectRows(type, cur)' # {}
      <4>1. y \in SelectRows(type, cur)'
        BY <1>b, <1>c, <1>d, <3>3 DEF SelectRows
      <4>. QED BY <4>1
    <3>5. ASSUME NEW r \in rows, r.type = type, from'[type] <= r.usn, r.usn < cur'
          PROVE  r \in got'
      <4>1. r.usn \in Nat
        BY DEF PagesTypeOK
      <4>2. CASE r.usn < cur
        BY <1>a, <1>b, <3>1, <3>5, <4>1, <4>2, <1>d DEF TodoInv
      <4>3. CASE r.usn >= cur
        <5>1. r.usn <= row.usn
          BY <1>c, <1>d, <3>5, <4>1
        <5>2. r \in SelectRows(type, cur)
          BY <1>d, <3>5, <4>1, <4>3, <5>1 DEF SelectRows, PagesTypeOK
        <5>3. r \in page
          BY <1>b, <1>c, <1>d, <4>1, <5>1, <5>2 DEF Prefix
        <5>. QED BY <1>b, <5>3
      <4>. QED BY <4>1, <4>2, <4>3, <1>d
    <3>6. SelectRows(type, Cli)' # {}
      BY <1>a, <1>b DEF TodoInv, SelectRows
    <3>7. IsNext(type)'
      BY <1>b DEF IsNext
    <3>. QED BY <1>b, <2>2, <3>1, <3>4, <3>5, <3>6, <3>7 DEF TodoInv
  <2>. QED BY <2>1, <2>2
<1>3. ASSUME NEW t \in Types \ todo' PROVE DoneInv(t)'
  <2>1. from'[t] = from[t]
    BY <1>b DEF PagesTypeOK
  <2>. QED BY <1>a, <1>b, <2>1 DEF DoneInv, SelectRows
<1>. QED BY <1>1, <1>2, <1>3 DEF PagesInv, StartInv, TodoInv, DoneInv, CollectedFromStart

(* A page with all that was found: the type is done. *)
LEMMA EndOfAType ==
    ASSUME PagesTypeOK, PagesInv,
           NEW type \in todo, NEW page \in SUBSET SelectRows(type, cur),
           Page(type, page), page = SelectRows(type, cur)
    PROVE  PagesInv'
<1> USE PullPagesAssumption
<1>a. /\ StartInv
      /\ \A t \in todo : TodoInv(t)
      /\ \A t \in Types \ todo : DoneInv(t)
  BY PagesInvParts
<1>b. /\ IsNext(type)
      /\ got' = got \union SelectRows(type, cur)
      /\ from' = [from EXCEPT ![type] = IF @ = 0 THEN cur ELSE @]
      /\ todo' = todo \ {type}
      /\ cur' = start
      /\ UNCHANGED <<rows, start, status>>
  BY DEF Page, CursorReset
<1>d. type \in Types /\ cur \in Nat /\ start \in Nat
  BY DEF PagesTypeOK
<1>1. StartInv'
  <2>1. start = Cli => from'[type] \in {0, Cli}
    <3>1. from[type] = 0 => cur = start
      BY <1>a, <1>b DEF TodoInv
    <3>. QED BY <1>a, <1>b, <1>d, <3>1 DEF StartInv, PagesTypeOK
  <2>2. \A t \in Types : t # type => from'[t] = from[t]
    BY <1>b DEF PagesTypeOK
  <2>. QED BY <1>a, <1>b, <1>d, <2>1, <2>2 DEF StartInv
<1>2. ASSUME NEW t \in todo' PROVE TodoInv(t)'
  <2>1. t \in todo /\ t # type /\ ~IsNext(t)
    <3>1. t \in todo /\ t # type /\ t \in Nat /\ type \in Nat
      BY <1>b, <1>d DEF PagesTypeOK, Types
    <3>2. ~(t <= type)
      BY <1>b, <3>1 DEF IsNext
    <3>. QED BY <3>1, <3>2 DEF IsNext
  <2>2. from'[t] = from[t] /\ from[t] = 0
    BY <1>a, <1>b, <2>1 DEF TodoInv, PagesTypeOK
  <2>. QED BY <1>a, <1>b, <2>1, <2>2 DEF TodoInv, SelectRows
<1>3. ASSUME NEW t \in Types \ todo' PROVE DoneInv(t)'
  <2>1. CASE t # type
    <3>1. from'[t] = from[t] /\ t \in Types \ todo
      BY <1>b, <2>1 DEF PagesTypeOK
    <3>. QED BY <1>a, <1>b, <3>1 DEF DoneInv, SelectRows
  <2>2. CASE t = type
    <3>1. from'[type] # 0 /\ from'[type] \in Nat
          /\ from'[type] = IF from[type] = 0 THEN cur ELSE from[type]
      BY <1>a, <1>b, <1>d DEF PagesTypeOK, StartInv
    <3>2. ASSUME NEW r \in rows, r.type = type, from'[type] <= r.usn, r.usn < End
          PROVE  r \in got'
      <4>1. r.usn \in Nat
        BY DEF PagesTypeOK
      <4>2. CASE r.usn < cur
        BY <1>a, <1>b, <3>1, <3>2, <4>1, <4>2, <1>d DEF TodoInv
      <4>3. CASE cur <= r.usn
        BY <1>b, <3>2, <4>3 DEF SelectRows
      <4>. QED BY <4>1, <4>2, <4>3, <1>d
    <3>. QED BY <1>b, <2>2, <3>1, <3>2 DEF DoneInv
  <2>. QED BY <2>1, <2>2
<1>. QED BY <1>1, <1>2, <1>3 DEF PagesInv, StartInv, TodoInv, DoneInv, CollectedFromStart

(* PagesInv is inductive. *)
LEMMA PagesInvStep ==
    ASSUME PagesTypeOK, PagesInv, [PagesNext]_pageVars
    PROVE  PagesInv'
<1> USE PullPagesAssumption
<1>a. /\ StartInv
      /\ \A t \in todo : TodoInv(t)
      /\ \A t \in Types \ todo : DoneInv(t)
  BY PagesInvParts
<1>1. ASSUME NEW type \in todo, NEW page \in SUBSET SelectRows(type, cur),
             Page(type, page)
      PROVE  PagesInv'
  BY <1>1, PartOfAType, EndOfAType
<1>2. CASE Cut
  <2>1. UNCHANGED <<rows, todo, cur, got, from, status>> /\ start' = cur
    BY <1>2 DEF Cut
  <2>2. StartInv'
    BY <1>a, <2>1 DEF StartInv, PagesTypeOK
  <2>3. \A t \in todo' : TodoInv(t)'
    BY <1>a, <2>1 DEF TodoInv, SelectRows, IsNext
  <2>4. \A t \in Types \ todo' : DoneInv(t)'
    BY <1>a, <2>1 DEF DoneInv, SelectRows
  <2>. QED BY <2>2, <2>3, <2>4
      DEF PagesInv, StartInv, TodoInv, DoneInv, CollectedFromStart
<1>3. CASE Stuck
  <2>1. UNCHANGED <<rows, todo, start, cur, got, from>>
    BY <1>3 DEF Stuck
  <2>2. PICK type \in todo : IsNext(type) /\ SelectRows(type, cur) = {}
    BY <1>3 DEF Stuck
  <2>3. from[type] = 0 /\ cur = start /\ SelectRows(type, Cli) # {}
    BY <1>a, <2>2 DEF TodoInv, PagesTypeOK
  <2>4. start # Cli
    BY <2>2, <2>3
  <2>5. StartInv'
    BY <1>a, <2>1, <2>4 DEF StartInv
  <2>6. \A t \in todo' : TodoInv(t)'
    BY <1>a, <2>1 DEF TodoInv, SelectRows, IsNext
  <2>7. \A t \in Types \ todo' : DoneInv(t)'
    BY <1>a, <2>1 DEF DoneInv, SelectRows
  <2>. QED BY <2>5, <2>6, <2>7
      DEF PagesInv, StartInv, TodoInv, DoneInv, CollectedFromStart
<1>4. CASE Error \/ UNCHANGED pageVars
  <2>1. /\ UNCHANGED <<rows, todo, start, cur, got, from>>
        /\ status' = status \/ status' = "error"
    BY <1>4 DEF Error, pageVars
  <2>2. StartInv'
    BY <1>a, <2>1 DEF StartInv
  <2>3. \A t \in todo' : TodoInv(t)'
    BY <1>a, <2>1 DEF TodoInv, SelectRows, IsNext
  <2>4. \A t \in Types \ todo' : DoneInv(t)'
    BY <1>a, <2>1 DEF DoneInv, SelectRows
  <2>. QED BY <2>2, <2>3, <2>4
      DEF PagesInv, StartInv, TodoInv, DoneInv, CollectedFromStart
<1>. QED BY <1>1, <1>2, <1>3, <1>4 DEF PagesNext

(* The inductive invariant of paging holds in every pull. *)
THEOREM PagesCorrect == PagesSpec => []PagesInv
<1>1. PagesInit => PagesInv
  BY PullPagesAssumption
     DEF PagesInit, PagesInv, TypeQueue, CollectedFromStart, SelectRows
<1>2. PagesTypeOK /\ PagesInv /\ [PagesNext]_pageVars => PagesInv'
  BY PagesInvStep
<1>. QED BY <1>1, <1>2, PagesTypeCorrect, PTL DEF PagesSpec

(* Whatever the rows, the limits and the capacity: a type that has been    *)
(* pulled is complete from the cursor of its first query on.               *)
THEOREM TypesComplete == PagesSpec => []CollectedFromStart
<1>1. PagesInv => CollectedFromStart
  BY DEF PagesInv
<1>. QED BY <1>1, PagesCorrect, PTL

(* A pull that was never cut in the middle of a type is complete and does  *)
(* not fail for want of a row.                                             *)
THEOREM UncutPullsComplete == PagesSpec => []FailsOnlyAfterCut
<1>1. ASSUME PagesTypeOK, PagesInv
      PROVE  FailsOnlyAfterCut
  <2>1. SUFFICES ASSUME start = Cli
                 PROVE  /\ status # "stuck"
                        /\ todo = {} => \A r \in rows : Cli <= r.usn /\ r.usn < End
                                                        => r \in got
    BY DEF FailsOnlyAfterCut
  <2>2. status # "stuck"
    BY <1>1, <2>1 DEF PagesInv
  <2>3. ASSUME todo = {}, NEW r \in rows, Cli <= r.usn, r.usn < End
        PROVE  r \in got
    <3>1. r.type \in Types \ todo
      BY <1>1, <2>3 DEF PagesTypeOK
    <3>2. r \in SelectRows(r.type, Cli)
      BY <2>3 DEF SelectRows
    <3>3. from[r.type] = Cli
      BY <1>1, <2>1, <3>1, <3>2 DEF PagesInv
    <3>. QED
      BY <1>1, <2>3, <3>1, <3>3, PullPagesAssumption DEF PagesInv, CollectedFromStart
  <2>. QED BY <2>2, <2>3
<1>. QED BY <1>1, PagesCorrect, PagesTypeCorrect, PTL
-----------------------------------------------------------------------------
(* From here on: PullBatch. *)

(* A non-empty set of natural numbers has a least element. *)
LEMMA NatMin ==
    ASSUME NEW T \in SUBSET Nat, T # {}
    PROVE  \E x \in T : \A y \in T : x <= y
<1>1. PICK x \in T : \A y \in T : ~(<<y, x>> \in OpToRel(<, Nat))
  <2> DEFINE R == OpToRel(<, Nat)
  <2>1. IsWellFoundedOn(R, Nat)
    BY NatLessThanWellFounded
  <2> HIDE DEF R
  <2>2. \E x \in T : \A y \in T : ~(<<y, x>> \in R)
    BY <2>1, WFMin
  <2>. QED BY <2>2 DEF R
<1>2. ASSUME NEW y \in T PROVE x <= y
  <2>1. x \in Nat /\ y \in Nat
    OBVIOUS
  <2>2. <<y, x>> \in OpToRel(<, Nat) <=> y < x
    BY <2>1 DEF OpToRel
  <2>3. ~(y < x)
    BY <1>1, <2>2
  <2>. QED BY <2>1, <2>3
<1>. QED BY <1>2

(* The lowest row of a non-empty set is a row of it with the least USN. *)
LEMMA LowestRow ==
    ASSUME NEW set, set # {}, \A r \in set : r.usn \in Nat
    PROVE  /\ Lowest(set) \in set
           /\ \A s \in set : Lowest(set).usn <= s.usn
<1> DEFINE U == {r.usn : r \in set}
<1>1. U \in SUBSET Nat /\ U # {}
  OBVIOUS
<1>2. PICK u \in U : \A v \in U : u <= v
  <2> HIDE DEF U
  <2>. QED BY <1>1, NatMin
<1>3. PICK r \in set : r.usn = u
  OBVIOUS
<1>4. \A s \in set : r.usn <= s.usn
  BY <1>2, <1>3
<1>. QED BY <1>4 DEF Lowest

(* The head of a non-empty queue is its least type. *)
LEMMA HeadIsNext ==
    ASSUME PagesTypeOK, todo # {}
    PROVE  HeadType \in todo /\ HeadType \in Types /\ IsNext(HeadType)
<1>1. todo \in SUBSET Nat /\ todo \subseteq Types
  BY DEF PagesTypeOK, Types
<1>2. \E t \in todo : IsNext(t)
  BY <1>1, NatMin DEF IsNext
<1>. QED BY <1>1, <1>2 DEF HeadType

(* There is one next type. *)
LEMMA NextIsHead ==
    ASSUME PagesTypeOK, NEW t, IsNext(t)
    PROVE  t = HeadType
<1>1. t \in todo /\ todo # {} /\ todo \subseteq Nat
  BY DEF IsNext, PagesTypeOK, Types
<1>2. HeadType \in todo /\ IsNext(HeadType)
  BY <1>1, HeadIsNext
<1>. QED BY <1>1, <1>2 DEF IsNext

(* What the assumption says of a user's rows. *)
LEMMA RowFacts ==
    ASSUME rows \in Databases
    PROVE  /\ IsFiniteSet(rows)
           /\ \A r \in rows : /\ IsRow(r)
                              /\ r.type \in Types /\ r.usn \in Nat
                              /\ r.text \in Nat
           /\ \A r, s \in rows : r # s => r.usn # s.usn
           /\ \A r, s \in rows : r.type = Collection /\ s.type = Collection => r = s
BY PullBatchAssumption DEF IsRow

(* The rows below one of a finite set, and the limit of a query. *)
LEMMA LimitedFacts ==
    ASSUME NEW type \in Types, NEW selected, IsFiniteSet(selected),
           \A r \in selected : r.usn \in Nat
    PROVE  /\ Limited(type, selected) \subseteq selected
           /\ \A r \in Limited(type, selected), s \in selected \ Limited(type, selected) :
                 r.usn < s.usn
<1> DEFINE Below(r) == {x \in selected : x.usn < r.usn}
<1>1. \A r \in selected : IsFiniteSet(Below(r)) /\ Cardinality(Below(r)) \in Nat
  <2> SUFFICES ASSUME NEW r \in selected
               PROVE  IsFiniteSet(Below(r)) /\ Cardinality(Below(r)) \in Nat
    OBVIOUS
  <2>1. IsFiniteSet(Below(r))
    BY FS_Subset
  <2>. QED BY <2>1, FS_CardinalityType
<1>2. ASSUME NEW r \in Limited(type, selected),
             NEW s \in selected \ Limited(type, selected)
      PROVE  r.usn < s.usn
  <2>1. r \in selected /\ r.usn \in Nat /\ s.usn \in Nat
    BY DEF Limited
  <2>2. SUFFICES ASSUME s.usn <= r.usn PROVE FALSE
    BY <2>1
  <2>3. Below(s) \in SUBSET Below(r)
    BY <2>1, <2>2
  <2>4. Cardinality(Below(s)) <= Cardinality(Below(r))
    BY <1>1, <2>1, <2>3, FS_Subset
  <2>5. Cardinality(Below(r)) <= Limit[type]
    BY DEF Limited
  <2>6. ~(Cardinality(Below(s)) <= Limit[type])
    BY DEF Limited
  <2>7. Limit[type] \in Nat
    BY PullBatchAssumption
  <2>8. Cardinality(Below(r)) \in Nat /\ Cardinality(Below(s)) \in Nat
    BY <1>1, <2>1
  <2> HIDE DEF Below
  <2>. QED BY <2>4, <2>5, <2>6, <2>7, <2>8
<1>. QED BY <1>2 DEF Limited

(* LIMIT limit + 1 leaves rows out only when it returns more than limit:   *)
(* a collector that has read all and is within its limit has seen every    *)
(* row.                                                                    *)
LEMMA LeftOutBeyondLimit ==
    ASSUME NEW type \in Types, NEW selected, IsFiniteSet(selected),
           \A r \in selected : r.usn \in Nat,
           Limited(type, selected) # selected
    PROVE  Cardinality(Limited(type, selected)) > Limit[type]
<1> DEFINE found == Limited(type, selected)
<1> DEFINE left == selected \ found
<1> DEFINE Below(r) == {x \in selected : x.usn < r.usn}
<1>1. found \subseteq selected /\ left # {} /\ left \subseteq selected
  BY LimitedFacts
<1>2. PICK s \in left : \A x \in left : s.usn <= x.usn
  <2>1. \A x \in left : x.usn \in Nat
    BY <1>1
  <2> HIDE DEF left
  <2>. QED BY <1>1, <2>1, LowestRow
<1>3. s \in selected /\ s \notin found /\ s.usn \in Nat
  BY <1>1
<1>4. Below(s) \in SUBSET found
  <2> SUFFICES ASSUME NEW x \in selected, x.usn < s.usn, x \notin found
               PROVE  FALSE
    OBVIOUS
  <2>1. x \in left
    OBVIOUS
  <2>. QED BY <1>2, <1>3, <2>1
<1>5. IsFiniteSet(found)
  BY <1>1, FS_Subset
<1>6. Cardinality(Below(s)) <= Cardinality(found) /\ IsFiniteSet(Below(s))
  <2> HIDE DEF found
  <2>. QED BY <1>4, <1>5, FS_Subset
<1>7. ~(Cardinality(Below(s)) <= Limit[type])
  BY <1>3 DEF Limited
<1>8. /\ Cardinality(Below(s)) \in Nat /\ Cardinality(found) \in Nat
      /\ Limit[type] \in Nat
  BY <1>5, <1>6, FS_CardinalityType, PullBatchAssumption
<1>. QED BY <1>6, <1>7, <1>8

(* A user's only collection is always within the limit. *)
LEMMA CollectionInLimit ==
    ASSUME rows \in Databases, NEW lo
    PROVE  Limited(Collection, SelectRows(Collection, lo)) = SelectRows(Collection, lo)
<1> DEFINE selected == SelectRows(Collection, lo)
<1>1. \A r, s \in selected : r = s /\ r.usn \in Nat
  BY RowFacts DEF SelectRows
<1>2. \A r \in selected : {s \in selected : s.usn < r.usn} = {}
  <2> HIDE DEF selected
  <2>. QED BY <1>1
<1>3. Cardinality({}) = 0 /\ Limit[Collection] \in Nat
  BY FS_EmptySet, PullBatchAssumption DEF Types, Collection
<1>4. \A r \in selected : Cardinality({s \in selected : s.usn < r.usn}) <= Limit[Collection]
  <2> HIDE DEF selected
  <2>. QED BY <1>2, <1>3
<1>. QED BY <1>4 DEF Limited

(* Sequences of changes. *)
LEMMA ToSetAppend ==
    ASSUME NEW S, NEW seq \in Seq(S), NEW e
    PROVE  ToSet(Append(seq, e)) = ToSet(seq) \union {e}
<1>1. /\ DOMAIN seq = 1 .. Len(seq) /\ Len(seq) \in Nat
      /\ DOMAIN Append(seq, e) = 1 .. Len(seq) + 1
      /\ \A i \in 1 .. Len(seq) : Append(seq, e)[i] = seq[i]
      /\ Append(seq, e)[Len(seq) + 1] = e
  OBVIOUS
<1>2. 1 .. Len(seq) + 1 = (1 .. Len(seq)) \union {Len(seq) + 1}
  BY <1>1
<1>. QED BY <1>1, <1>2 DEF ToSet

LEMMA AscendingAppend ==
    ASSUME NEW S, NEW seq \in Seq(S), NEW e,
           Ascending(seq), \A r \in ToSet(seq) : Before(r, e)
    PROVE  Ascending(Append(seq, e))
<1>1. /\ DOMAIN seq = 1 .. Len(seq) /\ Len(seq) \in Nat
      /\ DOMAIN Append(seq, e) = 1 .. Len(seq) + 1
      /\ \A i \in 1 .. Len(seq) : Append(seq, e)[i] = seq[i]
      /\ Append(seq, e)[Len(seq) + 1] = e
  OBVIOUS
<1>2. \A i \in 1 .. Len(seq) : Before(seq[i], e)
  BY <1>1 DEF ToSet
<1>3. ASSUME NEW i \in 1 .. Len(seq) + 1, NEW j \in 1 .. Len(seq) + 1, i < j
      PROVE  Before(Append(seq, e)[i], Append(seq, e)[j])
  <2>1. i \in 1 .. Len(seq) /\ Append(seq, e)[i] = seq[i]
    BY <1>1, <1>3
  <2>2. CASE j \in 1 .. Len(seq)
    BY <1>1, <1>3, <2>1, <2>2 DEF Ascending
  <2>3. CASE j = Len(seq) + 1
    BY <1>1, <1>2, <2>1, <2>3
  <2>. QED BY <1>1, <2>2, <2>3
<1>. QED BY <1>1, <1>3 DEF Ascending

(* What the loop has taken is a prefix of the rows in range, and all of    *)
(* them when the query has no row left.                                    *)
LEMMA TakenIsPrefix ==
    ASSUME PullTypeOK, BatchInv, At("collect")
    PROVE  /\ HeadType \in todo /\ HeadType \in Types /\ IsNext(HeadType)
           /\ Prefix(Taken, SelectRows(HeadType, cur))
           /\ unread \subseteq SelectRows(HeadType, cur) \ Taken
           /\ unread = {} => Taken = SelectRows(HeadType, cur)
<1> DEFINE selected == SelectRows(HeadType, cur)
<1> DEFINE found == Limited(HeadType, selected)
<1>1. HeadType \in todo /\ HeadType \in Types /\ IsNext(HeadType)
  BY HeadIsNext DEF PullTypeOK, BatchInv, HandlerInv, At
<1>2. /\ Taken \subseteq found /\ unread = found \ Taken
      /\ \A r \in Taken, s \in unread : r.usn < s.usn
      /\ count = Cardinality(Taken)
  BY DEF BatchInv, HandlerInv, At, QueryInv
<1>3. IsFiniteSet(selected) /\ \A r \in selected : r.usn \in Nat
  <2>1. selected \in SUBSET rows
    BY DEF SelectRows
  <2> HIDE DEF selected
  <2>. QED BY <2>1, RowFacts, FS_Subset DEF BatchInv
<1>4. /\ found \subseteq selected
      /\ \A r \in found, s \in selected \ found : r.usn < s.usn
  <2> HIDE DEF selected
  <2>. QED BY <1>1, <1>3, LimitedFacts
<1>5. ASSUME unread = {}
      PROVE  Taken = selected
  <2>1. Taken = found
    BY <1>2, <1>5
  <2>2. CASE HeadType = Collection
    BY <2>1, <2>2, CollectionInLimit DEF BatchInv
  <2>3. CASE HeadType # Collection
    <3>1. count <= Limit[HeadType] /\ Limit[HeadType] \in Nat
      BY <1>1, <2>3, PullBatchAssumption DEF PullTypeOK, At
    <3>2. SUFFICES ASSUME found # selected PROVE FALSE
      BY <2>1
    <3>3. Cardinality(found) > Limit[HeadType]
      <4> HIDE DEF selected
      <4>. QED BY <1>1, <1>3, <3>2, LeftOutBeyondLimit
    <3>4. Cardinality(found) <= Limit[HeadType] /\ Cardinality(found) \in Nat
      BY <1>2, <2>1, <3>1 DEF PullTypeOK
    <3> HIDE DEF found
    <3>. QED BY <3>1, <3>3, <3>4
  <2>. QED BY <2>2, <2>3
<1>6. Prefix(Taken, selected)
  <2> HIDE DEF found, selected
  <2>. QED BY <1>2, <1>4 DEF Prefix
<1>. QED BY <1>1, <1>2, <1>4, <1>5, <1>6

(* The seven collectors are one loop.  A row whose size is a number is     *)
(* added, or the query is over: with no row left, or with one that the     *)
(* limit or the full response leaves to the next query.                    *)
LEMMA CollectorLoop ==
    ASSUME PullTypeOK, BatchInv, AddChanges
    PROVE  /\ At("collect")
           /\ \/ unread = {} /\ QueryDone(FALSE)
              \/ /\ unread # {}
                 /\ IsFull \/ (HeadType # Collection /\ count = Limit[HeadType])
                 /\ QueryDone(TRUE)
              \/ /\ unread # {} /\ ~IsFull
                 /\ HeadType # Collection => count # Limit[HeadType]
                 /\ \E bytes \in Nat : AddChange(NextRow, bytes)
<1> DEFINE Loop ==
           /\ At("collect")
           /\ \/ unread = {} /\ QueryDone(FALSE)
              \/ /\ unread # {}
                 /\ IsFull \/ (HeadType # Collection /\ count = Limit[HeadType])
                 /\ QueryDone(TRUE)
              \/ /\ unread # {} /\ ~IsFull
                 /\ HeadType # Collection => count # Limit[HeadType]
                 /\ \E bytes \in Nat : AddChange(NextRow, bytes)
<1> SUFFICES Loop
  OBVIOUS
<1>1. unread # {} => NextRow \in rows /\ NextRow.text \in Nat
  <2>1. unread \subseteq rows /\ \A r \in unread : r.usn \in Nat
    BY RowFacts DEF PullTypeOK, BatchInv
  <2>. QED BY <2>1, LowestRow, RowFacts DEF NextRow, BatchInv
<1>2. unread # {} =>
      /\ CollectionSize(NextRow) \in Nat /\ DeckSize(NextRow) \in Nat
      /\ NoteTypeSize(NextRow) \in Nat /\ ProcessingNoteSize(NextRow) \in Nat
      /\ NoteSize(NextRow) \in Nat /\ CardSize(NextRow) \in Nat
      /\ ReviewLogSize(NextRow) \in Nat
  BY <1>1 DEF CollectionSize, DeckSize, NoteTypeSize, ProcessingNoteSize, NoteSize,
              CardSize, ReviewLogSize, DeletedSize
<1>3. ASSUME NEW type \in Types \ {Collection}, NEW bytes,
             unread # {} => bytes \in Nat,
             Collect(type, AtLimit(type), bytes)
      PROVE  Loop
  BY <1>3 DEF Collect, AtLimit
<1>4. CASE AddCollectionChanges
  BY <1>2, <1>4 DEF AddCollectionChanges, Collect
<1>5. /\ Deck \in Types \ {Collection} /\ NoteType \in Types \ {Collection}
      /\ ProcessingNote \in Types \ {Collection} /\ Note \in Types \ {Collection}
      /\ Card \in Types \ {Collection} /\ ReviewLog \in Types \ {Collection}
  BY DEF Types, Collection, Deck, NoteType, ProcessingNote, Note, Card, ReviewLog
<1> HIDE DEF Loop
<1>6. CASE AddDeckChanges
  BY <1>2, <1>3, <1>5, <1>6 DEF AddDeckChanges
<1>7. CASE AddNoteTypeChanges
  BY <1>2, <1>3, <1>5, <1>7 DEF AddNoteTypeChanges
<1>8. CASE AddProcessingNoteChanges
  BY <1>2, <1>3, <1>5, <1>8 DEF AddProcessingNoteChanges
<1>9. CASE AddNoteChanges
  BY <1>2, <1>3, <1>5, <1>9 DEF AddNoteChanges
<1>10. CASE AddCardChanges
  BY <1>2, <1>3, <1>5, <1>10 DEF AddCardChanges
<1>11. CASE AddReviewLogChanges
  BY <1>2, <1>3, <1>5, <1>11 DEF AddReviewLogChanges
<1>. QED BY <1>4, <1>6, <1>7, <1>8, <1>9, <1>10, <1>11 DEF AddChanges

(* The end of a query that added rows is a page: it ends the type exactly  *)
(* when no row is left.                                                    *)
LEMMA QueryIsPage ==
    ASSUME PullTypeOK, BatchInv, At("collect"), Taken # {},
           NEW more \in BOOLEAN, more <=> unread # {}, QueryDone(more)
    PROVE  /\ Page(HeadType, Taken)
           /\ todo' = QueueAfter(more)
           /\ cur' = IF more THEN last ELSE start
           /\ pc' = IF IsFull \/ todo' = {} THEN "save" ELSE "query"
<1>1. /\ HeadType \in todo /\ HeadType \in Types /\ IsNext(HeadType)
      /\ Prefix(Taken, SelectRows(HeadType, cur))
      /\ unread \subseteq SelectRows(HeadType, cur) \ Taken
      /\ unread = {} => Taken = SelectRows(HeadType, cur)
  BY TakenIsPrefix
<1>2. PICK row \in Taken : /\ \A r \in Taken : r.usn <= row.usn
                           /\ last = row.usn + 1
  BY DEF BatchInv, HandlerInv, QueryInv, At, CursorAfter
<1>3. row.usn \in Nat /\ cur <= row.usn /\ cur \in Nat
  <2>1. row \in SelectRows(HeadType, cur)
    BY <1>1, <1>2 DEF Prefix
  <2>. QED BY <2>1, RowFacts DEF SelectRows, BatchInv, PullTypeOK, PagesTypeOK
<1>4. last > cur /\ ~(last <= cur)
  BY <1>2, <1>3
<1>5. /\ todo' = QueueAfter(more)
      /\ cur' = IF more THEN last ELSE start
      /\ got' = got \union Taken
      /\ from' = [from EXCEPT ![HeadType] = IF @ = 0 THEN cur ELSE @]
      /\ pc' = IF IsFull \/ todo' = {} THEN "save" ELSE "query"
      /\ UNCHANGED <<rows, start, status>>
  BY <1>4 DEF QueryDone, CursorReset
<1>6. CASE more
  <2>1. Taken # SelectRows(HeadType, cur) /\ todo' = todo /\ cur' = row.usn + 1
    BY <1>1, <1>2, <1>5, <1>6 DEF QueueAfter
  <2>. QED BY <1>1, <1>2, <1>5, <2>1 DEF Page, At
<1>7. CASE ~more
  <2>1. Taken = SelectRows(HeadType, cur) /\ todo' = todo \ {HeadType} /\ cur' = start
    BY <1>1, <1>5, <1>7 DEF QueueAfter
  <2>. QED BY <1>1, <1>5, <2>1 DEF Page, At, CursorReset
<1>. QED BY <1>5, <1>6, <1>7

(* A query that added no row found none. *)
LEMMA EmptyQueryIsStuck ==
    ASSUME PullTypeOK, BatchInv, At("collect"), Taken = {}, unread = {},
           NEW more, QueryDone(more)
    PROVE  Stuck /\ pc' = pc
<1>1. /\ HeadType \in todo /\ IsNext(HeadType)
      /\ SelectRows(HeadType, cur) = {}
  BY TakenIsPrefix
<1>2. last = 0 /\ cur \in Nat
  BY DEF BatchInv, HandlerInv, QueryInv, At, PullTypeOK, PagesTypeOK
<1>3. last <= cur /\ ~(last > cur)
  BY <1>2
<1>. QED BY <1>1, <1>3 DEF QueryDone, Stuck, At

(* A query that is left with rows has added some: the limit is positive    *)
(* and a query begins only with room in the response.                      *)
LEMMA LeftAfterRows ==
    ASSUME PullTypeOK, BatchInv, At("collect"),
           IsFull \/ (HeadType # Collection /\ count = Limit[HeadType])
    PROVE  Taken # {}
<1>1. SUFFICES ASSUME Taken = {} PROVE FALSE
  OBVIOUS
<1>2. ~IsFull /\ count = Cardinality({})
  BY <1>1 DEF BatchInv, HandlerInv, QueryInv, At
<1>3. count = 0
  BY <1>2, FS_EmptySet
<1>4. HeadType \in Types
  BY TakenIsPrefix
<1>. QED BY <1>2, <1>3, <1>4, PullBatchAssumption

(* Every step of the handler is a step of PullPages or changes none of its *)
(* variables.                                                              *)
LEMMA BatchStepIsPageStep ==
    ASSUME PullTypeOK, BatchInv, [PullNext]_batchVars
    PROVE  [PagesNext]_pageVars
<1>1. CASE ClaimBatch
  BY <1>1 DEF ClaimBatch, At, Cut, PagesNext
<1>2. CASE QueryRows
  BY <1>2 DEF QueryRows, pageVars
<1>3. CASE AddChanges
  <2>1. ASSUME NEW more \in BOOLEAN, more <=> unread # {}, QueryDone(more),
               Taken # {}, At("collect")
        PROVE  PagesNext
    <3>1. Page(HeadType, Taken)
      BY <2>1, QueryIsPage
    <3>2. HeadType \in todo /\ Taken \in SUBSET SelectRows(HeadType, cur)
      BY <2>1, TakenIsPrefix DEF Prefix
    <3>. QED BY <3>1, <3>2 DEF PagesNext
  <2>2. At("collect")
    BY <1>3, CollectorLoop
  <2>3. CASE unread = {} /\ QueryDone(FALSE)
    BY <2>1, <2>2, <2>3, EmptyQueryIsStuck DEF PagesNext
  <2>4. CASE /\ unread # {} /\ QueryDone(TRUE)
             /\ IsFull \/ (HeadType # Collection /\ count = Limit[HeadType])
    BY <2>1, <2>2, <2>4, LeftAfterRows
  <2>5. CASE \E bytes \in Nat : AddChange(NextRow, bytes)
    BY <2>5 DEF AddChange
  <2>. QED BY <1>3, <2>3, <2>4, <2>5, CollectorLoop
<1>4. CASE SaveProgress
  BY <1>4 DEF SaveProgress
<1>5. CASE PullError
  BY <1>5 DEF PullError, Error, PagesNext
<1>6. CASE UNCHANGED batchVars
  BY <1>6 DEF batchVars
<1>. QED BY <1>1, <1>2, <1>3, <1>4, <1>5, <1>6 DEF PullNext

(* What does not depend on the rest of the state. *)
LEMMA SameQueue ==
    ASSUME todo' = todo
    PROVE  /\ HeadType' = HeadType
           /\ \A t : IsNext(t)' <=> IsNext(t)
           /\ cur' = cur => \A r : Passed(r)' <=> Passed(r)
BY DEF HeadType, IsNext, Passed

LEMMA SameRows ==
    ASSUME UNCHANGED <<rows, todo, cur>>
    PROVE  SelectRows(HeadType, cur)' = SelectRows(HeadType, cur)
BY SameQueue DEF SelectRows

(* Responses hold rows. *)
LEMMA ResponsesOf ==
    ASSUME NEW R, NEW q \in Seq(R),
           NEW p \in Seq([changes : Seq(R), maxUsn : Nat, lastBatch : BOOLEAN])
    PROVE  /\ \A i \in DOMAIN q : q[i] \in R
           /\ \A i \in DOMAIN p : /\ p[i].maxUsn \in Nat
                                  /\ p[i].lastBatch \in BOOLEAN
                                  /\ \A j \in DOMAIN p[i].changes :
                                        p[i].changes[j] \in R
<1> DEFINE Response == [changes : Seq(R), maxUsn : Nat, lastBatch : BOOLEAN]
<1>1. \A i \in DOMAIN p : p[i] \in Response
  <2>1. p \in Seq(Response)
    OBVIOUS
  <2> HIDE DEF Response
  <2>. QED BY <2>1
<1>2. \A i \in DOMAIN p : /\ p[i].changes \in Seq(R)
                          /\ p[i].maxUsn \in Nat
                          /\ p[i].lastBatch \in BOOLEAN
  BY <1>1
<1>3. \A s \in Seq(R) : \A j \in DOMAIN s : s[j] \in R
  OBVIOUS
<1>. QED BY <1>2, <1>3

LEMMA AddedAreRows ==
    ASSUME BatchInv
    PROVE  Added \subseteq rows
<1>1. /\ resp \in Seq(rows)
      /\ sent \in Seq([changes : Seq(rows), maxUsn : Nat, lastBatch : BOOLEAN])
  BY DEF BatchInv
<1>2. /\ \A i \in DOMAIN resp : resp[i] \in rows
      /\ \A i \in DOMAIN sent : \A j \in DOMAIN sent[i].changes :
            sent[i].changes[j] \in rows
  BY <1>1, ResponsesOf
<1>. QED BY <1>2 DEF Added, ToSet

(* An empty response is in order with any. *)
LEMMA EmptyResponse ==
    ASSUME SentInOrder, resp' = << >>, sent' = sent
    PROVE  SentInOrder' /\ Added' \subseteq Added
<1>1. ToSet(<< >>) = {} /\ Ascending(<< >>)
  BY DEF ToSet, Ascending
<1>. QED BY <1>1 DEF SentInOrder, Added

LEMMA BatchClaim ==
    ASSUME PullTypeOK, BatchInv, ClaimBatch
    PROVE  BatchInv'
<1> USE DEF ClaimBatch, At, NewPullCollector
<1>1. SentInOrder' /\ Added' \subseteq Added
  BY EmptyResponse DEF BatchInv
<1>2. HandlerInv'
  <2>1. \A r \in Added : Passed(r)
    BY DEF BatchInv, HandlerInv
  <2>2. \A r \in Added' : Passed(r)'
    BY <1>1, <2>1, SameQueue
  <2>3. pc' = "query" => todo' # {} /\ ~IsFull'
    BY PullBatchAssumption DEF IsFull
  <2>4. pc' \in {"query", "save"}
    OBVIOUS
  <2>. QED BY <2>2, <2>3, <2>4 DEF HandlerInv
<1>3. resp' \in Seq(rows')
  OBVIOUS
<1>. QED BY <1>1, <1>2, <1>3 DEF BatchInv

LEMMA BatchQuery ==
    ASSUME PullTypeOK, BatchInv, QueryRows
    PROVE  BatchInv'
<1> USE DEF QueryRows, At
<1>a. UNCHANGED <<rows, todo, cur, status, resp, size, sent>>
  BY DEF pageVars, collectorVars
<1>1. HandlerInv'
  <2>1. todo # {} /\ ~IsFull /\ \A r \in Added : Passed(r)
    BY DEF BatchInv, HandlerInv
  <2>2. HeadType \in todo /\ HeadType' = HeadType
    BY <1>a, <2>1, HeadIsNext, SameQueue DEF PullTypeOK
  <2>3. Taken' = {}
    <3> SUFFICES ASSUME NEW r \in ToSet(resp), r.type = HeadType, cur <= r.usn
                 PROVE  FALSE
      BY <1>a, <2>2 DEF Taken
    <3>1. r \in Added
      BY DEF Added
    <3>2. r.usn < cur
      BY <2>1, <2>2, <3>1 DEF Passed
    <3>3. r.usn \in Nat /\ cur \in Nat
      BY <3>1, AddedAreRows, RowFacts DEF BatchInv, PullTypeOK, PagesTypeOK
    <3>. QED BY <3>2, <3>3
  <2>4. unread' = Limited(HeadType, SelectRows(HeadType, cur))'
    BY <1>a, <2>2, SameRows DEF Limited
  <2>5. QueryInv'
    BY <1>a, <2>1, <2>3, <2>4, FS_EmptySet DEF QueryInv, IsFull
  <2>6. \A r \in Added' : Passed(r)'
    BY <1>a, <2>1, SameQueue DEF Added
  <2>. QED BY <1>a, <2>1, <2>5, <2>6 DEF HandlerInv
<1>2. SentInOrder'
  BY <1>a DEF BatchInv, SentInOrder
<1>. QED BY <1>a, <1>1, <1>2 DEF BatchInv

(* The next row of the query comes after all that was added before. *)
LEMMA NextRowIsLast ==
    ASSUME PullTypeOK, BatchInv, At("collect"), unread # {}
    PROVE  /\ NextRow \in unread /\ NextRow \in rows
           /\ NextRow.type = HeadType /\ NextRow.usn \in Nat /\ cur <= NextRow.usn
           /\ \A s \in unread \ {NextRow} : NextRow.usn < s.usn
           /\ \A r \in Added : Before(r, NextRow)
<1>1. /\ HeadType \in todo /\ HeadType \in Types /\ IsNext(HeadType)
      /\ unread \subseteq SelectRows(HeadType, cur)
      /\ unread \subseteq rows
  BY TakenIsPrefix DEF PullTypeOK
<1>2. \A r \in rows : r.usn \in Nat /\ r.type \in Types
  BY RowFacts DEF BatchInv
<1>3. NextRow \in unread /\ \A s \in unread : NextRow.usn <= s.usn
  BY <1>1, <1>2, LowestRow DEF NextRow
<1>4. /\ NextRow \in rows /\ NextRow.type = HeadType /\ NextRow.usn \in Nat
      /\ cur <= NextRow.usn
  BY <1>1, <1>2, <1>3 DEF SelectRows
<1>5. ASSUME NEW s \in unread \ {NextRow}
      PROVE  NextRow.usn < s.usn
  <2>1. NextRow.usn # s.usn /\ s.usn \in Nat /\ NextRow.usn <= s.usn
    BY <1>1, <1>2, <1>3, <1>4, RowFacts DEF BatchInv
  <2>. QED BY <1>4, <2>1
<1>6. ASSUME NEW r \in Added
      PROVE  Before(r, NextRow)
  <2>1. r.usn \in Nat /\ cur \in Nat
    BY <1>2, AddedAreRows DEF BatchInv, PullTypeOK, PagesTypeOK
  <2>2. Passed(r) \/ r \in Taken
    BY DEF BatchInv, HandlerInv, At
  <2>3. CASE Passed(r) /\ r.type \in todo
    <3>1. r.type = HeadType /\ r.usn < cur
      BY <2>3, NextIsHead DEF Passed, PullTypeOK
    <3>. QED BY <1>4, <2>1, <3>1 DEF Before
  <2>4. CASE Passed(r) /\ r.type \notin todo
    BY <1>1, <1>4, <2>4 DEF Passed, Before
  <2>5. CASE r \in Taken
    <3>1. r.type = HeadType
      BY <2>5 DEF Taken
    <3>2. r.usn < NextRow.usn
      BY <1>3, <2>5 DEF BatchInv, HandlerInv, QueryInv, At
    <3>. QED BY <1>4, <3>1, <3>2 DEF Before
  <2>. QED BY <2>2, <2>3, <2>4, <2>5
<1>. QED BY <1>3, <1>4, <1>5, <1>6

LEMMA BatchAdd ==
    ASSUME PullTypeOK, BatchInv, At("collect"), unread # {}, ~IsFull,
           NEW bytes \in Nat, AddChange(NextRow, bytes)
    PROVE  BatchInv'
<1> DEFINE row == NextRow
<1>a. /\ UNCHANGED <<rows, todo, cur, status, pc, sent>>
      /\ resp' = Append(resp, row)
      /\ last' = CursorAfter(row) /\ count' = count + 1 /\ unread' = unread \ {row}
  BY DEF AddChange, pageVars
<1>b. /\ row \in unread /\ row \in rows
      /\ row.type = HeadType /\ row.usn \in Nat /\ cur <= row.usn
      /\ \A s \in unread \ {row} : row.usn < s.usn
      /\ \A r \in Added : Before(r, row)
  BY NextRowIsLast
<1> HIDE DEF row
<1>c. ToSet(resp') = ToSet(resp) \union {row} /\ resp' \in Seq(rows)
  BY <1>a, <1>b, ToSetAppend DEF BatchInv
<1>d. HeadType' = HeadType /\ Taken' = Taken \union {row}
  <2>1. HeadType' = HeadType
    BY <1>a, SameQueue
  <2>. QED BY <1>a, <1>b, <1>c, <2>1 DEF Taken
<1>e. todo # {} /\ QueryInv /\ \A r \in Added : Passed(r) \/ r \in Taken
  BY DEF BatchInv, HandlerInv, At
<1>1. QueryInv'
  <2> DEFINE found == Limited(HeadType, SelectRows(HeadType, cur))
  <2>1. found' = found
    BY <1>a, <1>d, SameRows DEF Limited
  <2>2. /\ Taken \subseteq found /\ unread = found \ Taken
        /\ \A r \in Taken, s \in unread : r.usn < s.usn
        /\ count = Cardinality(Taken)
    BY <1>e DEF QueryInv
  <2> HIDE DEF found
  <2>3. Taken' \subseteq found' /\ unread' = found' \ Taken'
    BY <1>a, <1>b, <1>d, <2>1, <2>2
  <2>4. \A r \in Taken', s \in unread' : r.usn < s.usn
    BY <1>a, <1>b, <1>d, <2>2
  <2>5. count' = Cardinality(Taken')
    <3>1. Taken \in SUBSET rows
      <4>1. Taken \subseteq Added
        BY DEF Taken, Added
      <4>. QED BY <4>1, AddedAreRows DEF BatchInv
    <3>2. IsFiniteSet(Taken)
      BY <3>1, RowFacts, FS_Subset DEF BatchInv
    <3>3. Cardinality(Taken \union {row}) = Cardinality(Taken) + 1
      BY <1>b, <2>2, <3>2, FS_AddElement
    <3>. QED BY <1>a, <1>d, <2>2, <3>3
  <2>6. \A r \in Taken' : r.usn <= row.usn
    BY <1>b, <1>d, <2>2, AddedAreRows, RowFacts DEF BatchInv, Taken, Added
  <2>7. row \in Taken' /\ last' = CursorAfter(row)
    BY <1>a, <1>d
  <2>. QED BY <2>3, <2>4, <2>5, <2>6, <2>7 DEF QueryInv, found, CursorAfter
<1>2. Added' = Added \union {row}
  BY <1>a, <1>c DEF Added
<1>3. HandlerInv'
  <2>1. \A r \in Added' : Passed(r)' \/ r \in Taken'
    BY <1>a, <1>d, <1>e, <1>2, SameQueue
  <2>. QED BY <1>a, <1>e, <1>1, <2>1 DEF HandlerInv, At
<1>4. SentInOrder'
  <2>1. SentInOrder /\ resp \in Seq(rows)
    BY DEF BatchInv
  <2>2. Ascending(resp')
    BY <1>a, <1>b, <2>1, AscendingAppend DEF SentInOrder, Added
  <2>3. \A i \in DOMAIN sent : \A r \in ToSet(sent[i].changes) :
            \A s \in ToSet(resp') : Before(r, s)
    BY <1>b, <1>c, <2>1 DEF SentInOrder, Added
  <2>. QED BY <1>a, <2>1, <2>2, <2>3 DEF SentInOrder
<1>. QED BY <1>a, <1>c, <1>3, <1>4 DEF BatchInv

LEMMA BatchDone ==
    ASSUME PullTypeOK, BatchInv, At("collect"),
           NEW more \in BOOLEAN, more <=> unread # {}, QueryDone(more),
           Taken = {} => unread = {}
    PROVE  BatchInv'
<1>a. UNCHANGED <<rows, resp, size, sent>>
  BY DEF QueryDone, collectorVars
<1>1. HandlerInv'
  <2>1. CASE Taken = {}
    <3>1. status' = "stuck"
      BY <2>1, EmptyQueryIsStuck DEF Stuck
    <3>. QED BY <3>1 DEF HandlerInv
  <2>2. CASE Taken # {}
    <3>1. /\ todo' = QueueAfter(more)
          /\ cur' = IF more THEN last ELSE start
          /\ pc' = IF IsFull \/ todo' = {} THEN "save" ELSE "query"
      BY <2>2, QueryIsPage
    <3>2. /\ pc' \in {"save", "query"}
          /\ pc' = "query" => todo' # {} /\ ~IsFull'
      BY <1>a, <3>1 DEF IsFull
    <3>3. ASSUME NEW r \in Added'
          PROVE  Passed(r)'
      <4>1. r \in Added /\ r.usn \in Nat /\ cur \in Nat /\ r.type \in Types
        BY <1>a, AddedAreRows, RowFacts DEF BatchInv, PullTypeOK, PagesTypeOK, Added
      <4>2. Passed(r) \/ r \in Taken
        BY <4>1 DEF BatchInv, HandlerInv, At
      <4>3. HeadType \in todo /\ IsNext(HeadType) /\ HeadType \in Types
        BY TakenIsPrefix
      <4>4. r.type \in todo => r.type = HeadType
        BY <4>2, NextIsHead DEF Passed, Taken, PullTypeOK
      <4>5. CASE more
        <5>1. PICK row \in Taken : /\ \A x \in Taken : x.usn <= row.usn
                                   /\ last = row.usn + 1
          BY <2>2 DEF BatchInv, HandlerInv, QueryInv, At, CursorAfter
        <5>2. row.usn \in Nat /\ cur <= row.usn
          BY AddedAreRows, RowFacts DEF BatchInv, Taken, Added
        <5>3. todo' = todo /\ cur' = row.usn + 1
          BY <3>1, <4>5, <5>1 DEF QueueAfter
        <5>4. CASE r.type \in todo
          <6>1. r.usn < cur \/ r.usn <= row.usn
            BY <4>2, <5>1, <5>4 DEF Passed
          <6>2. r.usn < cur'
            BY <4>1, <5>2, <5>3, <6>1
          <6>. QED BY <4>3, <4>4, <5>3, <5>4, <6>2, SameQueue DEF Passed
        <5>5. CASE r.type \notin todo
          <6>1. r \notin Taken
            BY <4>3, <5>5 DEF Taken
          <6>. QED BY <4>2, <5>3, <5>5, <6>1 DEF Passed
        <5>. QED BY <5>4, <5>5
      <4>6. CASE ~more
        <5>1. todo' = todo \ {HeadType}
          BY <3>1, <4>6 DEF QueueAfter
        <5>2. r.type \notin todo'
          BY <4>4, <5>1
        <5>3. ASSUME NEW t \in todo'
              PROVE  r.type < t
          <6>1. t \in todo /\ t # HeadType /\ t \in Nat /\ HeadType \in Nat
            BY <4>3, <5>1 DEF PullTypeOK, PagesTypeOK, Types
          <6>2. HeadType < t
            BY <4>3, <6>1 DEF IsNext
          <6>3. CASE r.type \in todo
            BY <4>4, <6>2, <6>3
          <6>4. CASE r.type \notin todo
            BY <4>2, <4>3, <6>1, <6>4 DEF Passed, Taken
          <6>. QED BY <6>3, <6>4
        <5>. QED BY <5>2, <5>3 DEF Passed
      <4>. QED BY <4>5, <4>6
    <3>. QED BY <3>2, <3>3 DEF HandlerInv
  <2>. QED BY <2>1, <2>2
<1>2. SentInOrder'
  BY <1>a DEF BatchInv, SentInOrder
<1>. QED BY <1>a, <1>1, <1>2 DEF BatchInv

LEMMA BatchSave ==
    ASSUME PullTypeOK, BatchInv, SaveProgress
    PROVE  BatchInv'
<1> DEFINE Response == [changes : Seq(rows), maxUsn : Nat, lastBatch : BOOLEAN]
<1> DEFINE response == [changes |-> resp, maxUsn |-> maxUsn, lastBatch |-> todo = {}]
<1>a. /\ UNCHANGED <<rows, todo, cur, status>>
      /\ resp' = << >>
      /\ sent' = Append(sent, response)
      /\ pc = "save" /\ status = "running" /\ pc' \in {"finished", "claim"}
  BY DEF SaveProgress, pageVars, At
<1>b. response \in Response /\ sent \in Seq(Response) /\ response.changes = resp
  BY DEF BatchInv, PullTypeOK
<1>c. /\ ToSet(<< >>) = {} /\ Ascending(<< >>)
      /\ << >> \in Seq(rows)
  BY DEF ToSet, Ascending
<1> HIDE DEF Response, response
<1>d. /\ Len(sent) \in Nat /\ DOMAIN sent = 1 .. Len(sent)
      /\ DOMAIN sent' = 1 .. Len(sent) + 1
      /\ \A i \in DOMAIN sent : sent'[i] = sent[i]
      /\ sent'[Len(sent) + 1] = response
      /\ sent' \in Seq(Response)
  BY <1>a, <1>b
<1>e. \A i \in DOMAIN sent' : i \in DOMAIN sent \/ i = Len(sent) + 1
  BY <1>d
<1>1. Added' \subseteq Added
  BY <1>a, <1>b, <1>c, <1>d, <1>e DEF Added
<1>2. HandlerInv'
  <2>1. \A r \in Added : Passed(r)
    BY <1>a DEF BatchInv, HandlerInv
  <2>2. \A r \in Added' : Passed(r)'
    BY <1>a, <1>1, <2>1, SameQueue
  <2>. QED BY <1>a, <2>2 DEF HandlerInv
<1>3. SentInOrder'
  <2>1. SentInOrder
    BY DEF BatchInv
  <2>2. Ascending(resp') /\ ToSet(resp') = {}
    BY <1>a, <1>c
  <2>3. ASSUME NEW i \in DOMAIN sent'
        PROVE  Ascending(sent'[i].changes)
    BY <1>b, <1>d, <1>e, <2>1 DEF SentInOrder
  <2>4. ASSUME NEW i \in DOMAIN sent', NEW j \in DOMAIN sent', i < j,
               NEW r \in ToSet(sent'[i].changes), NEW s \in ToSet(sent'[j].changes)
        PROVE  Before(r, s)
    <3>1. i \in DOMAIN sent /\ sent'[i] = sent[i]
      BY <1>d, <2>4
    <3>2. CASE j \in DOMAIN sent
      <4>1. sent'[j] = sent[j]
        BY <1>d, <3>2
      <4>. QED BY <2>1, <2>4, <3>1, <3>2, <4>1 DEF SentInOrder
    <3>3. CASE j = Len(sent) + 1
      <4>1. s \in ToSet(resp)
        BY <1>b, <1>d, <3>3
      <4>. QED BY <2>1, <3>1, <4>1 DEF SentInOrder
    <3>. QED BY <1>e, <3>2, <3>3
  <2>. QED BY <2>2, <2>3, <2>4 DEF SentInOrder
<1>. QED BY <1>a, <1>c, <1>d, <1>2, <1>3 DEF BatchInv, Response

(* BatchInv is inductive, given the types. *)
LEMMA BatchInvStep ==
    ASSUME PullTypeOK, BatchInv, [PullNext]_batchVars
    PROVE  BatchInv'
<1>1. CASE AddChanges
  <2>1. At("collect")
    BY <1>1, CollectorLoop
  <2>2. CASE unread = {} /\ QueryDone(FALSE)
    BY <2>1, <2>2, BatchDone
  <2>3. CASE /\ unread # {} /\ QueryDone(TRUE)
             /\ IsFull \/ (HeadType # Collection /\ count = Limit[HeadType])
    BY <2>1, <2>3, BatchDone, LeftAfterRows
  <2>4. CASE /\ unread # {} /\ ~IsFull
             /\ \E bytes \in Nat : AddChange(NextRow, bytes)
    BY <2>1, <2>4, BatchAdd
  <2>. QED BY <1>1, <2>2, <2>3, <2>4, CollectorLoop
<1>2. CASE PullError
  <2>1. UNCHANGED <<rows, resp, sent>> /\ status' = "error"
    BY <1>2 DEF PullError, collectorVars
  <2>2. SentInOrder' /\ HandlerInv'
    BY <2>1 DEF BatchInv, SentInOrder, HandlerInv
  <2>. QED BY <2>1, <2>2 DEF BatchInv
<1>3. CASE UNCHANGED batchVars
  <2> USE <1>3 DEF batchVars, pageVars, queryVars, collectorVars
  <2>1. /\ HeadType' = HeadType /\ Taken' = Taken /\ Added' = Added
        /\ SelectRows(HeadType, cur)' = SelectRows(HeadType, cur)
        /\ \A r : Passed(r)' <=> Passed(r)
    BY SameQueue, SameRows DEF Taken, Added
  <2>2. QueryInv' <=> QueryInv
    BY <2>1 DEF QueryInv, Limited, IsFull, CursorAfter
  <2>3. HandlerInv'
    BY <2>1, <2>2 DEF BatchInv, HandlerInv, IsFull
  <2>4. SentInOrder'
    BY DEF BatchInv, SentInOrder
  <2>. QED BY <2>3, <2>4 DEF BatchInv
<1>. QED BY <1>1, <1>2, <1>3, BatchClaim, BatchQuery, BatchSave DEF PullNext

(* Every action preserves the types, given BatchInv. *)
LEMMA PullTypeStep ==
    ASSUME PullTypeOK, BatchInv, [PullNext]_batchVars
    PROVE  PullTypeOK'
<1>1. PagesTypeOK'
  BY BatchStepIsPageStep, PagesTypeStep DEF PullTypeOK
<1>2. /\ \A r \in rows' : IsRow(r)
      /\ \A i \in DOMAIN resp' : resp'[i] \in rows'
      /\ \A i \in DOMAIN sent' : /\ \A j \in DOMAIN sent'[i].changes :
                                        sent'[i].changes[j] \in rows'
                                 /\ sent'[i].maxUsn \in Nat
                                 /\ sent'[i].lastBatch \in BOOLEAN
  <2>1. BatchInv'
    BY BatchInvStep
  <2>2. /\ rows' \in Databases /\ resp' \in Seq(rows')
        /\ sent' \in Seq([changes : Seq(rows'), maxUsn : Nat, lastBatch : BOOLEAN])
    BY <2>1 DEF BatchInv
  <2>3. \A r \in rows' : IsRow(r)
    BY <2>2, PullBatchAssumption
  <2>. QED BY <2>2, <2>3, ResponsesOf
<1>3. /\ pc' \in Points /\ unread' \subseteq rows' /\ count' \in Nat
      /\ last' \in Nat /\ size' \in Nat /\ maxUsn' \in Nat
      /\ pc' = "collect" /\ HeadType' # Collection => count' <= Limit[HeadType']
  <2> DEFINE Rest ==
        /\ pc' \in Points /\ unread' \subseteq rows' /\ count' \in Nat
        /\ last' \in Nat /\ size' \in Nat /\ maxUsn' \in Nat
        /\ pc' = "collect" /\ HeadType' # Collection => count' <= Limit[HeadType']
  <2> USE DEF PullTypeOK, Points
  <2>1. CASE ClaimBatch
    BY <2>1 DEF ClaimBatch, At, NewPullCollector, queryVars
  <2>2. CASE QueryRows
    <3>1. /\ UNCHANGED <<rows, todo, cur, size, maxUsn>>
          /\ pc' = "collect" /\ count' = 0 /\ last' = 0
          /\ unread' = Limited(HeadType, SelectRows(HeadType, cur))
      BY <2>2 DEF QueryRows, At, pageVars, collectorVars
    <3>2. HeadType' = HeadType /\ HeadType \in Types
      BY <2>2, <3>1, SameQueue, HeadIsNext DEF QueryRows, At, BatchInv, HandlerInv
    <3>3. 0 <= Limit[HeadType]
      BY <3>2, PullBatchAssumption
    <3>4. unread' \subseteq rows
      BY <3>1 DEF Limited, SelectRows
    <3>. QED BY <3>1, <3>2, <3>3, <3>4
  <2>3. ASSUME NEW more, QueryDone(more), At("collect")
        PROVE  Rest
    <3>1. /\ unread' = {} /\ count' = 0 /\ last' = 0
          /\ UNCHANGED <<size, maxUsn, rows>>
          /\ pc' \in Points
          /\ pc' = "collect" => todo' = todo
      BY <2>3 DEF QueryDone, collectorVars
    <3>2. pc' = "collect" => 0 <= Limit[HeadType']
      BY <2>3, <3>1, SameQueue, TakenIsPrefix, PullBatchAssumption
    <3>. QED BY <3>1, <3>2
  <2>4. ASSUME NEW bytes \in Nat, AddChange(NextRow, bytes), At("collect"),
               unread # {}, HeadType # Collection => count # Limit[HeadType]
        PROVE  Rest
    <3>1. /\ UNCHANGED <<rows, todo, pc>>
          /\ size' = size + bytes
          /\ maxUsn' = IF NextRow.usn > maxUsn THEN NextRow.usn ELSE maxUsn
          /\ last' = NextRow.usn + 1 /\ count' = count + 1
          /\ unread' \subseteq unread
      BY <2>4 DEF AddChange, CursorAfter, pageVars
    <3>2. NextRow.usn \in Nat
      BY <2>4, NextRowIsLast
    <3>3. HeadType' = HeadType /\ HeadType \in Types
      BY <2>4, <3>1, SameQueue, TakenIsPrefix
    <3>4. HeadType # Collection => count + 1 <= Limit[HeadType]
      BY <2>4, <3>3, PullBatchAssumption DEF At
    <3>. QED BY <3>1, <3>2, <3>3, <3>4
  <2>5. CASE AddChanges
    BY <2>3, <2>4, <2>5, CollectorLoop
  <2>6. CASE SaveProgress
    <3>1. UNCHANGED <<rows, unread, count, last, size, maxUsn>>
          /\ pc' \in {"finished", "claim"}
      BY <2>6 DEF SaveProgress, pageVars, queryVars
    <3>. QED BY <3>1
  <2>7. CASE PullError
    <3>1. UNCHANGED <<rows, todo, pc, unread, count, last, size, maxUsn>>
      BY <2>7 DEF PullError, queryVars, collectorVars
    <3>. QED BY <3>1, SameQueue
  <2>8. CASE UNCHANGED batchVars
    <3>1. UNCHANGED <<rows, todo, pc, unread, count, last, size, maxUsn>>
      BY <2>8 DEF batchVars, pageVars, queryVars, collectorVars
    <3>. QED BY <3>1, SameQueue
  <2>. QED BY <2>1, <2>2, <2>5, <2>6, <2>7, <2>8 DEF PullNext
<1>. QED BY <1>1, <1>2, <1>3 DEF PullTypeOK

(* A pull begins with nothing added, and as paging begins. *)
LEMMA BatchStart ==
    ASSUME PullInit
    PROVE  PullTypeOK /\ BatchInv /\ PagesInit
<1> USE DEF PullInit
<1>1. PagesInit /\ PagesTypeOK
  BY PullPagesAssumption DEF PagesInit, PagesTypeOK, TypeQueue
<1>2. ToSet(<< >>) = {} /\ Ascending(<< >>) /\ DOMAIN << >> = {}
  BY DEF ToSet, Ascending
<1>3. SentInOrder /\ Added = {}
  BY <1>2 DEF SentInOrder, Added
<1>4. BatchInv
  BY <1>3 DEF BatchInv, HandlerInv
<1>5. PullTypeOK
  BY <1>1, <1>2, RowFacts DEF PullTypeOK, Points
<1>. QED BY <1>1, <1>4, <1>5

(* The inductive invariant of the row-by-row pull: the collector holds a   *)
(* prefix of its query, and all that was added is behind the queue and the *)
(* cursor.                                                                 *)
THEOREM BatchCorrect == PullSpec => [](PullTypeOK /\ BatchInv)
<1>1. PullInit => PullTypeOK /\ BatchInv
  BY BatchStart
<1>2. PullTypeOK /\ BatchInv /\ [PullNext]_batchVars => (PullTypeOK /\ BatchInv)'
  BY BatchInvStep, PullTypeStep
<1>. QED BY <1>1, <1>2, PTL DEF PullSpec

(* The variables of the handler and the collectors keep their types, and   *)
(* no collector takes more rows than its limit.                            *)
THEOREM PullTypeCorrect == PullSpec => []PullTypeOK
BY BatchCorrect, PTL

(* Whatever the rows, the limits and the capacity: over all responses of a *)
(* pull the changes come by type and by USN, and none twice.               *)
THEOREM ChangesInOrder == PullSpec => []SentInOrder
<1>1. BatchInv => SentInOrder
  BY DEF BatchInv
<1>. QED BY <1>1, BatchCorrect, PTL

(* The seven collectors implement paging: every query that ends is a page  *)
(* or finds nothing, every claimed batch a cut, every fault an error.      *)
THEOREM PagesImplemented == PullSpec => ImplementsPages
<1>1. PullInit => PagesInit
  BY BatchStart
<1>2. PullTypeOK /\ BatchInv /\ [PullNext]_batchVars => [PagesNext]_pageVars
  BY BatchStepIsPageStep
<1>. QED BY <1>1, <1>2, BatchCorrect, PTL DEF PullSpec, PagesSpec, ImplementsPages

(* So the program omits nothing within a type, and a pull that was never   *)
(* cut in the middle of a type omits nothing and does not fail for want of *)
(* a row.                                                                  *)
THEOREM ProgramTypesComplete == PullSpec => []CollectedFromStart
BY PagesImplemented, TypesComplete, PTL DEF ImplementsPages

THEOREM ProgramUncutPullsComplete == PullSpec => []FailsOnlyAfterCut
BY PagesImplemented, UncutPullsComplete, PTL DEF ImplementsPages

-----------------------------------------------------------------------------
(***************************************************************************)
(* The size of the responses: FillInv is inductive beside BatchInv.        *)
(***************************************************************************)

(* f has the running totals of changes: the equation that defines Totals. *)
IsTotals(f, changes) ==
    f = [k \in 0..Len(changes) |-> IF k = 0 THEN 0 ELSE f[k - 1] + RowSize(changes[k])]

(* The equation has at most one solution: two have no least difference. *)
LEMMA TotalsUnique ==
    ASSUME NEW R, NEW changes \in Seq(R), NEW f, IsTotals(f, changes),
           NEW h, IsTotals(h, changes)
    PROVE  f = h
<1> DEFINE D == 0..Len(changes)
           Differ == {k \in D : f[k] # h[k]}
<1>1. Len(changes) \in Nat
  OBVIOUS
<1>2. /\ \A k \in D : f[k] = IF k = 0 THEN 0 ELSE f[k - 1] + RowSize(changes[k])
      /\ \A k \in D : h[k] = IF k = 0 THEN 0 ELSE h[k - 1] + RowSize(changes[k])
      /\ f = [k \in D |-> f[k]] /\ h = [k \in D |-> h[k]]
  BY DEF IsTotals
<1>3. Differ = {}
  <2>1. SUFFICES ASSUME Differ # {} PROVE FALSE
    OBVIOUS
  <2>2. PICK k \in Differ : \A j \in Differ : k <= j
    <3>1. Differ \in SUBSET Nat
      OBVIOUS
    <3> HIDE DEF Differ
    <3> QED
      BY <2>1, <3>1, NatMin
  <2>3. k # 0
    BY <1>2, <2>2
  <2>4. k - 1 \in D /\ k - 1 \notin Differ
    BY <1>1, <2>2, <2>3
  <2> QED
    BY <1>2, <2>2, <2>3, <2>4
<1> QED
  BY <1>2, <1>3

(* Totals is a solution when there is one. *)
LEMMA TotalsChosen ==
    ASSUME NEW changes, NEW f, IsTotals(f, changes)
    PROVE  IsTotals(Totals(changes), changes)
BY DEF IsTotals, Totals

LEMMA TotalsEmpty ==
    IsTotals(Totals(<< >>), << >>) /\ Totals(<< >>)[0] = 0
<1> DEFINE f == [k \in {0} |-> 0]
<1>1. 0..Len(<< >>) = {0}
  OBVIOUS
<1>2. IsTotals(f, << >>)
  BY <1>1 DEF IsTotals
<1>3. IsTotals(Totals(<< >>), << >>)
  BY <1>2, TotalsChosen
<1> QED
  BY <1>1, <1>3 DEF IsTotals

(* A row more adds its size, and leaves the totals before it alone. *)
LEMMA TotalsAppend ==
    ASSUME NEW R, NEW changes \in Seq(R), NEW row \in R,
           IsTotals(Totals(changes), changes)
    PROVE  LET more == Append(changes, row) IN
           /\ IsTotals(Totals(more), more)
           /\ Totals(more)[Len(changes)] = Totals(changes)[Len(changes)]
           /\ Totals(more)[Len(more)] = Totals(changes)[Len(changes)] + RowSize(row)
<1> DEFINE n == Len(changes)
           more == Append(changes, row)
           old == Totals(changes)
           f == [k \in 0..(n + 1) |-> IF k = n + 1 THEN old[n] + RowSize(row) ELSE old[k]]
<1>1. /\ n \in Nat /\ more \in Seq(R) /\ Len(more) = n + 1
      /\ \A k \in 1..n : more[k] = changes[k]
      /\ more[n + 1] = row
  OBVIOUS
<1> HIDE DEF more
<1>2. \A k \in 0..n : old[k] = IF k = 0 THEN 0 ELSE old[k - 1] + RowSize(changes[k])
  BY DEF IsTotals
<1> HIDE DEF old, n
<1>3. IsTotals(f, more)
  <2>1. ASSUME NEW k \in 0..(n + 1)
        PROVE  f[k] = IF k = 0 THEN 0 ELSE f[k - 1] + RowSize(more[k])
    <3>1. CASE k = n + 1
      BY <1>1, <3>1
    <3>2. CASE k = 0
      BY <1>1, <1>2, <3>2
    <3>3. CASE k \in 1..n
      BY <1>1, <1>2, <3>3
    <3> QED
      BY <1>1, <3>1, <3>2, <3>3
  <2>2. f = [k \in 0..(n + 1) |-> f[k]]
    OBVIOUS
  <2> HIDE DEF f
  <2> QED
    BY <1>1, <2>1, <2>2 DEF IsTotals
<1>4. IsTotals(Totals(more), more)
  BY <1>3, TotalsChosen
<1>5. Totals(more) = f
  BY <1>1, <1>3, <1>4, TotalsUnique
<1>6. f[n] = old[n] /\ f[n + 1] = old[n] + RowSize(row)
  BY <1>1
<1> QED
  BY <1>1, <1>4, <1>5, <1>6 DEF more, old, n

(* A row is added with the size that its type has. *)
LEMMA AddsItsSize ==
    ASSUME PullTypeOK, BatchInv, AddChanges
    PROVE  /\ At("collect")
           /\ \/ \E more \in BOOLEAN : QueryDone(more)
              \/ /\ unread # {} /\ ~IsFull
                 /\ AddChange(NextRow, RowSize(NextRow))
<1>1. At("collect")
  BY CollectorLoop
<1> DEFINE Done == \E more \in BOOLEAN : QueryDone(more)
<1> SUFFICES ASSUME ~Done
             PROVE  unread # {} /\ ~IsFull /\ AddChange(NextRow, RowSize(NextRow))
  BY <1>1
<1>2. ~QueryDone(TRUE) /\ ~QueryDone(FALSE)
  OBVIOUS
<1> HIDE DEF Done
<1>3. \E type \in Types : \E limited, bytes :
         /\ Collect(type, limited, bytes)
         /\ NextRow.type = type => bytes = RowSize(NextRow)
  <2> USE DEF RowSize, Types, Collection, Deck, NoteType, ProcessingNote, Note, Card,
              ReviewLog
  <2>1. CASE AddCollectionChanges
    <3>1. Collect(1, FALSE, CollectionSize(NextRow))
      BY <2>1 DEF AddCollectionChanges
    <3>2. NextRow.type = 1 => CollectionSize(NextRow) = RowSize(NextRow)
      OBVIOUS
    <3>3. 1 \in Types
      OBVIOUS
    <3> HIDE DEF RowSize, Types
    <3> QED
      BY <3>1, <3>2, <3>3
  <2>2. CASE AddDeckChanges
    BY <2>2 DEF AddDeckChanges
  <2>3. CASE AddNoteTypeChanges
    BY <2>3 DEF AddNoteTypeChanges
  <2>4. CASE AddProcessingNoteChanges
    BY <2>4 DEF AddProcessingNoteChanges
  <2>5. CASE AddNoteChanges
    BY <2>5 DEF AddNoteChanges
  <2>6. CASE AddCardChanges
    BY <2>6 DEF AddCardChanges
  <2>7. CASE AddReviewLogChanges
    BY <2>7 DEF AddReviewLogChanges
  <2> QED
    BY <2>1, <2>2, <2>3, <2>4, <2>5, <2>6, <2>7 DEF AddChanges
<1>4. PICK type, bytes : /\ HeadType = type /\ unread # {} /\ ~IsFull
                         /\ AddChange(NextRow, bytes)
                         /\ NextRow.type = type => bytes = RowSize(NextRow)
  BY <1>2, <1>3 DEF Collect
<1>5. NextRow.type = HeadType
  BY <1>1, <1>4, NextRowIsLast
<1> QED
  BY <1>4, <1>5

(* The response in the making has running totals. *)
TotalsInv == IsTotals(Totals(resp), resp)

FilledInv == FillInv /\ TotalsInv

LEMMA FilledClaim ==
    ASSUME PullTypeOK, BatchInv, FilledInv, ClaimBatch
    PROVE  FilledInv'
<1> USE DEF ClaimBatch, At, NewPullCollector
<1>1. resp' = << >> /\ size' = 0 /\ maxUsn' = 0 /\ Len(resp') = 0 /\ ToSet(resp') = {}
  BY DEF ToSet
<1>2. TotalsInv' /\ CollectorInv'
  BY <1>1, TotalsEmpty DEF TotalsInv, CollectorInv
<1>3. UNCHANGED <<rows, todo, sent>> /\ TypeQueue' = TypeQueue
  BY DEF TypeQueue, SelectRows
<1>4. ResponsesFilled'
  BY <1>3 DEF FilledInv, FillInv, ResponsesFilled
<1> QED
  BY <1>1, <1>2, <1>3, <1>4 DEF FilledInv, FillInv

LEMMA FilledQuery ==
    ASSUME PullTypeOK, BatchInv, FilledInv, QueryRows
    PROVE  FilledInv'
<1>1. UNCHANGED <<rows, todo, sent, resp, size, maxUsn>> /\ pc = "query" /\ pc' = "collect"
  BY DEF QueryRows, At, pageVars, collectorVars
<1>2. TypeQueue' = TypeQueue
  BY <1>1 DEF TypeQueue, SelectRows
<1>3. ResponsesFilled' /\ CollectorInv' /\ TotalsInv'
  BY <1>1, <1>2 DEF FilledInv, FillInv, ResponsesFilled, CollectorInv, TotalsInv
<1> QED
  BY <1>1, <1>3 DEF FilledInv, FillInv

LEMMA FilledAdd ==
    ASSUME PullTypeOK, BatchInv, FilledInv, At("collect"), unread # {}, ~IsFull,
           AddChange(NextRow, RowSize(NextRow))
    PROVE  FilledInv'
<1> DEFINE row == NextRow
           n == Len(resp)
<1>1. /\ UNCHANGED <<rows, todo, sent, pc>> /\ pc = "collect"
      /\ resp' = Append(resp, row) /\ size' = size + RowSize(row)
      /\ maxUsn' = IF row.usn > maxUsn THEN row.usn ELSE maxUsn
  BY DEF AddChange, At, pageVars
<1>2. /\ row \in rows /\ row.usn \in Nat /\ resp \in Seq(rows) /\ size \in Nat
      /\ maxUsn \in Nat /\ n \in Nat /\ Len(resp') = n + 1 /\ resp' # << >>
  <2>1. row \in rows /\ row.usn \in Nat
    BY NextRowIsLast
  <2>2. resp \in Seq(rows) /\ size \in Nat /\ maxUsn \in Nat
    BY DEF BatchInv, PullTypeOK
  <2> HIDE DEF row
  <2>. QED BY <1>1, <2>1, <2>2
<1>3. CollectorInv /\ TotalsInv
  BY <1>1 DEF FilledInv, FillInv
<1>4. /\ TotalsInv' /\ Totals(resp')[n] = size
      /\ Totals(resp')[n + 1] = size + RowSize(row)
  BY <1>1, <1>2, <1>3, TotalsAppend DEF TotalsInv, CollectorInv
<1>5. ToSet(resp') = ToSet(resp) \union {row}
  BY <1>1, <1>2, ToSetAppend
<1>6. \A r \in ToSet(resp) : r.usn \in Nat /\ r.usn <= maxUsn
  <2>1. \A r \in ToSet(resp) : r \in rows
    BY <1>2 DEF ToSet
  <2> QED
    BY <1>3, <2>1, RowFacts DEF CollectorInv, BatchInv
<1> HIDE DEF row
<1>7. /\ \E r \in ToSet(resp') : r.usn = maxUsn'
      /\ \A r \in ToSet(resp') : r.usn <= maxUsn'
  <2>1. CASE row.usn > maxUsn
    BY <1>1, <1>2, <1>5, <1>6, <2>1
  <2>2. CASE ~(row.usn > maxUsn) /\ resp # << >>
    BY <1>1, <1>2, <1>3, <1>5, <1>6, <2>2 DEF CollectorInv
  <2>3. CASE ~(row.usn > maxUsn) /\ resp = << >>
    <3>1. maxUsn = 0 /\ row.usn = 0
      BY <1>2, <1>3, <2>3 DEF CollectorInv
    <3> QED
      BY <1>1, <1>5, <1>6, <2>3, <3>1
  <2> QED
    BY <2>1, <2>2, <2>3
<1>8. size < MaxBatchSize
  BY <1>2, PullBatchAssumption DEF IsFull
<1>9. CollectorInv'
  <2>1. (n + 1) - 1 = n
    BY <1>2
  <2> QED
    BY <1>1, <1>2, <1>4, <1>7, <1>8, <2>1 DEF CollectorInv
<1>10. ResponsesFilled'
  <2>1. TypeQueue' = TypeQueue
    BY <1>1 DEF TypeQueue, SelectRows
  <2> QED
    BY <1>1, <2>1 DEF FilledInv, FillInv, ResponsesFilled
<1> QED
  BY <1>1, <1>4, <1>9, <1>10 DEF FilledInv, FillInv

LEMMA FilledDone ==
    ASSUME PullTypeOK, BatchInv, FilledInv, At("collect"),
           NEW more \in BOOLEAN, QueryDone(more)
    PROVE  FilledInv'
<1>1. UNCHANGED <<rows, sent, resp, size, maxUsn>> /\ pc = "collect"
  BY DEF QueryDone, At, collectorVars
<1>2. TypeQueue' = TypeQueue
  BY <1>1 DEF TypeQueue, SelectRows
<1>3. ResponsesFilled' /\ CollectorInv' /\ TotalsInv' /\ (IsFull' <=> IsFull)
  BY <1>1, <1>2 DEF FilledInv, FillInv, ResponsesFilled, CollectorInv, TotalsInv, IsFull
<1>4. CASE pc' = "collect"
  BY <1>3, <1>4 DEF FilledInv, FillInv
<1>5. CASE pc' # "collect"
  <2>1. last > cur /\ pc' \in {"query", "save"} /\ (pc' = "save" => IsFull \/ todo' = {})
    BY <1>1, <1>5 DEF QueryDone
  <2>2. Taken # {}
    <3>1. cur \in Nat
      BY DEF PullTypeOK, PagesTypeOK
    <3> QED
      BY <2>1, <3>1 DEF BatchInv, HandlerInv, QueryInv, At
  <2>3. resp # << >>
    BY <2>2 DEF Taken, ToSet
  <2> QED
    BY <1>1, <1>3, <2>1, <2>3 DEF FilledInv, FillInv
<1> QED
  BY <1>4, <1>5

LEMMA FilledSave ==
    ASSUME PullTypeOK, BatchInv, FilledInv, SaveProgress
    PROVE  FilledInv'
<1> DEFINE response == [changes |-> resp, maxUsn |-> maxUsn, lastBatch |-> todo = {}]
           m == Len(sent)
<1>1. /\ UNCHANGED <<rows, todo>> /\ pc = "save" /\ resp' = << >>
      /\ sent' = Append(sent, response)
      /\ pc' = IF todo = {} THEN "finished" ELSE "claim"
  BY DEF SaveProgress, At, pageVars
<1>2. /\ CollectorInv /\ (IsFull \/ todo = {})
      /\ resp = << >> => TypeQueue = {} /\ sent = << >> /\ todo = {}
  BY <1>1 DEF FilledInv, FillInv
<1>3. /\ m \in Nat /\ DOMAIN sent = 1..m /\ DOMAIN sent' = 1..(m + 1)
      /\ \A i \in 1..m : sent'[i] = sent[i]
      /\ sent'[m + 1] = response
  BY <1>1 DEF BatchInv
<1>4. TypeQueue' = TypeQueue
  BY <1>1 DEF TypeQueue, SelectRows
<1>5. /\ response.changes = resp /\ response.maxUsn = maxUsn
      /\ response.lastBatch = (todo = {})
  OBVIOUS
<1> HIDE DEF response
<1> DEFINE Filled(i, r) ==
              \/ /\ r.changes = << >> /\ TypeQueue = {}
                 /\ i = 1 /\ r.maxUsn = 0 /\ r.lastBatch
              \/ /\ r.changes # << >>
                 /\ Totals(r.changes)[Len(r.changes) - 1] < MaxBatchSize
                 /\ Totals(r.changes)[Len(r.changes)] >= MaxBatchSize \/ r.lastBatch
                 /\ \E x \in ToSet(r.changes) : x.usn = r.maxUsn
                 /\ \A x \in ToSet(r.changes) : x.usn <= r.maxUsn
<1>6. Filled(m + 1, response)
  <2>1. CASE resp = << >>
    <3>1. m + 1 = 1
      BY <1>2, <2>1
    <3>2. response.changes = << >> /\ response.maxUsn = 0 /\ response.lastBatch
      BY <1>2, <1>5, <2>1 DEF CollectorInv
    <3> QED
      BY <1>2, <2>1, <3>1, <3>2
  <2>2. CASE resp # << >>
    BY <1>2, <1>5, <2>2 DEF CollectorInv, IsFull
  <2> QED
    BY <2>1, <2>2
<1>7. \A i \in 1..m : Filled(i, sent[i])
  BY <1>3 DEF FilledInv, FillInv, ResponsesFilled
<1> HIDE DEF Filled
<1>8. \A i \in 1..(m + 1) : Filled(i, sent'[i])
  <2>1. \A i \in 1..(m + 1) : i = m + 1 \/ i \in 1..m
    BY <1>3
  <2> QED
    BY <1>3, <1>6, <1>7, <2>1
<1>9. ResponsesFilled'
  BY <1>3, <1>4, <1>8 DEF ResponsesFilled, Filled
<1>10. TotalsInv'
  BY <1>1, TotalsEmpty DEF TotalsInv
<1> QED
  BY <1>1, <1>9, <1>10 DEF FilledInv, FillInv

LEMMA FilledStep ==
    ASSUME PullTypeOK, BatchInv, FilledInv, [PullNext]_batchVars
    PROVE  FilledInv'
<1>1. CASE AddChanges
  BY <1>1, AddsItsSize, FilledAdd, FilledDone
<1>2. CASE PullError \/ UNCHANGED batchVars
  <2>1. UNCHANGED <<rows, todo, pc, resp, size, maxUsn, sent>>
    BY <1>2 DEF PullError, batchVars, pageVars, collectorVars
  <2>2. TypeQueue' = TypeQueue
    BY <2>1 DEF TypeQueue, SelectRows
  <2>3. ResponsesFilled' /\ TotalsInv' /\ (IsFull' <=> IsFull) /\ (CollectorInv' <=> CollectorInv)
    BY <2>1, <2>2 DEF FilledInv, FillInv, ResponsesFilled, CollectorInv, TotalsInv, IsFull
  <2> QED
    BY <2>1, <2>2, <2>3 DEF FilledInv, FillInv
<1> QED
  BY <1>1, <1>2, FilledClaim, FilledQuery, FilledSave DEF PullNext

(* Whatever the rows, their sizes, the limits and the capacity: a response *)
(* goes beyond the capacity by its last row only, is full or the last one, *)
(* and is empty only when the pull has nothing to send.                    *)
THEOREM ResponsesWellFilled == PullSpec => []ResponsesFilled
<1>1. PullInit => FilledInv
  <2> SUFFICES ASSUME PullInit PROVE FilledInv
    OBVIOUS
  <2>1. pc = "claim" /\ resp = << >> /\ sent = << >> /\ DOMAIN sent = {} /\ todo = TypeQueue
    BY DEF PullInit, PagesInit
  <2> QED
    BY <2>1, TotalsEmpty DEF FilledInv, FillInv, TotalsInv, ResponsesFilled
<1>2. PullTypeOK /\ BatchInv /\ FilledInv /\ [PullNext]_batchVars => FilledInv'
  BY FilledStep
<1>3. FilledInv => ResponsesFilled
  BY DEF FilledInv, FillInv
<1>. QED BY <1>1, <1>2, <1>3, BatchCorrect, PTL DEF PullSpec
=============================================================================
