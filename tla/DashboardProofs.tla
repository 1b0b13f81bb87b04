-------------------------- MODULE DashboardProofs ---------------------------
(* Theorems of the observer server and of what the tab shows, for any number of
   tasks, writes, events, milliseconds, page requests and connections. *)
EXTENDS Dashboard, SequenceTheorems, FiniteSetTheorems, NaturalsInduction, WellFoundedInduction, TLAPS

RowOK == [version : Nat, at : Nat]

(* Rows were written by now. *)
RowsAreTimed ==
  /\ clock \in Nat
  /\ rows \in Seq(RowOK)
  /\ \A r \in DOMAIN rows : rows[r].at <= clock

(* The watermark was sent, if not written, by now. *)
MarksAreTimed ==
  /\ watermark \in 0..clock
  /\ watermark \in marks
  /\ told \in Seq(Nat) /\ Len(told) = Len(rows)

(* A row written now is newer than the watermark, or the watermark is now, which
   is one of the times sent: hence the second conjunct of MarksAreTimed. *)
IInv == RowsAreTimed /\ MarksAreTimed /\ OnlyTiesAreMissed

-----------------------------------------------------------------------------
(* A bounded set of numbers has a greatest element. *)
LEMMA GreatestExists ==
  ASSUME NEW n \in Nat, NEW S \in SUBSET (0..n), S # {}
  PROVE  \E u \in S : \A v \in S : v <= u
  <1> DEFINE T == {x \in 0..n : n - x \in S}
  <1>1. T \subseteq Nat /\ T # {}
    <2>1. PICK u \in S : TRUE
      OBVIOUS
    <2>2. n - u \in T
      BY <2>1
    <2> QED BY <2>2
  <1>2. PICK x \in T : \A y \in T : <<y, x>> \notin OpToRel(<, Nat)
    BY <1>1, NatLessThanWellFounded, WFMin
  <1>3. \A y \in T : ~ (y < x)
    <2> HIDE DEF T
    <2> QED BY <1>1, <1>2, Zenon DEF OpToRel
  <1>4. x \in 0..n /\ n - x \in S
    BY <1>2, Zenon
  <1>5. ASSUME NEW v \in S PROVE v <= n - x
    <2>1. v \in 0..n /\ n - (n - v) = v
      OBVIOUS
    <2>2. n - v \in T
      BY <2>1
    <2>3. ~ (n - v < x)
      <3> HIDE DEF T
      <3> QED BY <1>3, <2>2
    <2> QED BY <1>4, <2>1, <2>3
  <1> QED BY <1>4, <1>5

LEMMA RowFacts ==
  ASSUME RowsAreTimed
  PROVE  /\ Len(rows) \in Nat /\ DOMAIN rows = 1..Len(rows)
         /\ \A r \in DOMAIN rows : rows[r] \in RowOK /\ rows[r].version \in Nat /\ rows[r].at \in Nat
  <1>1. rows \in Seq(RowOK)
    BY DEF RowsAreTimed
  <1>2. \A r \in DOMAIN rows : rows[r] \in RowOK
    BY <1>1, LenProperties
  <1> QED BY <1>1, <1>2, LenProperties DEF RowOK

(* Newest is the time of one of the rows, or t, and none of them is later. *)
LEMMA NewestIsGreatest ==
  ASSUME RowsAreTimed, NEW changed \in SUBSET DOMAIN rows, NEW t \in 0..clock
  PROVE  /\ Newest(changed, t) \in {rows[r].at : r \in changed} \union {t}
         /\ Newest(changed, t) \in 0..clock
         /\ t <= Newest(changed, t)
         /\ \A r \in changed : rows[r].at <= Newest(changed, t)
  <1> DEFINE times == {rows[r].at : r \in changed} \union {t}
  <1>1. \A r \in DOMAIN rows : rows[r].at \in 0..clock
    BY RowFacts DEF RowsAreTimed
  <1>2. clock \in Nat /\ times \in SUBSET (0..clock) /\ times # {}
    BY <1>1 DEF RowsAreTimed
  <1>3. \E u \in times : \A v \in times : v <= u
    <2> HIDE DEF times
    <2> QED BY <1>2, GreatestExists
  <1>4. Newest(changed, t) \in times /\ \A v \in times : v <= Newest(changed, t)
    BY <1>3 DEF Newest
  <1> QED BY <1>2, <1>4

-----------------------------------------------------------------------------
LEMMA StartsHolding == ASSUME Init PROVE IInv
  <1>1. PICK n \in 0..MaxTasks : rows \in [1..n -> [version : {1}, at : {0, 1}]]
    BY DEF Init, ObserverInit, Tables
  <1>2. n \in Nat
    BY <1>1, ObserverAssumption
  <1>3. /\ clock = 1 /\ told = [r \in DOMAIN rows |-> rows[r].version]
        /\ watermark = Newest(DOMAIN rows, 0) /\ marks = {watermark}
    BY DEF Init, ObserverInit
  <1>4. rows \in Seq(RowOK) /\ DOMAIN rows = 1..n /\ \A r \in DOMAIN rows : rows[r].at <= 1
    <2>1. rows \in [1..n -> RowOK]
      BY <1>1 DEF RowOK
    <2>2. \A r \in 1..n : rows[r] \in [version : {1}, at : {0, 1}]
      BY <1>1
    <2> QED BY <1>2, <2>1, <2>2, SeqDef
  <1>5. RowsAreTimed
    BY <1>3, <1>4 DEF RowsAreTimed
  <1>6. told \in [1..n -> Nat] /\ \A r \in DOMAIN rows : told[r] = rows[r].version
    BY <1>1, <1>3, <1>4
  <1>7. told \in Seq(Nat) /\ Len(told) = n /\ Len(rows) = n
    BY <1>1, <1>2, <1>6, SeqDef, LenProperties
  <1>8. watermark \in 0..clock
    BY <1>3, <1>5, NewestIsGreatest
  <1> QED BY <1>3, <1>5, <1>6, <1>7, <1>8 DEF IInv, MarksAreTimed, OnlyTiesAreMissed

-----------------------------------------------------------------------------
(* The steps of the server that change its rows or what it sent *)

LEMMA TickHolds == ASSUME IInv, Tick PROVE IInv'
  <1>1. clock' = clock + 1 /\ UNCHANGED <<rows, watermark, told, marks>>
    BY DEF Tick
  <1>2. \A r \in DOMAIN rows : rows[r].at \in Nat
    BY RowFacts DEF IInv
  <1> QED BY <1>1, <1>2 DEF IInv, RowsAreTimed, MarksAreTimed, OnlyTiesAreMissed

LEMMA CreateTaskHolds == ASSUME IInv, CreateTask PROVE IInv'
  <1> DEFINE row == [version |-> 1, at |-> clock]
             n   == Len(rows) + 1
  <1>1. /\ rows' = Append(rows, row) /\ told' = Append(told, 0)
        /\ UNCHANGED <<clock, watermark, marks>>
    BY DEF CreateTask
  <1>2. row \in RowOK /\ row.at = clock
    BY DEF IInv, RowsAreTimed, RowOK
  <1> HIDE DEF row
  <1>3. /\ rows \in Seq(RowOK) /\ told \in Seq(Nat) /\ Len(told) = Len(rows) /\ Len(rows) \in Nat
        /\ DOMAIN rows = 1..Len(rows)
    BY LenProperties DEF IInv, RowsAreTimed, MarksAreTimed
  <1>4. /\ rows' \in Seq(RowOK) /\ Len(rows') = n /\ DOMAIN rows' = 1..n
        /\ rows'[n] = row /\ \A r \in DOMAIN rows : rows'[r] = rows[r]
    BY <1>1, <1>2, <1>3, AppendProperties, LenProperties
  <1>5. told' \in Seq(Nat) /\ Len(told') = n /\ \A r \in DOMAIN rows : told'[r] = told[r]
    BY <1>1, <1>3, AppendProperties, LenProperties
  <1>6. \A r \in DOMAIN rows' : r = n \/ r \in DOMAIN rows
    BY <1>3, <1>4
  <1>7. clock \in Nat /\ watermark \in 0..clock /\ watermark \in marks
    BY DEF IInv, RowsAreTimed, MarksAreTimed
  <1>8. RowsAreTimed' /\ MarksAreTimed'
    BY <1>1, <1>2, <1>4, <1>5, <1>6, <1>7 DEF IInv, RowsAreTimed, MarksAreTimed
  <1>9. OnlyTiesAreMissed'
    <2> SUFFICES ASSUME NEW r \in DOMAIN rows', told'[r] # rows'[r].version
                 PROVE  rows'[r].at > watermark \/ rows'[r].at \in marks
      BY <1>1 DEF OnlyTiesAreMissed
    <2>1. CASE r = n
      <3>1. clock > watermark \/ clock = watermark
        BY <1>7
      <3> QED BY <1>2, <1>4, <1>7, <2>1, <3>1
    <2>2. CASE r \in DOMAIN rows
      BY <1>4, <1>5, <2>2 DEF IInv, OnlyTiesAreMissed
    <2> QED BY <1>6, <2>1, <2>2
  <1> QED BY <1>8, <1>9 DEF IInv

LEMMA UpdateTaskHolds == ASSUME IInv, NEW t \in DOMAIN rows, UpdateTask(t) PROVE IInv'
  <1> DEFINE row == [version |-> rows[t].version + 1, at |-> clock]
  <1>1. rows' = [rows EXCEPT ![t] = row] /\ UNCHANGED <<clock, watermark, told, marks>>
    BY DEF UpdateTask
  <1>2. rows \in Seq(RowOK) /\ clock \in Nat /\ watermark \in 0..clock /\ watermark \in marks
    BY DEF IInv, RowsAreTimed, MarksAreTimed
  <1>3. row \in RowOK /\ row.at = clock
    BY <1>2, RowFacts DEF IInv, RowOK
  <1> HIDE DEF row
  <1>4. /\ rows' \in Seq(RowOK) /\ Len(rows') = Len(rows) /\ DOMAIN rows' = DOMAIN rows
        /\ rows'[t] = row /\ \A r \in DOMAIN rows \ {t} : rows'[r] = rows[r]
    BY <1>1, <1>2, <1>3, ExceptSeq
  <1>5. RowsAreTimed' /\ MarksAreTimed'
    BY <1>1, <1>2, <1>3, <1>4 DEF IInv, RowsAreTimed, MarksAreTimed
  <1>6. OnlyTiesAreMissed'
    <2> SUFFICES ASSUME NEW r \in DOMAIN rows, told[r] # rows'[r].version
                 PROVE  rows'[r].at > watermark \/ rows'[r].at \in marks
      BY <1>1, <1>4 DEF OnlyTiesAreMissed
    <2>1. CASE r = t
      <3>1. clock > watermark \/ clock = watermark
        BY <1>2
      <3> QED BY <1>2, <1>3, <1>4, <2>1, <3>1
    <2>2. CASE r # t
      BY <1>4, <2>2 DEF IInv, OnlyTiesAreMissed
    <2> QED BY <2>1, <2>2
  <1> QED BY <1>5, <1>6 DEF IInv

LEMMA FlushHolds == ASSUME IInv, Flush PROVE IInv'
  <1> DEFINE changed == TasksChangedSince(watermark)
  <1>1. /\ watermark' = Newest(changed, watermark)
        /\ told' = [r \in DOMAIN told |-> IF r \in changed THEN rows[r].version ELSE told[r]]
        /\ marks' = marks \union {rows[r].at : r \in changed}
        /\ UNCHANGED <<clock, rows>>
    BY DEF Flush
  <1>2. changed \in SUBSET DOMAIN rows /\ \A r \in DOMAIN rows : r \in changed <=> rows[r].at > watermark
    BY DEF TasksChangedSince
  <1> HIDE DEF changed
  <1>3. RowsAreTimed /\ watermark \in 0..clock /\ watermark \in marks
    BY DEF IInv, MarksAreTimed
  <1>4. /\ watermark' \in {rows[r].at : r \in changed} \union {watermark}
        /\ watermark' \in 0..clock
    BY <1>1, <1>2, <1>3, NewestIsGreatest
  <1>5. /\ told \in Seq(Nat) /\ Len(told) = Len(rows) /\ Len(rows) \in Nat
        /\ DOMAIN told = 1..Len(rows) /\ DOMAIN rows = 1..Len(rows)
        /\ \A r \in DOMAIN rows : told[r] \in Nat /\ rows[r].version \in Nat /\ rows[r].at \in Nat
    <2>1. told \in Seq(Nat) /\ Len(told) = Len(rows) /\ rows \in Seq(RowOK)
      BY DEF IInv, RowsAreTimed, MarksAreTimed
    <2> QED BY <2>1, LenProperties, RowFacts DEF IInv
  <1>6. told' \in [1..Len(rows) -> Nat]
    BY <1>1, <1>5
  <1>7. told' \in Seq(Nat) /\ Len(told') = Len(rows)
    BY <1>5, <1>6, SeqDef, LenProperties
  <1>8. RowsAreTimed' /\ MarksAreTimed'
    BY <1>1, <1>3, <1>4, <1>7 DEF RowsAreTimed, MarksAreTimed
  <1>9. OnlyTiesAreMissed'
    <2> SUFFICES ASSUME NEW r \in DOMAIN rows, told'[r] # rows[r].version
                 PROVE  rows[r].at \in marks'
      BY <1>1 DEF OnlyTiesAreMissed
    <2>1. r \notin changed /\ told'[r] = told[r]
      BY <1>1, <1>5
    <2>2. rows[r].at \in marks
      BY <1>2, <2>1 DEF IInv, OnlyTiesAreMissed
    <2> QED BY <1>1, <2>2
  <1> QED BY <1>8, <1>9 DEF IInv

LEMMA NextHolds == ASSUME IInv, [Next]_vars PROVE IInv'
  <1>1. ASSUME UNCHANGED <<clock, rows, watermark, told, marks>> PROVE IInv'
    BY <1>1 DEF IInv, RowsAreTimed, MarksAreTimed, OnlyTiesAreMissed
  <1>2. ASSUME NEW e, Publish(e) PROVE IInv'
    BY <1>1, <1>2 DEF Publish
  <1>3. CASE Serve
    BY <1>1, <1>2, <1>3, TickHolds, CreateTaskHolds, UpdateTaskHolds, FlushHolds
    DEF Serve, Work, Consume, PublishReply, PublishOther
  <1>4. CASE Connect
    BY <1>1, <1>4 DEF Connect, Accept
  <1>5. CASE OnMessage
    BY <1>1, <1>5 DEF OnMessage
  <1>6. CASE OnClose
    BY <1>1, <1>6 DEF OnClose, Forget
  <1>7. CASE OnPrincipalMessage
    BY <1>2, <1>7 DEF OnPrincipalMessage
  <1>8. CASE \/ OnOpen \/ Reconnect \/ LoadMoreTasks \/ LoadMoreMessages \/ AnswerTasks
             \/ AnswerMessages \/ ShowTasks \/ ShowMessages \/ LoadFails \/ Submit
             \/ PrincipalMessageFails \/ UNCHANGED vars
    BY <1>1, <1>8
    DEF OnOpen, Reconnect, LoadMoreTasks, LoadMoreMessages, AnswerTasks, AnswerMessages, ShowTasks,
        ShowMessages, LoadFails, Submit, PrincipalMessageFails, vars, server
  <1> QED BY <1>3, <1>4, <1>5, <1>6, <1>7, <1>8 DEF Next

-----------------------------------------------------------------------------
(* The invariant holds in every reachable state: whatever tabs connect and ask
   for, what the observer sends is of rows written by now. *)
THEOREM Invariance == Spec => []IInv
  BY StartsHolding, NextHolds, PTL DEF Spec

(* A change that no task delta told of is still to be sent, or was written in
   the millisecond of one that was sent (queries.ts tasksChangedSince): nothing
   else is passed over, for any number of tasks and writes. *)
THEOREM DeltasMissOnlyTies == Spec => []OnlyTiesAreMissed
  <1>1. IInv => OnlyTiesAreMissed
    BY DEF IInv
  <1> QED BY <1>1, Invariance, PTL

-----------------------------------------------------------------------------
(* R puts the members of S in a strict total order. *)
Orders(R, S) ==
  /\ \A x \in S : <<x, x>> \notin R
  /\ \A x, y, z \in S : <<x, y>> \in R /\ <<y, z>> \in R => <<x, z>> \in R
  /\ \A x, y \in S : x # y => <<x, y>> \in R \/ <<y, x>> \in R

(* In a strict total order, every number below the size of a finite set is the
   number of predecessors of one member: so Arrange lists the set in order. *)
LEMMA Arranged ==
  ASSUME NEW S, IsFiniteSet(S), NEW R, Orders(R, S)
  PROVE  /\ Cardinality(S) \in Nat
         /\ Arrange(S, R) \in [1..Cardinality(S) -> S]
         /\ \A x \in S : \E k \in 1..Cardinality(S) : Arrange(S, R)[k] = x
         /\ \A j, k \in 1..Cardinality(S) : j < k => <<Arrange(S, R)[j], Arrange(S, R)[k]>> \in R
  <1> DEFINE n == Cardinality(S)
             below(x) == {y \in S : <<y, x>> \in R}
             rank == [x \in S |-> Cardinality(below(x))]
  <1>1. n \in Nat
    BY FS_CardinalityType
  <1>2. \A x \in S : IsFiniteSet(below(x)) /\ rank[x] \in 0..(n - 1)
    <2> SUFFICES ASSUME NEW x \in S PROVE IsFiniteSet(below(x)) /\ rank[x] \in 0..(n - 1)
      OBVIOUS
    <2>1. below(x) \in SUBSET S /\ below(x) # S
      BY DEF Orders
    <2>2. IsFiniteSet(below(x)) /\ Cardinality(below(x)) <= n /\ Cardinality(below(x)) # n
      <3> HIDE DEF below
      <3> QED BY <2>1, FS_Subset
    <2>3. Cardinality(below(x)) \in Nat
      BY <2>2, FS_CardinalityType
    <2> HIDE DEF n, below
    <2> QED BY <1>1, <2>2, <2>3
  <1>3. \A x, y \in S : <<x, y>> \in R => rank[x] < rank[y]
    <2> SUFFICES ASSUME NEW x \in S, NEW y \in S, <<x, y>> \in R PROVE rank[x] < rank[y]
      OBVIOUS
    <2>1. below(x) \in SUBSET below(y) /\ x \in below(y) /\ x \notin below(x)
      BY DEF Orders
    <2>2. Cardinality(below(x)) <= Cardinality(below(y)) /\ Cardinality(below(x)) # Cardinality(below(y))
      <3> HIDE DEF below
      <3> QED BY <1>2, <2>1, FS_Subset
    <2>3. rank[x] \in 0..(n - 1) /\ rank[y] \in 0..(n - 1)
      BY <1>2
    <2> HIDE DEF n, below
    <2> QED BY <1>1, <2>2, <2>3
  <1>4. rank \in [S -> 0..(n - 1)]
    BY <1>2
  <1> HIDE DEF rank
  <1>5. \A x, y \in S : rank[x] = rank[y] => x = y
    <2> SUFFICES ASSUME NEW x \in S, NEW y \in S, rank[x] = rank[y], x # y PROVE FALSE
      OBVIOUS
    <2>1. rank[x] < rank[y] \/ rank[y] < rank[x]
      BY <1>3 DEF Orders
    <2> HIDE DEF n
    <2> QED BY <1>1, <1>4, <2>1
  <1>6. rank \in Injection(S, 0..(n - 1))
    BY <1>4, <1>5 DEF Injection, IsInjective
  <1>7. IsFiniteSet(0..(n - 1)) /\ Cardinality(0..(n - 1)) = n
    <2> HIDE DEF n
    <2>1. 0 \in Int /\ n - 1 \in Int
      BY <1>1
    <2> QED BY <1>1, <2>1, FS_Interval
  <1>8. rank \in Surjection(S, 0..(n - 1))
    BY <1>6, <1>7, FS_Injection
  <1>9. \A i \in 0..(n - 1) : \E x \in S : rank[x] = i
    BY <1>8 DEF Surjection
  <1>10. \A k \in 1..n : Arrange(S, R)[k] \in S /\ rank[Arrange(S, R)[k]] = k - 1
    <2> SUFFICES ASSUME NEW k \in 1..n
                 PROVE  Arrange(S, R)[k] \in S /\ rank[Arrange(S, R)[k]] = k - 1
      OBVIOUS
    <2>1. k - 1 \in 0..(n - 1)
      <3> HIDE DEF n
      <3> QED BY <1>1
    <2>2. \E x \in S : Cardinality({y \in S : <<y, x>> \in R}) = k - 1
      BY <1>9, <2>1 DEF rank
    <2>3. /\ Arrange(S, R)[k] \in S
          /\ Cardinality({y \in S : <<y, Arrange(S, R)[k]>> \in R}) = k - 1
      BY <2>2 DEF Arrange
    <2> QED BY <2>3 DEF rank
  <1>11. Arrange(S, R) \in [1..n -> S]
    <2> DEFINE at(k) == CHOOSE x \in S : Cardinality({y \in S : <<y, x>> \in R}) = k - 1
    <2>1. Arrange(S, R) = [k \in 1..n |-> at(k)]
      BY DEF Arrange
    <2> HIDE DEF n, at
    <2> QED BY <1>10, <2>1
  <1>12. \A x \in S : \E k \in 1..n : Arrange(S, R)[k] = x
    <2> SUFFICES ASSUME NEW x \in S PROVE \E k \in 1..n : Arrange(S, R)[k] = x
      OBVIOUS
    <2>1. rank[x] + 1 \in 1..n /\ (rank[x] + 1) - 1 = rank[x]
      <3>1. rank[x] \in 0..(n - 1)
        BY <1>4
      <3> HIDE DEF n
      <3> QED BY <1>1, <3>1
    <2>2. rank[Arrange(S, R)[rank[x] + 1]] = rank[x] /\ Arrange(S, R)[rank[x] + 1] \in S
      <3> HIDE DEF n
      <3> QED BY <1>10, <2>1
    <2> QED BY <1>5, <2>1, <2>2
  <1>13. ASSUME NEW j \in 1..n, NEW k \in 1..n, j < k
         PROVE  <<Arrange(S, R)[j], Arrange(S, R)[k]>> \in R
    <2> DEFINE x == Arrange(S, R)[j]
               y == Arrange(S, R)[k]
    <2>1. x \in S /\ y \in S /\ rank[x] = j - 1 /\ rank[y] = k - 1
      BY <1>10
    <2> HIDE DEF n, x, y
    <2>2. ~ (rank[y] < rank[x]) /\ x # y
      BY <1>1, <1>13, <2>1
    <2>3. <<x, y>> \in R
      BY <1>3, <2>1, <2>2 DEF Orders
    <2> QED BY <2>3 DEF x, y
  <1> QED BY <1>1, <1>11, <1>12, <1>13

LEMMA NewestFirstSorts ==
  ASSUME NEW ids \in SUBSET Nat, IsFiniteSet(ids)
  PROVE  /\ NewestFirst(ids) \in Seq(ids) /\ Len(NewestFirst(ids)) = Cardinality(ids)
         /\ Cardinality(ids) \in Nat /\ DOMAIN NewestFirst(ids) = 1..Cardinality(ids)
         /\ \A i \in ids : \E k \in DOMAIN NewestFirst(ids) : NewestFirst(ids)[k] = i
         /\ \A j, k \in DOMAIN NewestFirst(ids) : j < k => NewestFirst(ids)[j] > NewestFirst(ids)[k]
  <1> DEFINE R == {p \in ids \X ids : p[1] > p[2]}
             s == Arrange(ids, R)
  <1>1. \A i, j \in ids : <<i, j>> \in R <=> i > j
    OBVIOUS
  <1>2. NewestFirst(ids) = s
    BY DEF NewestFirst
  <1> HIDE DEF R
  <1>3. Orders(R, ids)
    BY <1>1 DEF Orders
  <1>4. /\ Cardinality(ids) \in Nat
        /\ s \in [1..Cardinality(ids) -> ids]
        /\ \A i \in ids : \E k \in 1..Cardinality(ids) : s[k] = i
        /\ \A j, k \in 1..Cardinality(ids) : j < k => <<s[j], s[k]>> \in R
    BY <1>3, Arranged
  <1> HIDE DEF s
  <1>5. s \in Seq(ids) /\ Len(s) = Cardinality(ids) /\ DOMAIN s = 1..Cardinality(ids)
    BY <1>4, SeqDef, LenProperties
  <1>6. \A j, k \in 1..Cardinality(ids) : s[j] \in ids /\ (j < k => s[j] > s[k])
    BY <1>1, <1>4
  <1> QED BY <1>2, <1>4, <1>5, <1>6

Older(ids, before) == {i \in ids : before = 0 \/ i < before}
Newer(ids, i) == {j \in ids : j > i}

(* A page holds, newest first, the rows before the cursor down to the next one,
   and at least those with less than PageSize newer ones before the cursor. *)
IsPage(items, next, older, n) ==
  /\ items \in Seq(older) /\ next \in 0..n
  /\ next = 0 \/ \E k \in DOMAIN items : items[k] = next
  /\ \A j, k \in DOMAIN items : j < k => items[j] > items[k]
  /\ \A k \in DOMAIN items : items[k] >= next
  /\ \A i \in older : i >= next => \E k \in DOMAIN items : items[k] = i
  /\ \A i \in older : Cardinality(Newer(older, i)) < PageSize
                       => \E k \in DOMAIN items : items[k] = i

LEMMA PageFacts ==
  ASSUME NEW n \in Nat, NEW ids \in SUBSET (1..n), NEW before \in Nat
  PROVE  IsPage(Page(ids, before).items, Page(ids, before).next, Older(ids, before), n)
  <1> DEFINE items == Page(ids, before).items
             next  == Page(ids, before).next
             older == Older(ids, before)
             newer(i) == {j \in older : j > i}
             newest == {i \in older : Cardinality(newer(i)) < PageSize}
  <1>1. older \in SUBSET (1..n) /\ newest \in SUBSET older
    BY DEF Older
  <1>0. \A i \in older : i \in 1..n /\ i \in Nat
    BY <1>1
  <1>2. /\ items = NewestFirst(newest)
        /\ next = IF Cardinality(older) < PageSize THEN 0 ELSE Last(items)
    <2>1. Page(ids, before).items = NewestFirst(newest)
      BY DEF Page, Older
    <2>2. Page(ids, before).next = IF Cardinality(older) < PageSize THEN 0 ELSE Last(NewestFirst(newest))
      BY DEF Page, Older
    <2> HIDE DEF newest
    <2> QED BY <2>1, <2>2
  <1> HIDE DEF older, items, next
  <1>3. IsFiniteSet(older) /\ Cardinality(older) \in Nat
    <2>1. IsFiniteSet(1..n)
      BY FS_Interval
    <2> QED BY <1>1, <2>1, FS_Subset, FS_CardinalityType
  <1>4. \A i \in older : /\ newer(i) \in SUBSET older /\ IsFiniteSet(newer(i))
                         /\ Cardinality(newer(i)) \in Nat /\ Cardinality(newer(i)) <= Cardinality(older)
    <2> SUFFICES ASSUME NEW i \in older
                 PROVE  /\ newer(i) \in SUBSET older /\ IsFiniteSet(newer(i))
                        /\ Cardinality(newer(i)) \in Nat /\ Cardinality(newer(i)) <= Cardinality(older)
      OBVIOUS
    <2>1. newer(i) \in SUBSET older
      OBVIOUS
    <2> HIDE DEF newer
    <2> QED BY <1>3, <2>1, FS_Subset, FS_CardinalityType
  <1>5. PageSize \in Nat \ {0}
    BY ObserverAssumption
  <1>6. \A i \in newest, j \in older : j >= i => j \in newest
    <2> SUFFICES ASSUME NEW i \in newest, NEW j \in older, j >= i
                 PROVE  Cardinality(newer(j)) < PageSize
      OBVIOUS
    <2>1. newer(j) \in SUBSET newer(i)
      BY <1>0
    <2>2. IsFiniteSet(newer(i)) /\ Cardinality(newer(i)) \in Nat /\ Cardinality(newer(j)) \in Nat
      BY <1>4
    <2>3. Cardinality(newer(j)) <= Cardinality(newer(i))
      <3> HIDE DEF newer
      <3> QED BY <2>1, <2>2, FS_Subset
    <2>4. Cardinality(newer(i)) < PageSize
      OBVIOUS
    <2> HIDE DEF newer
    <2> QED BY <1>5, <2>2, <2>3, <2>4
  <1>7. Cardinality(older) < PageSize => newest = older
    <2> SUFFICES ASSUME Cardinality(older) < PageSize, NEW i \in older
                 PROVE  Cardinality(newer(i)) < PageSize
      OBVIOUS
    <2>1. Cardinality(newer(i)) \in Nat /\ Cardinality(newer(i)) <= Cardinality(older)
      BY <1>4
    <2> HIDE DEF newer
    <2> QED BY <1>3, <1>5, <2>1
  <1>8. older # {} => newest # {}
    <2> SUFFICES ASSUME older # {} PROVE newest # {}
      OBVIOUS
    <2>1. PICK u \in older : \A v \in older : v <= u
      <3>1. older \in SUBSET (0..n)
        BY <1>1
      <3> QED BY <3>1, GreatestExists
    <2>2. newer(u) = {}
      BY <1>0, <2>1
    <2>3. Cardinality(newer(u)) = 0
      BY <2>2, FS_EmptySet
    <2> HIDE DEF newer
    <2> QED BY <1>5, <2>3
  <1> HIDE DEF newer
  <1>9. \A i \in older : Cardinality(Newer(older, i)) < PageSize => i \in newest
    BY DEF newer, Newer
  <1> HIDE DEF newest
  <1>10. newest \in SUBSET Nat /\ IsFiniteSet(newest) /\ (newest # {} => Cardinality(newest) \in Nat \ {0})
    <2>1. newest \in SUBSET older /\ newest \in SUBSET Nat
      BY <1>1
    <2>3. IsFiniteSet(newest)
      BY <1>3, <2>1, FS_Subset
    <2>2. Cardinality(newest) \in Nat /\ (Cardinality(newest) = 0 <=> newest = {})
      BY <2>3, FS_EmptySet, FS_CardinalityType
    <2> QED BY <2>1, <2>2, <2>3
  <1>11. /\ items \in Seq(newest) /\ DOMAIN items = 1..Len(items) /\ Len(items) = Cardinality(newest)
         /\ \A i \in newest : \E k \in DOMAIN items : items[k] = i
         /\ \A j, k \in DOMAIN items : j < k => items[j] > items[k]
    BY <1>2, <1>10, NewestFirstSorts
  <1>12. \A k \in DOMAIN items : items[k] \in newest /\ items[k] \in 1..n /\ items[k] \in Nat
    <2>1. \A k \in DOMAIN items : items[k] \in newest
      BY <1>11, LenProperties
    <2>2. \A i \in newest : i \in 1..n /\ i \in Nat
      BY <1>1
    <2> QED BY <2>1, <2>2
  <1>15. items \in Seq(older)
    BY <1>1, <1>11, SeqMonotonic
  <1>13. CASE Cardinality(older) < PageSize
    <2>1. next = 0 /\ newest = older
      BY <1>2, <1>7, <1>13
    <2>2. \A k \in DOMAIN items : items[k] >= 0
      BY <1>12
    <2>4. \A i \in older : \E k \in DOMAIN items : items[k] = i
      BY <1>11, <2>1
    <2>5. next \in 0..n
      BY <2>1
    <2>6. IsPage(items, next, older, n)
      BY <1>11, <1>15, <2>1, <2>2, <2>4, <2>5 DEF IsPage
    <2> QED BY <2>6 DEF older, items, next
  <1>14. CASE ~ (Cardinality(older) < PageSize)
    <2>1. older # {}
      <3>1. Cardinality(older) # 0
        BY <1>5, <1>14
      <3> QED BY <3>1, FS_EmptySet
    <2>2. Len(items) \in Nat \ {0} /\ next = items[Len(items)]
      BY <1>2, <1>8, <1>10, <1>11, <1>14, <2>1 DEF Last
    <2>3. Len(items) \in DOMAIN items /\ next \in newest /\ next \in 1..n
      <3>1. Len(items) \in DOMAIN items
        BY <1>11, <2>2
      <3> QED BY <1>12, <2>2, <3>1
    <2>4. \A k \in DOMAIN items : items[k] >= next
      <3> SUFFICES ASSUME NEW k \in DOMAIN items PROVE items[k] >= next
        OBVIOUS
      <3>1. k < Len(items) \/ k = Len(items)
        BY <1>11, <2>2
      <3>2. items[k] \in Nat /\ next \in Nat
        BY <1>12, <2>3
      <3> QED BY <1>11, <2>2, <2>3, <3>1, <3>2
    <2>5. \A i \in older : i >= next => i \in newest
      BY <1>6, <2>3
    <2>6. next \in 0..n
      BY <2>3
    <2>7. \E k \in DOMAIN items : items[k] = next
      BY <2>2, <2>3
    <2>8. IsPage(items, next, older, n)
      BY <1>9, <1>11, <1>15, <2>4, <2>5, <2>6, <2>7 DEF IsPage
    <2> QED BY <2>8 DEF older, items, next
  <1> QED BY <1>13, <1>14

(* Filter keeps the elements of s in T, each as often as it is in s, in order. *)
LEMMA FilterFacts ==
  ASSUME NEW S, NEW s \in Seq(S), NEW T
  PROVE  LET f == Filter(s, T)
         IN  /\ f \in Seq(S)
             /\ \A k \in DOMAIN f : f[k] \in T
             /\ \A i \in DOMAIN s : s[i] \in T => \E k \in DOMAIN f : f[k] = s[i]
             /\ \A k \in DOMAIN f : \E i \in DOMAIN s : f[k] = s[i]
             /\ \A j, k \in DOMAIN f : j < k =>
                  \E x, y \in DOMAIN s : x < y /\ f[j] = s[x] /\ f[k] = s[y]
  <1> DEFINE kept  == {k \in DOMAIN s : s[k] \in T}
             R     == {p \in kept \X kept : p[1] < p[2]}
             order == Arrange(kept, R)
             n     == Cardinality(kept)
             f     == Filter(s, T)
  <1>1. DOMAIN s = 1..Len(s) /\ Len(s) \in Nat /\ \A i \in DOMAIN s : s[i] \in S
    BY LenProperties
  <1>2. f = [k \in DOMAIN order |-> s[order[k]]]
    BY DEF Filter
  <1>3. \A i, j \in kept : <<i, j>> \in R <=> i < j
    OBVIOUS
  <1>4. kept \in SUBSET (1..Len(s)) /\ \A i \in kept : i \in DOMAIN s /\ s[i] \in T
    BY <1>1
  <1>5. \A i \in DOMAIN s : s[i] \in T => i \in kept
    OBVIOUS
  <1> HIDE DEF R, f, kept
  <1>6. IsFiniteSet(kept) /\ Orders(R, kept)
    <2>1. IsFiniteSet(1..Len(s))
      BY <1>1, FS_Interval
    <2>2. IsFiniteSet(kept)
      BY <1>4, <2>1, FS_Subset
    <2> QED BY <1>1, <1>3, <1>4, <2>2 DEF Orders
  <1>7. /\ n \in Nat /\ order \in [1..n -> kept]
        /\ \A i \in kept : \E k \in 1..n : order[k] = i
        /\ \A j, k \in 1..n : j < k => <<order[j], order[k]>> \in R
    BY <1>6, Arranged
  <1> HIDE DEF order, n
  <1>8. /\ DOMAIN f = 1..n /\ \A k \in 1..n : f[k] = s[order[k]] /\ order[k] \in kept
        /\ \A j, k \in 1..n : j < k => order[j] < order[k]
    BY <1>2, <1>3, <1>7
  <1>9. f \in [1..n -> S]
    BY <1>1, <1>2, <1>4, <1>7, <1>8
  <1>10. f \in Seq(S)
    BY <1>7, <1>9, SeqDef
  <1>11. \A k \in DOMAIN f : f[k] \in T /\ \E i \in DOMAIN s : f[k] = s[i]
    <2> HIDE DEF f
    <2> QED BY <1>4, <1>8
  <1>12. \A i \in DOMAIN s : s[i] \in T => \E k \in DOMAIN f : f[k] = s[i]
    <2> HIDE DEF f
    <2> QED BY <1>5, <1>7, <1>8
  <1>13. ASSUME NEW j \in DOMAIN f, NEW k \in DOMAIN f, j < k
         PROVE  \E x, y \in DOMAIN s : x < y /\ f[j] = s[x] /\ f[k] = s[y]
    <2> HIDE DEF f
    <2>1. order[j] \in DOMAIN s /\ order[k] \in DOMAIN s /\ order[j] < order[k]
      BY <1>4, <1>8, <1>13
    <2> QED BY <1>8, <1>13, <2>1
  <1> QED BY <1>10, <1>11, <1>12, <1>13 DEF f

-----------------------------------------------------------------------------
(* The types of the frames under way and of the page requests, and what they
   refer to: rows and events that exist. *)
TaskRows == [id : Nat, version : Nat]
OrgStates == [tasks : Nat, queueDepth : Int, upTo : Nat]
FrameSet == [kind : {"org"}, org : OrgStates]
              \union [kind : {"task"}, task : TaskRows]
              \union [kind : {"event", "message"}, seq : Nat]

Conversation == {i \in DOMAIN log : IsPrincipalMessage(log[i])}

FrameOK(f) ==
  /\ f.kind = "org" => f.org.upTo <= Len(log)
  /\ f.kind = "task" => f.task.id \in DOMAIN rows
  /\ f.kind = "event" => f.seq \in DOMAIN log
  /\ f.kind = "message" => f.seq \in Conversation

FramesAreTyped == down \in Seq(FrameSet) /\ \A k \in DOMAIN down : FrameOK(down[k])

(* The tasks a page lists. *)
Listed(page) == {page.items[k].id : k \in DOMAIN page.items}

TaskLoads ==
  {NoLoad} \union [step : {"sent"}, initial : BOOLEAN, before : Nat]
    \union [step : {"answered"}, initial : BOOLEAN, page : [items : Seq(TaskRows), next : Nat],
            newest : Nat]
MessageLoads ==
  {NoLoad} \union [step : {"sent"}, initial : BOOLEAN, before : Nat]
    \union [step : {"answered"}, initial : BOOLEAN, page : [items : Seq(Nat), next : Nat]]

TaskLoadIsTyped ==
  /\ taskLoad \in TaskLoads
  /\ taskLoad.step = "answered" =>
       /\ taskLoad.page.next <= Len(rows) /\ taskLoad.newest <= Len(rows)
       /\ Listed(taskLoad.page) \subseteq DOMAIN rows

MessageLoadIsTyped ==
  /\ messageLoad \in MessageLoads
  /\ messageLoad.step = "answered" =>
       /\ messageLoad.page.next <= Len(log)
       /\ ToSet(messageLoad.page.items) \subseteq Conversation

OrgIsTyped == org.upTo \in -1..Len(log)

TasksAreTyped ==
  /\ tasks \in Seq(TaskRows) /\ Shown \subseteq DOMAIN rows
  /\ taskCursor \in 0..Len(rows) /\ loaded \in 0..Len(rows)

MessagesAreTyped ==
  /\ messages \in Seq(Nat) /\ ToSet(messages) \subseteq Conversation
  /\ messageCursor \in 0..Len(log)

FeedIsTyped == feed \in Seq(Nat) /\ Len(feed) <= MaxFeed

LinkIsTyped ==
  /\ link \in {"closed", "connecting", "open"} /\ (link = "open" => joined)
  /\ drops \in 0..MaxDrops /\ failures \in 0..MaxFailures

SentIsTyped == up \in Seq(1..MaxTyped) /\ typed \in 0..MaxTyped /\ refused \subseteq 1..MaxTyped

TypeInv ==
  /\ ServerTypeOK /\ FramesAreTyped
  /\ TaskLoadIsTyped /\ MessageLoadIsTyped
  /\ OrgIsTyped /\ TasksAreTyped /\ MessagesAreTyped /\ FeedIsTyped
  /\ LinkIsTyped /\ SentIsTyped

(* What a step of the server never does: take a row or an event back. *)
Grows ==
  /\ Len(rows) <= Len(rows)' /\ DOMAIN rows \subseteq DOMAIN rows'
  /\ Len(log) <= Len(log)' /\ DOMAIN log \subseteq DOMAIN log'
  /\ \A i \in DOMAIN log : log'[i] = log[i]

LEMMA ServerFacts ==
  ASSUME ServerTypeOK
  PROVE  /\ clock \in 1..MaxClock /\ clock \in Nat
         /\ Len(rows) \in Nat /\ DOMAIN rows = 1..Len(rows)
         /\ \A r \in DOMAIN rows : /\ rows[r] \in [version : 1..MaxVersion, at : 0..clock]
                                   /\ rows[r].version \in 1..MaxVersion /\ rows[r].at \in 0..clock
                                   /\ rows[r].version \in Nat /\ rows[r].at \in Nat
         /\ Len(log) \in Nat /\ DOMAIN log = 1..Len(log) /\ \A i \in DOMAIN log : log[i] \in Int
         /\ MaxClock \in Nat /\ MaxVersion \in Nat /\ MaxEvents \in Nat /\ MaxTasks \in Nat
  <1>1. MaxClock \in Nat /\ MaxVersion \in Nat /\ MaxEvents \in Nat /\ MaxTasks \in Nat
    BY ObserverAssumption
  <1>2. rows \in Seq([version : 1..MaxVersion, at : 0..clock]) /\ log \in Seq(Int) /\ clock \in 1..MaxClock
    BY DEF ServerTypeOK
  <1>3. /\ Len(rows) \in Nat /\ DOMAIN rows = 1..Len(rows)
        /\ \A r \in DOMAIN rows : rows[r] \in [version : 1..MaxVersion, at : 0..clock]
    BY <1>2, LenProperties
  <1>4. Len(log) \in Nat /\ DOMAIN log = 1..Len(log) /\ \A i \in DOMAIN log : log[i] \in Int
    BY <1>2, LenProperties
  <1>5. clock \in Nat
    BY <1>1, <1>2
  <1>6. \A r \in DOMAIN rows : /\ rows[r].version \in 1..MaxVersion /\ rows[r].at \in 0..clock
                               /\ rows[r].version \in Nat /\ rows[r].at \in Nat
    BY <1>1, <1>3, <1>5
  <1> QED BY <1>1, <1>2, <1>3, <1>4, <1>5, <1>6

(* What does not change keeps its type while the server's tables grow. *)
LEMMA TypesStay ==
  ASSUME TypeInv, Grows, ServerTypeOK'
  PROVE  /\ \A f \in FrameSet : FrameOK(f) => FrameOK(f)'
         /\ UNCHANGED taskLoad => TaskLoadIsTyped'
         /\ UNCHANGED messageLoad => MessageLoadIsTyped'
         /\ UNCHANGED org => OrgIsTyped'
         /\ UNCHANGED <<tasks, taskCursor, loaded>> => TasksAreTyped'
         /\ UNCHANGED <<messages, messageCursor>> => MessagesAreTyped'
  <1>1. /\ Len(rows) \in Nat /\ Len(rows)' \in Nat /\ Len(log) \in Nat /\ Len(log)' \in Nat
        /\ Len(rows) <= Len(rows)' /\ DOMAIN rows \subseteq DOMAIN rows'
        /\ Len(log) <= Len(log)' /\ DOMAIN log \subseteq DOMAIN log'
    <2>1. Len(rows)' \in Nat /\ Len(log)' \in Nat
      <3>1. rows' \in Seq([version : 1..MaxVersion, at : 0..clock']) /\ log' \in Seq(Int)
        BY DEF ServerTypeOK
      <3> QED BY <3>1, LenProperties
    <2> QED BY <2>1, ServerFacts DEF TypeInv, Grows
  <1>2. Conversation \subseteq Conversation'
    BY <1>1 DEF Conversation, Grows, IsPrincipalMessage
  <1>3. \A f \in FrameSet : FrameOK(f) => FrameOK(f)'
    <2> SUFFICES ASSUME NEW f \in FrameSet, FrameOK(f) PROVE FrameOK(f)'
      OBVIOUS
    <2>1. f.kind = "org" => f.org.upTo \in Nat
      BY DEF FrameSet, OrgStates
    <2>2. f.kind = "org" => f.org.upTo <= Len(log)'
      BY <1>1, <2>1 DEF FrameOK
    <2> QED BY <1>1, <1>2, <2>2 DEF FrameOK
  <1>4. UNCHANGED taskLoad => TaskLoadIsTyped'
    <2> SUFFICES ASSUME UNCHANGED taskLoad PROVE TaskLoadIsTyped'
      OBVIOUS
    <2>1. TaskLoadIsTyped
      BY DEF TypeInv
    <2>2. taskLoad.step = "answered" => taskLoad.page.next \in Nat /\ taskLoad.newest \in Nat
      BY <2>1 DEF TaskLoadIsTyped, TaskLoads, NoLoad
    <2>3. ASSUME taskLoad.step = "answered"
          PROVE  /\ taskLoad.page.next <= Len(rows)' /\ taskLoad.newest <= Len(rows)'
                 /\ Listed(taskLoad.page) \subseteq DOMAIN rows'
      BY <1>1, <2>1, <2>2, <2>3 DEF TaskLoadIsTyped
    <2> QED BY <2>1, <2>3 DEF TaskLoadIsTyped, Listed
  <1>5. UNCHANGED messageLoad => MessageLoadIsTyped'
    <2> SUFFICES ASSUME UNCHANGED messageLoad PROVE MessageLoadIsTyped'
      OBVIOUS
    <2>1. MessageLoadIsTyped
      BY DEF TypeInv
    <2>2. messageLoad.step = "answered" => messageLoad.page.next \in Nat
      BY <2>1 DEF MessageLoadIsTyped, MessageLoads, NoLoad
    <2>3. ASSUME messageLoad.step = "answered"
          PROVE  /\ messageLoad.page.next <= Len(log)'
                 /\ ToSet(messageLoad.page.items) \subseteq Conversation'
      BY <1>1, <1>2, <2>1, <2>2, <2>3 DEF MessageLoadIsTyped
    <2> QED BY <2>1, <2>3 DEF MessageLoadIsTyped
  <1>6. UNCHANGED org => OrgIsTyped'
    BY <1>1 DEF TypeInv, OrgIsTyped
  <1>7. UNCHANGED <<tasks, taskCursor, loaded>> => TasksAreTyped'
    BY <1>1 DEF TypeInv, TasksAreTyped, Shown
  <1>8. UNCHANGED <<messages, messageCursor>> => MessagesAreTyped'
    BY <1>1, <1>2 DEF TypeInv, MessagesAreTyped
  <1> QED BY <1>3, <1>4, <1>5, <1>6, <1>7, <1>8

-----------------------------------------------------------------------------
(* The server's steps keep the types of its state and of the frames. *)
ServerInv == ServerTypeOK /\ FramesAreTyped

LEMMA FramesFollow ==
  ASSUME FramesAreTyped, \A f \in FrameSet : FrameOK(f) => FrameOK(f)',
         NEW frames \in Seq(FrameSet), \A k \in DOMAIN frames : FrameOK(frames[k])',
         down' = down \/ down' = down \o frames
  PROVE  FramesAreTyped'
  <1>1. down \in Seq(FrameSet) /\ \A k \in DOMAIN down : down[k] \in FrameSet /\ FrameOK(down[k])
    BY LenProperties DEF FramesAreTyped
  <1>2. CASE down' = down
    BY <1>1, <1>2 DEF FramesAreTyped
  <1>3. CASE down' = down \o frames
    <2>1. /\ down' \in Seq(FrameSet) /\ Len(down') = Len(down) + Len(frames)
          /\ \A i \in 1..(Len(down) + Len(frames)) :
               down'[i] = IF i <= Len(down) THEN down[i] ELSE frames[i - Len(down)]
      BY <1>1, <1>3, ConcatProperties
    <2>2. /\ Len(down) \in Nat /\ DOMAIN down = 1..Len(down)
          /\ Len(frames) \in Nat /\ DOMAIN frames = 1..Len(frames)
          /\ DOMAIN down' = 1..(Len(down) + Len(frames))
      BY <1>1, <2>1, LenProperties
    <2>3. ASSUME NEW i \in DOMAIN down'
          PROVE  \/ \E k \in DOMAIN down : down'[i] = down[k]
                 \/ \E k \in DOMAIN frames : down'[i] = frames[k]
      <3>1. i \in 1..(Len(down) + Len(frames)) /\ i \in Nat
        BY <2>2
      <3>2. CASE i <= Len(down)
        BY <2>1, <2>2, <3>1, <3>2
      <3>3. CASE ~ (i <= Len(down))
        <4>1. i - Len(down) \in DOMAIN frames
          BY <2>2, <3>1, <3>3
        <4> QED BY <2>1, <3>1, <3>3, <4>1
      <3> QED BY <3>2, <3>3
    <2>4. ASSUME NEW i \in DOMAIN down' PROVE FrameOK(down[i])'
      BY <1>1, <2>3 DEF FrameOK
    <2> QED BY <2>1, <2>4 DEF FramesAreTyped
  <1> QED BY <1>2, <1>3

LEMMA QueuedIsFinite == ASSUME ServerTypeOK PROVE Cardinality(Queued) \in Nat
  <1>1. Queued \in SUBSET (1..Len(log)) /\ Len(log) \in Nat
    BY ServerFacts DEF Queued
  <1>2. IsFiniteSet(1..Len(log))
    BY <1>1, FS_Interval
  <1> QED BY <1>1, <1>2, FS_Subset, FS_CardinalityType

LEMMA OrgFrameIsTyped == ASSUME ServerTypeOK PROVE OrgFrame \in FrameSet /\ FrameOK(OrgFrame)
  <1>1. Cardinality(Queued) \in Nat /\ acked \in Int
    BY QueuedIsFinite, ObserverAssumption DEF ServerTypeOK
  <1>2. OrgState \in OrgStates /\ OrgState.upTo = Len(log)
    BY <1>1, ServerFacts DEF OrgState, OrgStates
  <1>3. OrgFrame \in FrameSet /\ OrgFrame.kind = "org" /\ OrgFrame.org = OrgState
    BY <1>2 DEF OrgFrame, FrameSet
  <1> QED BY <1>2, <1>3, ServerFacts DEF FrameOK

LEMMA TickTypes == ASSUME ServerInv, Tick PROVE ServerTypeOK' /\ Grows /\ UNCHANGED down
  <1>1. clock' = clock + 1 /\ clock < MaxClock
        /\ UNCHANGED <<rows, log, acked, watermark, timer, joined, down, told, marks>>
    BY DEF Tick
  <1>2. clock' \in 1..MaxClock /\ watermark \in 0..clock'
    BY <1>1, ServerFacts DEF ServerInv, ServerTypeOK
  <1>3. [version : 1..MaxVersion, at : 0..clock] \subseteq [version : 1..MaxVersion, at : 0..clock']
    BY <1>1, ServerFacts DEF ServerInv
  <1>4. rows \in Seq([version : 1..MaxVersion, at : 0..clock'])
    BY <1>3, SeqMonotonic DEF ServerInv, ServerTypeOK
  <1>5. ServerTypeOK'
    BY <1>1, <1>2, <1>4 DEF ServerInv, ServerTypeOK
  <1> QED BY <1>1, <1>5, ServerFacts DEF Grows, ServerInv

LEMMA CreateTaskTypes == ASSUME ServerInv, CreateTask PROVE ServerTypeOK' /\ Grows /\ UNCHANGED down
  <1> DEFINE R   == [version : 1..MaxVersion, at : 0..clock]
             row == [version |-> 1, at |-> clock]
             n   == Len(rows) + 1
  <1>1. /\ Len(rows) < MaxTasks /\ rows' = Append(rows, row) /\ told' = Append(told, 0)
        /\ UNCHANGED <<clock, log, acked, watermark, timer, joined, down, marks>>
    BY DEF CreateTask
  <1>2. /\ clock \in Nat /\ Len(rows) \in Nat /\ DOMAIN rows = 1..Len(rows) /\ MaxTasks \in Nat
        /\ Len(log) \in Nat /\ MaxVersion \in Nat \ {0}
    BY ServerFacts, ObserverAssumption DEF ServerInv
  <1>3. row \in R /\ rows \in Seq(R)
    BY <1>2 DEF ServerInv, ServerTypeOK
  <1> HIDE DEF R, row
  <1>4. /\ rows' \in Seq(R) /\ Len(rows') = n
        /\ DOMAIN rows' = 1..n
    BY <1>1, <1>3, AppendProperties, LenProperties
  <1>5. told \in [1..Len(rows) -> 0..MaxVersion]
    BY <1>2 DEF ServerInv, ServerTypeOK
  <1>6. told' \in [1..n -> 0..MaxVersion]
    <2>1. told \in Seq(0..MaxVersion) /\ Len(told) = Len(rows) /\ 0 \in 0..MaxVersion
      BY <1>2, <1>5, SeqDef, LenProperties
    <2>2. told' \in Seq(0..MaxVersion) /\ Len(told') = n
      BY <1>1, <2>1, AppendProperties
    <2> QED BY <2>2, LenProperties
  <1>7. Len(rows') <= MaxTasks /\ Len(rows) <= Len(rows') /\ DOMAIN rows \subseteq DOMAIN rows'
    BY <1>1, <1>2, <1>4
  <1>8. ServerTypeOK'
    BY <1>1, <1>4, <1>6, <1>7 DEF ServerInv, ServerTypeOK, R
  <1> QED BY <1>1, <1>2, <1>7, <1>8 DEF Grows

LEMMA UpdateTaskTypes ==
  ASSUME ServerInv, NEW r \in DOMAIN rows, UpdateTask(r)
  PROVE  ServerTypeOK' /\ Grows /\ UNCHANGED down
  <1> DEFINE R   == [version : 1..MaxVersion, at : 0..clock]
             row == [version |-> rows[r].version + 1, at |-> clock]
  <1>1. /\ rows[r].version < MaxVersion /\ rows' = [rows EXCEPT ![r] = row]
        /\ UNCHANGED <<clock, log, acked, watermark, timer, joined, down, told, marks>>
    BY DEF UpdateTask
  <1>2. /\ clock \in Nat /\ Len(rows) \in Nat /\ DOMAIN rows = 1..Len(rows)
        /\ Len(log) \in Nat /\ MaxVersion \in Nat /\ rows[r].version \in 1..MaxVersion
    BY ServerFacts DEF ServerInv
  <1>3. row \in R /\ rows \in Seq(R)
    BY <1>1, <1>2 DEF ServerInv, ServerTypeOK
  <1> HIDE DEF R, row
  <1>4. rows' \in Seq(R) /\ Len(rows') = Len(rows)
    BY <1>1, <1>2, <1>3, ExceptSeq
  <1>5. DOMAIN rows' = DOMAIN rows
    BY <1>2, <1>4, LenProperties
  <1>6. ServerTypeOK'
    BY <1>1, <1>4, <1>5 DEF ServerInv, ServerTypeOK, R
  <1> QED BY <1>1, <1>2, <1>4, <1>5, <1>6 DEF Grows

LEMMA ConsumeTypes == ASSUME ServerInv, Consume PROVE ServerTypeOK' /\ Grows /\ UNCHANGED down
  <1>1. acked < MaxAcks /\ acked' = acked + 1
        /\ UNCHANGED <<clock, rows, log, watermark, timer, joined, down, told, marks>>
    BY DEF Consume
  <1>2. acked' \in 0..MaxAcks
    BY <1>1, ObserverAssumption DEF ServerInv, ServerTypeOK
  <1>3. ServerTypeOK'
    BY <1>1, <1>2 DEF ServerInv, ServerTypeOK
  <1> QED BY <1>1, <1>3, ServerFacts DEF Grows, ServerInv

(* The frames an event is told of with. *)
EventFrames(e, seq) ==
  <<EventFrame(seq)>> \o (IF IsPrincipalMessage(e) THEN <<MessageFrame(seq)>> ELSE <<>>)

LEMMA PublishFacts ==
  ASSUME ServerTypeOK, NEW e \in Int, Publish(e)
  PROVE  /\ Len(log) \in Nat /\ Len(log)' = Len(log) + 1 /\ log' \in Seq(Int)
         /\ Len(log) < MaxEvents
         /\ DOMAIN log = 1..Len(log) /\ DOMAIN log' = 1..(Len(log) + 1)
         /\ log'[Len(log) + 1] = e /\ \A i \in DOMAIN log : log'[i] = log[i]
         /\ down' = IF joined THEN down \o EventFrames(e, Len(log) + 1) ELSE down
         /\ timer' = TRUE /\ UNCHANGED <<clock, rows, acked, watermark, joined, told, marks>>
  <1>1. /\ Len(log) < MaxEvents /\ log' = Append(log, e)
        /\ timer' = TRUE /\ UNCHANGED <<clock, rows, acked, watermark, joined, told, marks>>
        /\ down' = IF joined THEN down \o EventFrames(e, Len(log) + 1) ELSE down
    BY DEF Publish, ScheduleFlush, Broadcast, EventFrames
  <1>2. log \in Seq(Int)
    BY DEF ServerTypeOK
  <1>3. /\ log' \in Seq(Int) /\ Len(log') = Len(log) + 1
        /\ \A i \in 1..Len(log) : log'[i] = log[i]
        /\ log'[Len(log) + 1] = e
    BY <1>1, <1>2, AppendProperties
  <1>4. Len(log) \in Nat /\ DOMAIN log = 1..Len(log) /\ DOMAIN log' = 1..Len(log')
    BY <1>2, <1>3, LenProperties
  <1> QED BY <1>1, <1>3, <1>4

LEMMA EventFramesFacts ==
  ASSUME NEW e \in Int, NEW seq \in Nat
  PROVE  LET frames == EventFrames(e, seq)
         IN  /\ frames \in Seq(FrameSet)
             /\ frames[1] = EventFrame(seq)
             /\ IsPrincipalMessage(e) => DOMAIN frames = {1, 2} /\ frames[2] = MessageFrame(seq)
             /\ ~IsPrincipalMessage(e) => DOMAIN frames = {1}
  <1> DEFINE frames == EventFrames(e, seq)
  <1>1. EventFrame(seq) \in FrameSet /\ MessageFrame(seq) \in FrameSet
    BY DEF EventFrame, MessageFrame, FrameSet
  <1>2. CASE IsPrincipalMessage(e)
    <2>1. frames = <<EventFrame(seq)>> \o <<MessageFrame(seq)>>
      BY <1>2 DEF EventFrames
    <2> DEFINE s == <<EventFrame(seq)>>
               t == <<MessageFrame(seq)>>
    <2>2. /\ s \in Seq(FrameSet) /\ Len(s) = 1 /\ s[1] = EventFrame(seq)
          /\ t \in Seq(FrameSet) /\ Len(t) = 1 /\ t[1] = MessageFrame(seq)
      BY <1>1
    <2> HIDE DEF s, t
    <2>3. /\ s \o t \in Seq(FrameSet) /\ Len(s \o t) = 2
          /\ (s \o t)[1] = s[1] /\ (s \o t)[2] = t[1]
      <3>1. /\ s \o t \in Seq(FrameSet)
            /\ Len(s \o t) = Len(s) + Len(t)
            /\ \A i \in 1..(Len(s) + Len(t)) : (s \o t)[i] = IF i <= Len(s) THEN s[i] ELSE t[i - Len(s)]
        BY <2>2, ConcatProperties
      <3> QED BY <2>2, <3>1
    <2>4. frames \in Seq(FrameSet) /\ DOMAIN frames = {1, 2}
          /\ frames[1] = EventFrame(seq) /\ frames[2] = MessageFrame(seq)
      <3>1. frames = s \o t
        BY <2>1 DEF s, t
      <3>2. DOMAIN frames = 1..2
        BY <2>3, <3>1, LenProperties
      <3> QED BY <2>2, <2>3, <3>1, <3>2
    <2> QED BY <1>2, <2>4
  <1>3. CASE ~IsPrincipalMessage(e)
    <2>1. frames = <<EventFrame(seq)>>
      BY <1>3 DEF EventFrames
    <2> QED BY <1>1, <1>3, <2>1
  <1> QED BY <1>2, <1>3

LEMMA PublishTypes ==
  ASSUME ServerInv, NEW e \in Int, Publish(e)
  PROVE  ServerTypeOK' /\ Grows
  <1>1. /\ Len(log) \in Nat /\ Len(log)' = Len(log) + 1 /\ log' \in Seq(Int)
        /\ Len(log) < MaxEvents
        /\ DOMAIN log = 1..Len(log) /\ DOMAIN log' = 1..(Len(log) + 1)
        /\ \A i \in DOMAIN log : log'[i] = log[i]
        /\ down' = IF joined THEN down \o EventFrames(e, Len(log) + 1) ELSE down
        /\ timer' = TRUE /\ UNCHANGED <<clock, rows, acked, watermark, joined, told, marks>>
    BY PublishFacts DEF ServerInv
  <1>2. MaxEvents \in Nat /\ Len(rows) \in Nat
    BY ServerFacts DEF ServerInv
  <1>3. Len(log)' <= MaxEvents
    BY <1>1, <1>2
  <1>4. ServerTypeOK'
    BY <1>1, <1>3 DEF ServerInv, ServerTypeOK
  <1>5. DOMAIN log \subseteq DOMAIN log' /\ Len(log) <= Len(log)' /\ Len(rows) <= Len(rows)'
    BY <1>1, <1>2
  <1> QED BY <1>1, <1>4, <1>5 DEF Grows

LEMMA PublishFrames ==
  ASSUME TypeInv, NEW e \in Int, Publish(e)
  PROVE  FramesAreTyped'
  <1>0. PICK seq \in Nat : seq = Len(log) + 1
    BY ServerFacts DEF TypeInv
  <1> DEFINE frames == EventFrames(e, seq)
  <1>1. /\ Len(log) \in Nat /\ DOMAIN log' = 1..(Len(log) + 1) /\ log'[Len(log) + 1] = e
        /\ down' = IF joined THEN down \o EventFrames(e, Len(log) + 1) ELSE down
    BY PublishFacts DEF TypeInv
  <1>2. \A f \in FrameSet : FrameOK(f) => FrameOK(f)'
    BY PublishTypes, TypesStay DEF ServerInv, TypeInv
  <1>3. seq \in DOMAIN log' /\ seq \in Nat /\ (IsPrincipalMessage(e) => seq \in Conversation')
    BY <1>0, <1>1 DEF Conversation, IsPrincipalMessage
  <1>4. /\ frames \in Seq(FrameSet)
        /\ \A k \in DOMAIN frames : \/ frames[k] = EventFrame(seq)
                                    \/ IsPrincipalMessage(e) /\ frames[k] = MessageFrame(seq)
    BY <1>3, EventFramesFacts
  <1> HIDE DEF frames
  <1>5. ASSUME NEW k \in DOMAIN frames PROVE FrameOK(frames[k])'
    <2>1. \/ frames[k] = EventFrame(seq)
          \/ IsPrincipalMessage(e) /\ frames[k] = MessageFrame(seq)
      BY <1>4
    <2>2. frames[k]' = frames[k]
      BY DEF frames
    <2> QED BY <1>3, <2>1, <2>2 DEF FrameOK, EventFrame, MessageFrame
  <1>6. down' = down \/ down' = down \o frames
    BY <1>0, <1>1 DEF frames
  <1>7. FramesAreTyped
    BY DEF TypeInv
  <1> QED BY <1>2, <1>4, <1>5, <1>6, <1>7, FramesFollow

(* The deltas of a flush are in order of time: any set of rows can be put so. *)
LEMMA OldestFacts ==
  ASSUME ServerTypeOK, NEW changed \in SUBSET DOMAIN rows
  PROVE  Oldest(changed) \in Seq(changed)
  <1> DEFINE R == {p \in changed \X changed : Earlier(p[1], p[2])}
  <1>1. \A r, s \in changed : <<r, s>> \in R <=> Earlier(r, s)
    OBVIOUS
  <1>2. Oldest(changed) = Arrange(changed, R)
    BY DEF Oldest
  <1> HIDE DEF R
  <1>3. \A r \in changed : rows[r].at \in Nat /\ r \in Nat
    BY ServerFacts
  <1>4. Orders(R, changed)
    BY <1>1, <1>3 DEF Orders, Earlier
  <1>5. IsFiniteSet(changed)
    <2>1. IsFiniteSet(1..Len(rows)) /\ changed \in SUBSET (1..Len(rows))
      BY ServerFacts, FS_Interval
    <2> QED BY <2>1, FS_Subset
  <1>6. /\ Cardinality(changed) \in Nat
        /\ Arrange(changed, R) \in [1..Cardinality(changed) -> changed]
    BY <1>4, <1>5, Arranged
  <1> QED BY <1>2, <1>6, SeqDef

LEMMA FlushFrames ==
  ASSUME ServerTypeOK, Flush
  PROVE  \E frames \in Seq(FrameSet) :
           /\ down' = IF joined THEN down \o frames ELSE down
           /\ \A k \in DOMAIN frames : /\ FrameOK(frames[k])
                                       /\ frames[k].kind \in {"org", "task"}
                                       /\ frames[k].kind = "org" => frames[k] = OrgFrame
           /\ 1 \in DOMAIN frames /\ frames[1] = OrgFrame
  <1> DEFINE changed == TasksChangedSince(watermark)
             deltas  == Oldest(changed)
             tail    == [k \in DOMAIN deltas |-> TaskFrame(deltas[k])]
             head    == <<OrgFrame>>
             frames  == head \o tail
  <1>1. down' = IF joined THEN down \o frames ELSE down
    BY DEF Flush, Broadcast
  <1>2. deltas \in Seq(changed) /\ changed \in SUBSET DOMAIN rows
    BY OldestFacts DEF TasksChangedSince
  <1>3. \A r \in changed : TaskFrame(r) \in FrameSet /\ FrameOK(TaskFrame(r)) /\ TaskFrame(r).kind = "task"
    <2> SUFFICES ASSUME NEW r \in changed
                 PROVE  TaskFrame(r) \in FrameSet /\ FrameOK(TaskFrame(r)) /\ TaskFrame(r).kind = "task"
      OBVIOUS
    <2>1. r \in DOMAIN rows /\ r \in Nat /\ rows[r].version \in Nat
      BY <1>2, ServerFacts
    <2> QED BY <2>1 DEF TaskFrame, TaskRow, FrameSet, TaskRows, FrameOK
  <1> HIDE DEF changed, deltas
  <1>4. Len(deltas) \in Nat /\ DOMAIN deltas = 1..Len(deltas) /\ \A k \in DOMAIN deltas : deltas[k] \in changed
    BY <1>2, LenProperties
  <1>5. /\ tail \in Seq(FrameSet) /\ Len(tail) = Len(deltas) /\ DOMAIN tail = DOMAIN deltas
        /\ \A k \in DOMAIN tail : FrameOK(tail[k]) /\ tail[k].kind = "task"
    <2>1. tail \in [1..Len(deltas) -> FrameSet]
      BY <1>3, <1>4
    <2>2. \A k \in DOMAIN tail : FrameOK(tail[k]) /\ tail[k].kind = "task"
      BY <1>3, <1>4
    <2> QED BY <1>4, <2>1, <2>2, SeqDef, LenProperties
  <1>6. /\ head \in Seq(FrameSet) /\ Len(head) = 1 /\ FrameOK(head[1]) /\ head[1].kind = "org" /\ head[1] = OrgFrame
    BY OrgFrameIsTyped DEF OrgFrame
  <1> HIDE DEF head, tail
  <1>7. /\ frames \in Seq(FrameSet) /\ Len(frames) = 1 + Len(tail)
        /\ \A i \in 1..(1 + Len(tail)) : frames[i] = IF i <= 1 THEN head[i] ELSE tail[i - 1]
    <2>1. /\ frames \in Seq(FrameSet) /\ Len(frames) = Len(head) + Len(tail)
          /\ \A i \in 1..(Len(head) + Len(tail)) :
               frames[i] = IF i <= Len(head) THEN head[i] ELSE tail[i - Len(head)]
      BY <1>5, <1>6, ConcatProperties
    <2> HIDE DEF frames
    <2> QED BY <1>6, <2>1
  <1>8. DOMAIN frames = 1..(1 + Len(tail))
    BY <1>7, LenProperties
  <1>9. ASSUME NEW k \in DOMAIN frames
        PROVE  /\ FrameOK(frames[k]) /\ frames[k].kind \in {"org", "task"}
               /\ frames[k].kind = "org" => frames[k] = OrgFrame
    <2>1. CASE k = 1
      BY <1>4, <1>5, <1>6, <1>7, <1>8, <2>1
    <2>2. CASE k # 1
      <3>1. k - 1 \in DOMAIN tail /\ frames[k] = tail[k - 1]
        BY <1>4, <1>5, <1>7, <1>8, <2>2
      <3> QED BY <1>5, <3>1
    <2> QED BY <2>1, <2>2
  <1>10. 1 \in DOMAIN frames /\ frames[1] = OrgFrame
    BY <1>4, <1>5, <1>6, <1>7, <1>8
  <1> HIDE DEF frames
  <1> QED BY <1>1, <1>7, <1>9, <1>10

LEMMA FlushTypes == ASSUME TypeInv, Flush PROVE ServerTypeOK' /\ Grows /\ FramesAreTyped'
  <1> DEFINE changed == TasksChangedSince(watermark)
  <1>1. /\ watermark' = Newest(changed, watermark) /\ timer' = FALSE
        /\ told' = [r \in DOMAIN told |-> IF r \in changed THEN rows[r].version ELSE told[r]]
        /\ UNCHANGED <<clock, rows, log, acked, joined>>
    BY DEF Flush
  <1>2. ServerTypeOK
    BY DEF TypeInv
  <1>3. RowsAreTimed
    <2>1. [version : 1..MaxVersion, at : 0..clock] \subseteq RowOK
      BY <1>2, ServerFacts DEF RowOK
    <2>2. rows \in Seq(RowOK)
      BY <1>2, <2>1, SeqMonotonic DEF ServerTypeOK
    <2> QED BY <1>2, <2>2, ServerFacts DEF RowsAreTimed
  <1>4. changed \in SUBSET DOMAIN rows /\ watermark \in 0..clock
    BY <1>2 DEF TasksChangedSince, ServerTypeOK
  <1> HIDE DEF changed
  <1>5. watermark' \in 0..clock
    BY <1>1, <1>3, <1>4, NewestIsGreatest
  <1>6. told \in [DOMAIN rows -> 0..MaxVersion]
    BY <1>2 DEF ServerTypeOK
  <1>7. told' \in [DOMAIN rows -> 0..MaxVersion]
    <2>1. \A r \in DOMAIN rows : rows[r].version \in 0..MaxVersion
      BY <1>2, ServerFacts
    <2> QED BY <1>1, <1>6, <2>1
  <1>8. down' = down \/ joined
    BY DEF Flush, Broadcast
  <1>9. ServerTypeOK'
    BY <1>1, <1>2, <1>5, <1>7, <1>8 DEF ServerTypeOK
  <1>10. Grows
    BY <1>1, <1>2, ServerFacts DEF Grows
  <1>11. PICK frames \in Seq(FrameSet) :
           /\ down' = IF joined THEN down \o frames ELSE down
           /\ \A k \in DOMAIN frames : FrameOK(frames[k])
    BY <1>2, FlushFrames
  <1>12. \A k \in DOMAIN frames : FrameOK(frames[k])'
    BY <1>1, <1>11 DEF FrameOK, Conversation, IsPrincipalMessage
  <1>13. down' = down \/ down' = down \o frames
    BY <1>11
  <1>14. FramesAreTyped /\ \A f \in FrameSet : FrameOK(f) => FrameOK(f)'
    BY <1>9, <1>10, TypesStay DEF TypeInv
  <1>15. FramesAreTyped'
    BY <1>12, <1>13, <1>14, FramesFollow
  <1> QED BY <1>9, <1>10, <1>15

(* A step of the server that nothing else is part of. *)
Alone(e) == Work \/ Accept \/ Forget \/ Publish(e)

LEMMA ServerStepTypes ==
  ASSUME TypeInv, NEW e \in Int, Alone(e)
  PROVE  ServerTypeOK' /\ Grows /\ FramesAreTyped'
  <1>1. ServerInv /\ ServerTypeOK
    BY DEF TypeInv, ServerInv
  <1>2. ASSUME ServerTypeOK', Grows, UNCHANGED down PROVE FramesAreTyped'
    <2>1. FramesAreTyped /\ \A f \in FrameSet : FrameOK(f) => FrameOK(f)'
      BY <1>2, TypesStay DEF TypeInv
    <2>2. down' \in Seq(FrameSet) /\ \A k \in DOMAIN down : down[k] \in FrameSet /\ FrameOK(down[k])
      BY <1>2, <2>1, LenProperties DEF FramesAreTyped
    <2>3. ASSUME NEW k \in DOMAIN down' PROVE FrameOK(down[k])'
      BY <1>2, <2>1, <2>2 DEF FrameOK
    <2> QED BY <2>2, <2>3 DEF FramesAreTyped
  <1>3. CASE Tick
    BY <1>1, <1>2, <1>3, TickTypes
  <1>4. CASE CreateTask
    BY <1>1, <1>2, <1>4, CreateTaskTypes
  <1>5. ASSUME NEW r \in DOMAIN rows, UpdateTask(r) PROVE ServerTypeOK' /\ Grows /\ FramesAreTyped'
    BY <1>1, <1>2, <1>5, UpdateTaskTypes
  <1>6. CASE Consume
    BY <1>1, <1>2, <1>6, ConsumeTypes
  <1>7. ASSUME NEW d \in Int, Publish(d) PROVE ServerTypeOK' /\ Grows /\ FramesAreTyped'
    BY <1>1, <1>7, PublishTypes, PublishFrames
  <1>8. CASE Flush
    BY <1>8, FlushTypes
  <1>9. CASE Accept
    <2>1. down' = <<OrgFrame>> /\ joined' = TRUE
          /\ UNCHANGED <<clock, rows, log, acked, watermark, timer, told, marks>>
      BY <1>9 DEF Accept
    <2>2. ServerTypeOK' /\ Grows
      BY <1>1, <2>1, ServerFacts DEF ServerTypeOK, Grows
    <2>3. PICK f \in FrameSet : f = OrgFrame
      BY <1>1, OrgFrameIsTyped
    <2>4. FrameOK(f)
      BY <1>1, <2>3, OrgFrameIsTyped
    <2>5. FrameOK(f)'
      BY <2>1, <2>4 DEF FrameOK, Conversation, IsPrincipalMessage
    <2>6. down' = <<f>> /\ down' \in Seq(FrameSet) /\ \A k \in DOMAIN down' : down'[k] = f
      BY <2>1, <2>3
    <2>7. ASSUME NEW k \in DOMAIN down' PROVE FrameOK(down[k])'
      BY <2>5, <2>6 DEF FrameOK
    <2> QED BY <2>2, <2>6, <2>7 DEF FramesAreTyped
  <1>10. CASE Forget
    <2>1. down' = <<>> /\ joined' = FALSE
          /\ UNCHANGED <<clock, rows, log, acked, watermark, timer, told, marks>>
      BY <1>10 DEF Forget
    <2>2. ServerTypeOK'
      BY <1>1, <2>1 DEF ServerTypeOK
    <2>3. Grows
      BY <1>1, <2>1, ServerFacts DEF Grows
    <2> QED BY <2>1, <2>2, <2>3 DEF FramesAreTyped
  <1>11. Reply \in Int /\ Other \in Int
    BY DEF Reply, Other
  <1> QED BY <1>3, <1>4, <1>5, <1>6, <1>7, <1>8, <1>9, <1>10, <1>11
          DEF Alone, Work, PublishReply, PublishOther

-----------------------------------------------------------------------------
(* What the reducer makes of the lists *)
Ids(s) == {s[k].id : k \in DOMAIN s}
Distinct(s) == \A j, k \in DOMAIN s : j # k => s[j].id # s[k].id
Ascending(s) == \A j, k \in DOMAIN s : j < k => s[j] < s[k]
Descending(s) == \A j, k \in DOMAIN s : j < k => s[j] > s[k]

(* Two sequences one after the other hold what each of them holds. *)
LEMMA Concatenated ==
  ASSUME NEW S, NEW s \in Seq(S), NEW t \in Seq(S)
  PROVE  /\ s \o t \in Seq(S)
         /\ DOMAIN s = 1..Len(s) /\ DOMAIN t = 1..Len(t) /\ Len(s) \in Nat /\ Len(t) \in Nat
         /\ DOMAIN (s \o t) = 1..(Len(s) + Len(t))
         /\ \A k \in DOMAIN s : k \in DOMAIN (s \o t) /\ (s \o t)[k] = s[k]
         /\ \A k \in DOMAIN t : Len(s) + k \in DOMAIN (s \o t) /\ (s \o t)[Len(s) + k] = t[k]
         /\ \A i \in DOMAIN (s \o t) :
              \/ i \in DOMAIN s /\ (s \o t)[i] = s[i]
              \/ /\ i > Len(s) /\ i - Len(s) \in DOMAIN t
                 /\ (s \o t)[i] = t[i - Len(s)]
  <1> DEFINE c == s \o t
  <1>1. /\ c \in Seq(S) /\ Len(c) = Len(s) + Len(t)
        /\ \A i \in 1..(Len(s) + Len(t)) : c[i] = IF i <= Len(s) THEN s[i] ELSE t[i - Len(s)]
    BY ConcatProperties
  <1> HIDE DEF c
  <1>2. /\ DOMAIN s = 1..Len(s) /\ DOMAIN t = 1..Len(t) /\ Len(s) \in Nat /\ Len(t) \in Nat
        /\ DOMAIN c = 1..(Len(s) + Len(t))
    BY <1>1, LenProperties
  <1>3. \A k \in DOMAIN s : k \in DOMAIN c /\ c[k] = s[k]
    BY <1>1, <1>2
  <1>4. \A k \in DOMAIN t : Len(s) + k \in DOMAIN c /\ c[Len(s) + k] = t[k]
    <2> SUFFICES ASSUME NEW k \in DOMAIN t
                 PROVE  Len(s) + k \in DOMAIN c /\ c[Len(s) + k] = t[k]
      OBVIOUS
    <2>1. Len(s) + k \in 1..(Len(s) + Len(t)) /\ ~ (Len(s) + k <= Len(s)) /\ (Len(s) + k) - Len(s) = k
      BY <1>2
    <2> QED BY <1>1, <1>2, <2>1
  <1>5. \A i \in DOMAIN c : \/ i \in DOMAIN s /\ c[i] = s[i]
                            \/ i > Len(s) /\ i - Len(s) \in DOMAIN t /\ c[i] = t[i - Len(s)]
    <2> SUFFICES ASSUME NEW i \in DOMAIN c
                 PROVE  \/ i \in DOMAIN s /\ c[i] = s[i]
                        \/ i > Len(s) /\ i - Len(s) \in DOMAIN t /\ c[i] = t[i - Len(s)]
      OBVIOUS
    <2>1. i \in 1..(Len(s) + Len(t)) /\ i \in Nat
      BY <1>2
    <2>2. CASE i <= Len(s)
      BY <1>1, <1>2, <2>1, <2>2
    <2>3. CASE ~ (i <= Len(s))
      <3>1. i > Len(s) /\ i - Len(s) \in DOMAIN t
        BY <1>2, <2>1, <2>3
      <3> QED BY <1>1, <2>1, <2>3, <3>1
    <2> QED BY <2>2, <2>3
  <1> QED BY <1>1, <1>2, <1>3, <1>4, <1>5 DEF c

LEMMA DistinctConcatenated ==
  ASSUME NEW s \in Seq(TaskRows), NEW t \in Seq(TaskRows)
  PROVE  /\ s \o t \in Seq(TaskRows)
         /\ Ids(s \o t) = Ids(s) \union Ids(t)
         /\ Distinct(s) /\ Distinct(t) /\ Ids(s) \intersect Ids(t) = {} => Distinct(s \o t)
  <1> DEFINE c == s \o t
  <1>1. /\ c \in Seq(TaskRows)
        /\ DOMAIN s = 1..Len(s) /\ DOMAIN t = 1..Len(t) /\ Len(s) \in Nat /\ Len(t) \in Nat
        /\ DOMAIN c = 1..(Len(s) + Len(t))
        /\ \A k \in DOMAIN s : k \in DOMAIN c /\ c[k] = s[k]
        /\ \A k \in DOMAIN t : Len(s) + k \in DOMAIN c /\ c[Len(s) + k] = t[k]
        /\ \A i \in DOMAIN c : \/ i \in DOMAIN s /\ c[i] = s[i]
                               \/ i > Len(s) /\ i - Len(s) \in DOMAIN t /\ c[i] = t[i - Len(s)]
    BY Concatenated
  <1> HIDE DEF c
  <1>2. Ids(c) = Ids(s) \union Ids(t)
    <2>1. Ids(c) \subseteq Ids(s) \union Ids(t)
      BY <1>1 DEF Ids
    <2>2. Ids(s) \subseteq Ids(c)
      BY <1>1 DEF Ids
    <2>3. Ids(t) \subseteq Ids(c)
      BY <1>1 DEF Ids
    <2> QED BY <2>1, <2>2, <2>3
  <1>3. ASSUME Distinct(s), Distinct(t), Ids(s) \intersect Ids(t) = {},
               NEW i \in DOMAIN c, NEW j \in DOMAIN c, i # j
        PROVE  c[i].id # c[j].id
    <2>1. \A x \in DOMAIN s, y \in DOMAIN t : s[x].id # t[y].id
      BY <1>3 DEF Ids
    <2>2. CASE i \in DOMAIN s /\ j \in DOMAIN s
      BY <1>1, <1>3, <2>2 DEF Distinct
    <2>3. CASE i \in DOMAIN s /\ j \notin DOMAIN s
      BY <1>1, <2>1, <2>3
    <2>4. CASE i \notin DOMAIN s /\ j \in DOMAIN s
      BY <1>1, <2>1, <2>4
    <2>5. CASE i \notin DOMAIN s /\ j \notin DOMAIN s
      <3>1. /\ i - Len(s) \in DOMAIN t /\ c[i] = t[i - Len(s)]
            /\ j - Len(s) \in DOMAIN t /\ c[j] = t[j - Len(s)]
        BY <1>1, <2>5
      <3>2. i - Len(s) # j - Len(s)
        BY <1>1, <1>3
      <3> QED BY <1>3, <3>1, <3>2 DEF Distinct
    <2> QED BY <2>2, <2>3, <2>4, <2>5
  <1> QED BY <1>1, <1>2, <1>3 DEF c, Distinct

LEMMA UpsertFacts ==
  ASSUME tasks \in Seq(TaskRows), NEW t \in TaskRows
  PROVE  /\ UpsertTask(t) \in Seq(TaskRows)
         /\ Ids(UpsertTask(t)) = Shown \union {t.id}
         /\ Distinct(tasks) => Distinct(UpsertTask(t))
  <1>1. DOMAIN tasks = 1..Len(tasks) /\ Len(tasks) \in Nat /\ \A k \in DOMAIN tasks : tasks[k] \in TaskRows
    BY LenProperties
  <1>2. CASE t.id \in Shown
    <2> DEFINE s == [k \in DOMAIN tasks |-> IF tasks[k].id = t.id THEN t ELSE tasks[k]]
    <2>1. UpsertTask(t) = s
      BY <1>2 DEF UpsertTask
    <2>2. s \in [1..Len(tasks) -> TaskRows]
      BY <1>1
    <2>3. s \in Seq(TaskRows)
      BY <1>1, <2>2, SeqDef
    <2>4. DOMAIN s = DOMAIN tasks /\ \A k \in DOMAIN tasks : s[k].id = tasks[k].id
      OBVIOUS
    <2> HIDE DEF s
    <2>5. Ids(s) = Shown
      BY <2>4 DEF Ids, Shown
    <2> QED BY <1>2, <2>1, <2>3, <2>4, <2>5 DEF Distinct
  <1>3. CASE t.id \notin Shown
    <2> DEFINE s == <<t>>
    <2>1. UpsertTask(t) = s \o tasks
      BY <1>3 DEF UpsertTask
    <2>2. s \in Seq(TaskRows) /\ DOMAIN s = {1} /\ s[1] = t
      OBVIOUS
    <2> HIDE DEF s
    <2>3. Ids(s) = {t.id} /\ Distinct(s) /\ Ids(tasks) = Shown
      BY <2>2 DEF Ids, Distinct, Shown
    <2> QED BY <1>3, <2>1, <2>2, <2>3, DistinctConcatenated
  <1> QED BY <1>2, <1>3

LEMMA TasksPageFacts ==
  ASSUME tasks \in Seq(TaskRows), NEW page \in Seq(TaskRows), NEW initial
  PROVE  /\ TasksPage(page, initial) \in Seq(TaskRows)
         /\ initial => TasksPage(page, initial) = page
         /\ ~initial => Ids(TasksPage(page, initial)) = Shown \union Ids(page)
         /\ Distinct(tasks) /\ Distinct(page) => Distinct(TasksPage(page, initial))
  <1>1. CASE initial
    BY <1>1 DEF TasksPage
  <1>2. CASE ~initial
    <2> DEFINE T == {t \in ToSet(page) : t.id \notin Shown}
               f == Filter(page, T)
    <2>1. TasksPage(page, initial) = tasks \o f
      BY <1>2 DEF TasksPage
    <2>2. \A i \in DOMAIN page : page[i] \in T <=> page[i].id \notin Shown
      BY DEF ToSet
    <2>3. \A t \in T : t.id \notin Shown
      OBVIOUS
    <2> HIDE DEF T
    <2>4. /\ f \in Seq(TaskRows)
          /\ \A k \in DOMAIN f : f[k] \in T
          /\ \A i \in DOMAIN page : page[i] \in T => \E k \in DOMAIN f : f[k] = page[i]
          /\ \A k \in DOMAIN f : \E i \in DOMAIN page : f[k] = page[i]
          /\ \A j, k \in DOMAIN f : j < k =>
               \E x, y \in DOMAIN page : x < y /\ f[j] = page[x] /\ f[k] = page[y]
      BY FilterFacts
    <2> HIDE DEF f
    <2>5. Ids(tasks) = Shown
      BY DEF Ids, Shown
    <2>6. Shown \union Ids(f) = Shown \union Ids(page)
      <3>1. Ids(f) \subseteq Ids(page)
        BY <2>4 DEF Ids
      <3>2. ASSUME NEW i \in DOMAIN page PROVE page[i].id \in Shown \union Ids(f)
        BY <2>2, <2>4 DEF Ids
      <3>3. Ids(page) \subseteq Shown \union Ids(f)
        BY <3>2 DEF Ids
      <3> QED BY <3>1, <3>3
    <2>7. Ids(tasks) \intersect Ids(f) = {}
      BY <2>3, <2>4, <2>5 DEF Ids
    <2>8. Distinct(page) => Distinct(f)
      <3> SUFFICES ASSUME Distinct(page), NEW j \in DOMAIN f, NEW k \in DOMAIN f, j # k
                   PROVE  f[j].id # f[k].id
        BY DEF Distinct
      <3>1. DOMAIN f \subseteq Nat
        <4>1. DOMAIN f = 1..Len(f) /\ Len(f) \in Nat
          BY <2>4, LenProperties
        <4> QED BY <4>1
      <3>4. DOMAIN page \subseteq Nat
        <4>1. DOMAIN page = 1..Len(page) /\ Len(page) \in Nat
          BY LenProperties
        <4> QED BY <4>1
      <3>2. j < k \/ k < j
        BY <3>1
      <3>3. \E x, y \in DOMAIN page : x # y /\ f[j] = page[x] /\ f[k] = page[y]
        BY <2>4, <3>1, <3>2, <3>4
      <3> QED BY <3>3 DEF Distinct
    <2> QED BY <1>2, <2>1, <2>4, <2>5, <2>6, <2>7, <2>8, DistinctConcatenated
  <1> QED BY <1>1, <1>2

LEMMA AppendMessageFacts ==
  ASSUME messages \in Seq(Nat), NEW m \in Nat
  PROVE  /\ AppendMessage(m) \in Seq(Nat)
         /\ ToSet(AppendMessage(m)) = ToSet(messages) \union {m}
         /\ m \in ToSet(messages) => AppendMessage(m) = messages
         /\ m \notin ToSet(messages) =>
              /\ DOMAIN AppendMessage(m) = DOMAIN messages \union {Len(messages) + 1}
              /\ AppendMessage(m)[Len(messages) + 1] = m
              /\ \A k \in DOMAIN messages : AppendMessage(m)[k] = messages[k]
         /\ DOMAIN messages = 1..Len(messages) /\ Len(messages) \in Nat
  <1>1. DOMAIN messages = 1..Len(messages) /\ Len(messages) \in Nat
    BY LenProperties
  <1>2. CASE m \in ToSet(messages)
    BY <1>1, <1>2 DEF AppendMessage
  <1>3. CASE m \notin ToSet(messages)
    <2> DEFINE s == AppendMessage(m)
    <2>1. /\ s \in Seq(Nat) /\ Len(s) = Len(messages) + 1
          /\ \A k \in 1..Len(messages) : s[k] = messages[k]
          /\ s[Len(messages) + 1] = m
      BY <1>3, AppendProperties DEF AppendMessage
    <2> HIDE DEF s
    <2>2. DOMAIN s = DOMAIN messages \union {Len(messages) + 1}
      BY <1>1, <2>1, LenProperties
    <2>3. ToSet(s) = ToSet(messages) \union {m}
      BY <1>1, <2>1, <2>2 DEF ToSet
    <2> QED BY <1>1, <1>3, <2>1, <2>2, <2>3 DEF s
  <1> QED BY <1>2, <1>3

(* The messages a page adds. *)
Fresh(page) == Filter(Reverse(page), ToSet(page) \ ToSet(messages))

LEMMA FreshFacts ==
  ASSUME NEW page \in Seq(Nat)
  PROVE  /\ Fresh(page) \in Seq(Nat)
         /\ ToSet(Fresh(page)) = ToSet(page) \ ToSet(messages)
         /\ Descending(page) => Ascending(Fresh(page))
  <1> DEFINE r == Reverse(page)
             T == ToSet(page) \ ToSet(messages)
             f == Filter(r, T)
             n == Len(page)
  <1>1. n \in Nat /\ DOMAIN page = 1..n /\ \A k \in 1..n : page[k] \in Nat
    BY LenProperties
  <1>2. \A k \in 1..n : n - k + 1 \in 1..n /\ n - (n - k + 1) + 1 = k
    BY <1>1
  <1>3. r \in [1..n -> Nat] /\ \A k \in 1..n : r[k] = page[n - k + 1]
    BY <1>1, <1>2 DEF Reverse
  <1>4. r \in Seq(Nat) /\ DOMAIN r = 1..n
    BY <1>1, <1>3, SeqDef
  <1> HIDE DEF r, n, T
  <1>5. /\ f \in Seq(Nat)
        /\ \A k \in DOMAIN f : f[k] \in T
        /\ \A i \in DOMAIN r : r[i] \in T => \E k \in DOMAIN f : f[k] = r[i]
        /\ \A k \in DOMAIN f : \E i \in DOMAIN r : f[k] = r[i]
        /\ \A j, k \in DOMAIN f : j < k => \E x, y \in DOMAIN r : x < y /\ f[j] = r[x] /\ f[k] = r[y]
    <2> DEFINE S == Nat
    <2>1. r \in Seq(S)
      BY <1>4
    <2> HIDE DEF S
    <2>2. /\ f \in Seq(S)
          /\ \A k \in DOMAIN f : f[k] \in T
          /\ \A i \in DOMAIN r : r[i] \in T => \E k \in DOMAIN f : f[k] = r[i]
          /\ \A k \in DOMAIN f : \E i \in DOMAIN r : f[k] = r[i]
          /\ \A j, k \in DOMAIN f : j < k => \E x, y \in DOMAIN r : x < y /\ f[j] = r[x] /\ f[k] = r[y]
      BY <2>1, FilterFacts
    <2> QED BY <2>2 DEF S
  <1> HIDE DEF f
  <1>6. ToSet(f) = T
    <2>1. ToSet(f) \subseteq T
      BY <1>5 DEF ToSet
    <2>2. ASSUME NEW x \in T PROVE x \in ToSet(f)
      <3>1. PICK k \in 1..n : page[k] = x
        BY <1>1 DEF T, ToSet
      <3>2. n - k + 1 \in DOMAIN r /\ r[n - k + 1] = x
        BY <1>2, <1>3, <1>4, <3>1
      <3> QED BY <1>5, <2>2, <3>2 DEF ToSet
    <2> QED BY <2>1, <2>2
  <1>7. Descending(page) => Ascending(f)
    <2> SUFFICES ASSUME Descending(page), NEW j \in DOMAIN f, NEW k \in DOMAIN f, j < k
                 PROVE  f[j] < f[k]
      BY DEF Ascending
    <2>1. PICK x \in 1..n, y \in 1..n : x < y /\ f[j] = r[x] /\ f[k] = r[y]
      BY <1>4, <1>5
    <2>2. /\ n - x + 1 \in 1..n /\ n - y + 1 \in 1..n /\ n - y + 1 < n - x + 1
      BY <1>1, <2>1
    <2>3. page[n - y + 1] > page[n - x + 1]
      BY <1>1, <2>2 DEF Descending
    <2> QED BY <1>1, <1>3, <2>1, <2>2, <2>3
  <1>8. Fresh(page) = f
    BY DEF Fresh, f, r, T
  <1> QED BY <1>5, <1>6, <1>7, <1>8 DEF T

LEMMA PushEventFacts ==
  ASSUME feed \in Seq(Nat), NEW i \in Nat
  PROVE  /\ PushEvent(i) \in Seq(Nat) /\ Len(PushEvent(i)) <= MaxFeed
         /\ \A k \in DOMAIN PushEvent(i) :
              \/ k = 1 /\ PushEvent(i)[k] = i
              \/ k - 1 \in DOMAIN feed /\ PushEvent(i)[k] = feed[k - 1]
  <1> DEFINE head   == <<i>>
             longer == head \o feed
             n      == IF Len(longer) < MaxFeed THEN Len(longer) ELSE MaxFeed
             s      == SubSeq(longer, 1, n)
  <1>1. PushEvent(i) = s
    BY DEF PushEvent
  <1>2. head \in Seq(Nat) /\ Len(head) = 1 /\ DOMAIN head = {1} /\ head[1] = i
    OBVIOUS
  <1> HIDE DEF head
  <1>3. /\ longer \in Seq(Nat) /\ DOMAIN longer = 1..(1 + Len(feed)) /\ Len(feed) \in Nat
        /\ \A k \in DOMAIN longer : \/ k = 1 /\ longer[k] = i
                                    \/ k - 1 \in DOMAIN feed /\ longer[k] = feed[k - 1]
    <2> DEFINE S == Nat
    <2>1. head \in Seq(S) /\ feed \in Seq(S)
      BY <1>2
    <2> HIDE DEF S
    <2>2. /\ longer \in Seq(S) /\ DOMAIN longer = 1..(Len(head) + Len(feed)) /\ Len(feed) \in Nat
          /\ \A k \in DOMAIN longer :
               \/ k \in DOMAIN head /\ longer[k] = head[k]
               \/ /\ k > Len(head) /\ k - Len(head) \in DOMAIN feed
                  /\ longer[k] = feed[k - Len(head)]
      BY <2>1, Concatenated
    <2> HIDE DEF longer
    <2> QED BY <1>2, <2>2 DEF S
  <1> HIDE DEF longer
  <1>4. Len(longer) \in Nat /\ DOMAIN longer = 1..Len(longer) /\ \A k \in DOMAIN longer : longer[k] \in Nat
    BY <1>3, LenProperties
  <1>5. n \in Nat /\ n <= Len(longer) /\ n <= MaxFeed
    BY <1>4, DashboardAssumption
  <1> HIDE DEF n
  <1>6. /\ s \in Seq(Nat) /\ Len(s) = (IF 1 <= n THEN n - 1 + 1 ELSE 0)
        /\ \A k \in 1..(n - 1 + 1) : s[k] = longer[1 + k - 1]
    <2>1. 1 \in Int /\ n \in Int /\ \A k \in 1..n : longer[k] \in Nat
      BY <1>4, <1>5
    <2> QED BY <2>1, SubSeqProperties
  <1> HIDE DEF s
  <1>7. Len(s) = n /\ DOMAIN s = 1..n /\ \A k \in 1..n : s[k] = longer[k]
    <2>1. Len(s) = n /\ \A k \in 1..n : s[k] = longer[k]
      BY <1>5, <1>6
    <2> QED BY <1>6, <2>1, LenProperties
  <1> QED BY <1>1, <1>3, <1>4, <1>5, <1>6, <1>7

-----------------------------------------------------------------------------
(* What the server answers a page request with *)
LEMMA PageIsARecord ==
  ASSUME NEW ids, NEW before
  PROVE  Page(ids, before) = [items |-> Page(ids, before).items, next |-> Page(ids, before).next]
  BY DEF Page

LEMMA PageTasksFacts ==
  ASSUME ServerTypeOK, NEW before \in Nat
  PROVE  \E items \in Seq(TaskRows), next \in 0..Len(rows) :
           /\ PageTasks(before) = [items |-> items, next |-> next]
           /\ Distinct(items) /\ Ids(items) \subseteq DOMAIN rows
           /\ \A r \in DOMAIN rows : r >= next /\ (before = 0 \/ r < before) => r \in Ids(items)
  <1>1. Len(rows) \in Nat /\ DOMAIN rows = 1..Len(rows) /\ \A r \in DOMAIN rows : rows[r].version \in Nat
    BY ServerFacts
  <1> DEFINE ids == DOMAIN rows
             older == Older(ids, before)
             s     == Page(ids, before).items
             next  == Page(ids, before).next
  <1>2. Page(ids, before) = [items |-> s, next |-> next]
    BY PageIsARecord
  <1>3. /\ s \in Seq(older) /\ next \in 0..Len(rows)
        /\ \A j, k \in DOMAIN s : j < k => s[j] > s[k]
        /\ \A i \in older : i >= next => \E k \in DOMAIN s : s[k] = i
    <2>1. IsPage(s, next, older, Len(rows))
      <3>1. PICK n \in Nat : n = Len(rows)
        BY <1>1
      <3>2. PICK R \in SUBSET (1..n) : R = ids
        BY <1>1, <3>1
      <3>3. IsPage(Page(R, before).items, Page(R, before).next, Older(R, before), n)
        BY PageFacts
      <3> QED BY <3>1, <3>2, <3>3
    <2> HIDE DEF s, next, older
    <2> QED BY <2>1 DEF IsPage
  <1>4. older \subseteq DOMAIN rows /\ \A r \in DOMAIN rows : before = 0 \/ r < before => r \in older
    BY DEF Older
  <1> HIDE DEF older, s, next
  <1> DEFINE items == [k \in DOMAIN s |-> TaskRow(s[k])]
  <1>5. PageTasks(before) = [items |-> items, next |-> next]
    BY <1>2 DEF PageTasks
  <1>6. Len(s) \in Nat /\ DOMAIN s = 1..Len(s) /\ \A k \in DOMAIN s : s[k] \in DOMAIN rows /\ s[k] \in Nat
    <2>1. Len(s) \in Nat /\ DOMAIN s = 1..Len(s) /\ \A k \in DOMAIN s : s[k] \in older
      BY <1>3, LenProperties
    <2> QED BY <1>1, <1>4, <2>1
  <1>7. items \in Seq(TaskRows)
    <2>1. \A k \in DOMAIN s : TaskRow(s[k]) \in TaskRows
      BY <1>1, <1>6 DEF TaskRow, TaskRows
    <2>2. items \in [1..Len(s) -> TaskRows]
      BY <1>6, <2>1
    <2> QED BY <1>6, <2>2, SeqDef
  <1>8. DOMAIN items = DOMAIN s /\ \A k \in DOMAIN s : items[k].id = s[k]
    BY DEF TaskRow
  <1> HIDE DEF items
  <1>9. Distinct(items)
    <2> SUFFICES ASSUME NEW j \in DOMAIN s, NEW k \in DOMAIN s, j # k PROVE s[j] # s[k]
      BY <1>8 DEF Distinct
    <2>1. j < k \/ k < j
      BY <1>6
    <2> QED BY <1>3, <1>6, <2>1
  <1>10. Ids(items) \subseteq DOMAIN rows
    BY <1>6, <1>8 DEF Ids
  <1>11. \A r \in DOMAIN rows : r >= next /\ (before = 0 \/ r < before) => r \in Ids(items)
    BY <1>3, <1>4, <1>8 DEF Ids
  <1> QED BY <1>3, <1>5, <1>7, <1>9, <1>10, <1>11

LEMMA PageMessagesFacts ==
  ASSUME ServerTypeOK, NEW before \in Nat
  PROVE  \E items \in Seq(Nat), next \in 0..Len(log) :
           /\ PageMessages(before) = [items |-> items, next |-> next]
           /\ Descending(items) /\ ToSet(items) \subseteq Conversation
           /\ \A i \in ToSet(items) : i >= next /\ (before = 0 \/ i < before)
           /\ next = 0 \/ next \in ToSet(items)
           /\ \A i \in Conversation :
                /\ before = 0
                /\ Cardinality(Newer(Conversation, i)) < PageSize
                => i \in ToSet(items)
  <1>1. Len(log) \in Nat /\ DOMAIN log = 1..Len(log)
    BY ServerFacts
  <1> DEFINE older == Older(Conversation, before)
             s     == Page(Conversation, before).items
             next  == Page(Conversation, before).next
  <1>2. Page(Conversation, before) = [items |-> s, next |-> next]
    BY PageIsARecord
  <1>3. PageMessages(before) = [items |-> s, next |-> next]
    BY <1>2 DEF PageMessages, Conversation
  <1>4. Conversation \in SUBSET (1..Len(log))
    BY <1>1 DEF Conversation
  <1>5. /\ s \in Seq(older) /\ next \in 0..Len(log)
        /\ next = 0 \/ \E k \in DOMAIN s : s[k] = next
        /\ \A j, k \in DOMAIN s : j < k => s[j] > s[k]
        /\ \A k \in DOMAIN s : s[k] >= next
        /\ \A i \in older : Cardinality(Newer(older, i)) < PageSize
                              => \E k \in DOMAIN s : s[k] = i
    <2>1. IsPage(s, next, older, Len(log))
      <3>1. PICK n \in Nat : n = Len(log)
        BY <1>1
      <3>2. PICK ids \in SUBSET (1..n) : ids = Conversation
        BY <1>4, <3>1
      <3>3. IsPage(Page(ids, before).items, Page(ids, before).next, Older(ids, before), n)
        BY PageFacts
      <3> QED BY <3>1, <3>2, <3>3
    <2> HIDE DEF s, next, older
    <2> QED BY <2>1 DEF IsPage
  <1>6. older \subseteq Conversation /\ \A i \in older : before = 0 \/ i < before
    BY DEF Older
  <1>7. before = 0 => older = Conversation
    BY DEF Older
  <1> HIDE DEF older, s, next
  <1>8. \A k \in DOMAIN s : s[k] \in older
    BY <1>5, LenProperties
  <1>9. s \in Seq(Nat)
    <2>1. older \subseteq Nat
      BY <1>4, <1>6
    <2> QED BY <1>5, <2>1, SeqMonotonic
  <1>10. \A i \in ToSet(s) : i \in older /\ i >= next
    BY <1>5, <1>8 DEF ToSet
  <1>11. \A i \in Conversation :
           before = 0 /\ Cardinality(Newer(Conversation, i)) < PageSize => i \in ToSet(s)
    BY <1>5, <1>7 DEF ToSet
  <1>12. Descending(s) /\ ToSet(s) \subseteq Conversation /\ (next = 0 \/ next \in ToSet(s))
    BY <1>5, <1>6, <1>10 DEF Descending, ToSet
  <1> QED BY <1>3, <1>5, <1>6, <1>9, <1>10, <1>11, <1>12

-----------------------------------------------------------------------------
(* The tab's steps keep the types. *)
LEMMA ServerIsStill ==
  ASSUME TypeInv, UNCHANGED server
  PROVE  /\ ServerTypeOK' /\ FramesAreTyped' /\ Grows
         /\ UNCHANGED <<link, drops, failures, refused>> => LinkIsTyped'
  <1>1. UNCHANGED <<clock, rows, log, acked, watermark, timer, joined, down, told, marks>>
    BY DEF server
  <1>2. ServerTypeOK'
    BY <1>1 DEF TypeInv, ServerTypeOK
  <1>3. FramesAreTyped'
    BY <1>1 DEF TypeInv, FramesAreTyped, FrameOK, Conversation, IsPrincipalMessage
  <1>4. Grows
    BY <1>1, ServerFacts DEF TypeInv, Grows
  <1>5. UNCHANGED <<link, drops, failures, refused>> => LinkIsTyped'
    BY <1>1 DEF TypeInv, LinkIsTyped
  <1> QED BY <1>2, <1>3, <1>4, <1>5

(* What a load that is asked for looks like. *)
LEMMA RequestFacts ==
  ASSUME NEW load, NEW cursor
  PROVE  /\ \/ Request(load, TRUE, cursor) = load
            \/ /\ load = NoLoad
               /\ Request(load, TRUE, cursor) = [step |-> "sent", initial |-> TRUE, before |-> 0]
         /\ \/ Request(load, FALSE, cursor) = load
            \/ /\ load = NoLoad /\ cursor # 0
               /\ Request(load, FALSE, cursor) = [step |-> "sent", initial |-> FALSE, before |-> cursor]
  BY DEF Request

LEMMA RequestTypes ==
  ASSUME NEW before \in Nat, NEW initial \in BOOLEAN
  PROVE  LET load == [step |-> "sent", initial |-> initial, before |-> before]
         IN  load \in TaskLoads /\ load \in MessageLoads /\ load.step = "sent" /\ load # NoLoad
  BY DEF TaskLoads, MessageLoads, NoLoad

LEMMA OnOpenTypes == ASSUME TypeInv, OnOpen PROVE TypeInv'
  <1>1. /\ joined /\ link' = "open"
        /\ taskLoad' = Request(taskLoad, TRUE, taskCursor)
        /\ messageLoad' = Request(messageLoad, TRUE, messageCursor)
        /\ UNCHANGED <<server, up, typed, org, tasks, taskCursor, messages, messageCursor, feed,
                       loaded, drops, failures, refused>>
    BY DEF OnOpen
  <1>2. ServerTypeOK' /\ FramesAreTyped' /\ Grows
    BY <1>1, ServerIsStill
  <1> DEFINE load == [step |-> "sent", initial |-> TRUE, before |-> 0]
  <1>3. load \in TaskLoads /\ load \in MessageLoads /\ load.step = "sent"
    BY RequestTypes
  <1> HIDE DEF load
  <1>4. taskLoad' = taskLoad \/ taskLoad' = load
    BY <1>1, RequestFacts DEF load
  <1>5. messageLoad' = messageLoad \/ messageLoad' = load
    BY <1>1, RequestFacts DEF load
  <1>6. TaskLoadIsTyped'
    BY <1>2, <1>3, <1>4, TypesStay DEF TaskLoadIsTyped
  <1>7. MessageLoadIsTyped'
    BY <1>2, <1>3, <1>5, TypesStay DEF MessageLoadIsTyped
  <1>8. LinkIsTyped'
    BY <1>1 DEF TypeInv, LinkIsTyped, server
  <1>9. OrgIsTyped' /\ TasksAreTyped' /\ MessagesAreTyped'
    BY <1>1, <1>2, TypesStay
  <1>10. FeedIsTyped' /\ SentIsTyped'
    BY <1>1 DEF TypeInv, FeedIsTyped, SentIsTyped
  <1> QED BY <1>2, <1>6, <1>7, <1>8, <1>9, <1>10 DEF TypeInv

LEMMA LoadMoreTypes == ASSUME TypeInv, LoadMoreTasks \/ LoadMoreMessages PROVE TypeInv'
  <1>1. UNCHANGED <<server, link, up, typed, org, tasks, taskCursor, messages, messageCursor,
                    feed, drops, failures, refused, loaded>>
    BY DEF LoadMoreTasks, LoadMoreMessages
  <1>2. ServerTypeOK' /\ FramesAreTyped' /\ Grows /\ LinkIsTyped'
    BY <1>1, ServerIsStill
  <1>3. OrgIsTyped' /\ TasksAreTyped' /\ MessagesAreTyped'
    BY <1>1, <1>2, TypesStay
  <1>4. FeedIsTyped' /\ SentIsTyped'
    BY <1>1 DEF TypeInv, FeedIsTyped, SentIsTyped
  <1>5. taskCursor \in Nat /\ messageCursor \in Nat
    BY ServerFacts DEF TypeInv, TasksAreTyped, MessagesAreTyped
  <1>6. CASE LoadMoreTasks
    <2> DEFINE load == [step |-> "sent", initial |-> FALSE, before |-> taskCursor]
    <2>1. load \in TaskLoads /\ load.step = "sent"
      BY <1>5, RequestTypes
    <2> HIDE DEF load
    <2>2. UNCHANGED messageLoad /\ (taskLoad' = taskLoad \/ taskLoad' = load)
      BY <1>6, RequestFacts DEF LoadMoreTasks, load
    <2>3. TaskLoadIsTyped' /\ MessageLoadIsTyped'
      BY <1>2, <2>1, <2>2, TypesStay DEF TaskLoadIsTyped
    <2> QED BY <1>2, <1>3, <1>4, <2>3 DEF TypeInv
  <1>7. CASE LoadMoreMessages
    <2> DEFINE load == [step |-> "sent", initial |-> FALSE, before |-> messageCursor]
    <2>1. load \in MessageLoads /\ load.step = "sent"
      BY <1>5, RequestTypes
    <2> HIDE DEF load
    <2>2. UNCHANGED taskLoad /\ (messageLoad' = messageLoad \/ messageLoad' = load)
      BY <1>7, RequestFacts DEF LoadMoreMessages, load
    <2>3. TaskLoadIsTyped' /\ MessageLoadIsTyped'
      BY <1>2, <2>1, <2>2, TypesStay DEF MessageLoadIsTyped
    <2> QED BY <1>2, <1>3, <1>4, <2>3 DEF TypeInv
  <1> QED BY <1>6, <1>7

LEMMA AnswerTasksTypes == ASSUME TypeInv, AnswerTasks PROVE TypeInv'
  <1>1. /\ taskLoad.step = "sent"
        /\ taskLoad' = [step |-> "answered", initial |-> taskLoad.initial,
                        page |-> PageTasks(taskLoad.before), newest |-> Len(rows)]
        /\ UNCHANGED <<server, link, up, typed, org, tasks, taskCursor, messages, messageCursor,
                       messageLoad, feed, drops, failures, refused, loaded>>
    BY DEF AnswerTasks
  <1>2. ServerTypeOK' /\ FramesAreTyped' /\ Grows /\ LinkIsTyped'
    BY <1>1, ServerIsStill
  <1>3. taskLoad.initial \in BOOLEAN /\ taskLoad.before \in Nat
    BY <1>1 DEF TypeInv, TaskLoadIsTyped, TaskLoads, NoLoad
  <1>4. PICK items \in Seq(TaskRows), next \in 0..Len(rows) :
          /\ PageTasks(taskLoad.before) = [items |-> items, next |-> next]
          /\ Ids(items) \subseteq DOMAIN rows
    BY <1>3, PageTasksFacts DEF TypeInv
  <1>5. Len(rows) \in Nat /\ rows' = rows
    BY <1>1, ServerFacts DEF TypeInv, server
  <1> DEFINE page == [items |-> items, next |-> next]
  <1>6. page \in [items : Seq(TaskRows), next : Nat] /\ page.next = next /\ page.items = items
    BY <1>4, <1>5
  <1>7. taskLoad' = [step |-> "answered", initial |-> taskLoad.initial,
                     page |-> page, newest |-> Len(rows)]
    BY <1>1, <1>4
  <1> HIDE DEF page
  <1>8. taskLoad' \in TaskLoads /\ taskLoad'.page = page /\ taskLoad'.newest = Len(rows)
    BY <1>3, <1>5, <1>6, <1>7 DEF TaskLoads
  <1>9. Listed(page) \subseteq DOMAIN rows
    BY <1>4, <1>6 DEF Listed, Ids
  <1>10. TaskLoadIsTyped'
    <2>1. /\ taskLoad'.page.next <= Len(rows)' /\ taskLoad'.newest <= Len(rows)'
          /\ Listed(taskLoad.page)' \subseteq DOMAIN rows'
      BY <1>4, <1>5, <1>6, <1>8, <1>9 DEF Listed
    <2> QED BY <1>8, <2>1 DEF TaskLoadIsTyped
  <1>11. MessageLoadIsTyped' /\ OrgIsTyped' /\ TasksAreTyped' /\ MessagesAreTyped'
    BY <1>1, <1>2, TypesStay
  <1>12. FeedIsTyped' /\ SentIsTyped'
    BY <1>1 DEF TypeInv, FeedIsTyped, SentIsTyped
  <1> QED BY <1>2, <1>10, <1>11, <1>12 DEF TypeInv

LEMMA AnswerMessagesTypes == ASSUME TypeInv, AnswerMessages PROVE TypeInv'
  <1>1. /\ messageLoad.step = "sent"
        /\ messageLoad' = [step |-> "answered", initial |-> messageLoad.initial,
                           page |-> PageMessages(messageLoad.before)]
        /\ UNCHANGED <<server, link, up, typed, org, tasks, taskCursor, taskLoad, messages,
                       messageCursor, feed, drops, failures, refused, loaded>>
    BY DEF AnswerMessages
  <1>2. ServerTypeOK' /\ FramesAreTyped' /\ Grows /\ LinkIsTyped'
    BY <1>1, ServerIsStill
  <1>3. messageLoad.initial \in BOOLEAN /\ messageLoad.before \in Nat
    BY <1>1 DEF TypeInv, MessageLoadIsTyped, MessageLoads, NoLoad
  <1>4. PICK items \in Seq(Nat), next \in 0..Len(log) :
          /\ PageMessages(messageLoad.before) = [items |-> items, next |-> next]
          /\ ToSet(items) \subseteq Conversation
    BY <1>3, PageMessagesFacts DEF TypeInv
  <1>5. Len(log) \in Nat /\ log' = log /\ Conversation' = Conversation
    BY <1>1, ServerFacts DEF TypeInv, server, Conversation, IsPrincipalMessage
  <1> DEFINE page == [items |-> items, next |-> next]
  <1>6. page \in [items : Seq(Nat), next : Nat] /\ page.next = next /\ page.items = items
    BY <1>4, <1>5
  <1>7. messageLoad' = [step |-> "answered", initial |-> messageLoad.initial, page |-> page]
    BY <1>1, <1>4
  <1> HIDE DEF page
  <1>8. messageLoad' \in MessageLoads /\ messageLoad'.page = page
    BY <1>3, <1>6, <1>7 DEF MessageLoads
  <1>9. MessageLoadIsTyped'
    BY <1>4, <1>5, <1>6, <1>8 DEF MessageLoadIsTyped
  <1>10. TaskLoadIsTyped' /\ OrgIsTyped' /\ TasksAreTyped' /\ MessagesAreTyped'
    BY <1>1, <1>2, TypesStay
  <1>11. FeedIsTyped' /\ SentIsTyped'
    BY <1>1 DEF TypeInv, FeedIsTyped, SentIsTyped
  <1> QED BY <1>2, <1>9, <1>10, <1>11 DEF TypeInv

LEMMA AnsweredTasks ==
  ASSUME TaskLoadIsTyped, taskLoad.step = "answered"
  PROVE  /\ taskLoad.initial \in BOOLEAN /\ taskLoad.newest \in Nat
         /\ taskLoad.page.items \in Seq(TaskRows) /\ taskLoad.page.next \in Nat
         /\ Listed(taskLoad.page) = Ids(taskLoad.page.items)
  BY DEF TaskLoadIsTyped, TaskLoads, NoLoad, Listed, Ids

LEMMA AnsweredMessages ==
  ASSUME MessageLoadIsTyped, messageLoad.step = "answered"
  PROVE  /\ messageLoad.initial \in BOOLEAN
         /\ messageLoad.page.items \in Seq(Nat) /\ messageLoad.page.next \in Nat
  BY DEF MessageLoadIsTyped, MessageLoads, NoLoad

LEMMA ShowTasksTypes == ASSUME TypeInv, ShowTasks PROVE TypeInv'
  <1> DEFINE page    == taskLoad.page.items
             initial == taskLoad.initial
  <1>1. /\ taskLoad.step = "answered"
        /\ taskCursor' = taskLoad.page.next
        /\ tasks' = TasksPage(page, initial)
        /\ loaded' = (IF initial THEN taskLoad.newest ELSE loaded)
        /\ taskLoad' = NoLoad
        /\ UNCHANGED <<server, link, up, typed, org, messages, messageCursor, messageLoad, feed,
                       drops, failures, refused>>
    BY DEF ShowTasks
  <1>2. ServerTypeOK' /\ FramesAreTyped' /\ Grows /\ LinkIsTyped'
    BY <1>1, ServerIsStill
  <1>3. /\ TaskLoadIsTyped /\ TasksAreTyped
        /\ page \in Seq(TaskRows) /\ initial \in BOOLEAN /\ taskLoad.newest \in Nat
        /\ taskLoad.page.next \in Nat /\ Listed(taskLoad.page) = Ids(page)
    BY <1>1, AnsweredTasks DEF TypeInv
  <1>4. rows' = rows /\ Len(rows) \in Nat
    BY <1>1, ServerFacts DEF TypeInv, server
  <1>5. /\ taskLoad.page.next <= Len(rows) /\ taskLoad.newest <= Len(rows)
        /\ Ids(page) \subseteq DOMAIN rows
    BY <1>1, <1>3 DEF TaskLoadIsTyped
  <1> HIDE DEF page, initial
  <1>6. /\ tasks' \in Seq(TaskRows)
        /\ initial => tasks' = page
        /\ ~initial => Ids(tasks') = Shown \union Ids(page)
    BY <1>1, <1>3, TasksPageFacts DEF TasksAreTyped
  <1>7. Shown' = Ids(tasks')
    BY DEF Shown, Ids
  <1>8. Shown' \subseteq DOMAIN rows
    BY <1>3, <1>5, <1>6, <1>7 DEF TasksAreTyped
  <1>9. taskCursor' \in 0..Len(rows)
    BY <1>1, <1>3, <1>4, <1>5
  <1>10. loaded' \in 0..Len(rows)
    <2>1. CASE initial
      BY <1>1, <1>3, <1>4, <1>5, <2>1
    <2>2. CASE ~initial
      BY <1>1, <1>3, <2>2 DEF TasksAreTyped
    <2> QED BY <2>1, <2>2
  <1>11. TasksAreTyped'
    BY <1>4, <1>6, <1>8, <1>9, <1>10 DEF TasksAreTyped
  <1>12. TaskLoadIsTyped'
    BY <1>1 DEF TaskLoadIsTyped, TaskLoads, NoLoad
  <1>13. MessageLoadIsTyped' /\ OrgIsTyped' /\ MessagesAreTyped'
    BY <1>1, <1>2, TypesStay
  <1>14. FeedIsTyped' /\ SentIsTyped'
    BY <1>1 DEF TypeInv, FeedIsTyped, SentIsTyped
  <1> QED BY <1>2, <1>11, <1>12, <1>13, <1>14 DEF TypeInv

(* A page of messages is put before those shown, or in their place. *)
LEMMA MessagesPageFacts ==
  ASSUME messages \in Seq(Nat), NEW page \in Seq(Nat), NEW initial
  PROVE  /\ initial => MessagesPage(page, initial) = Fresh(page)
         /\ ~initial => MessagesPage(page, initial) = Fresh(page) \o messages
         /\ MessagesPage(page, initial) \in Seq(Nat)
         /\ ToSet(MessagesPage(page, initial)) \subseteq ToSet(page) \union ToSet(messages)
  <1>1. /\ initial => MessagesPage(page, initial) = Fresh(page)
        /\ ~initial => MessagesPage(page, initial) = Fresh(page) \o messages
    BY DEF MessagesPage, Fresh
  <1>2. Fresh(page) \in Seq(Nat) /\ ToSet(Fresh(page)) = ToSet(page) \ ToSet(messages)
    BY FreshFacts
  <1>3. /\ Fresh(page) \o messages \in Seq(Nat)
        /\ ToSet(Fresh(page) \o messages) \subseteq ToSet(page) \union ToSet(messages)
    <2> DEFINE S == Nat
               f == Fresh(page)
               c == f \o messages
    <2>1. f \in Seq(S) /\ messages \in Seq(S) /\ ToSet(f) = ToSet(page) \ ToSet(messages)
      BY <1>2
    <2> HIDE DEF S, f
    <2>2. /\ c \in Seq(S)
          /\ \A i \in DOMAIN c :
               \/ i \in DOMAIN f /\ c[i] = f[i]
               \/ /\ i > Len(f) /\ i - Len(f) \in DOMAIN messages
                  /\ c[i] = messages[i - Len(f)]
      BY <2>1, Concatenated
    <2> HIDE DEF c
    <2>3. \A i \in DOMAIN c : c[i] \in ToSet(f) \/ c[i] \in ToSet(messages)
      BY <2>2 DEF ToSet
    <2>4. ToSet(c) \subseteq ToSet(f) \union ToSet(messages)
      BY <2>3 DEF ToSet
    <2> QED BY <2>1, <2>2, <2>4 DEF S, c, f
  <1> QED BY <1>1, <1>2, <1>3

LEMMA ShowMessagesTypes == ASSUME TypeInv, ShowMessages PROVE TypeInv'
  <1> DEFINE page    == messageLoad.page.items
             initial == messageLoad.initial
  <1>1. /\ messageLoad.step = "answered"
        /\ messageCursor' = messageLoad.page.next
        /\ messages' = MessagesPage(page, initial)
        /\ messageLoad' = NoLoad
        /\ UNCHANGED <<server, link, up, typed, org, tasks, taskCursor, taskLoad, feed, drops,
                       failures, refused, loaded>>
    BY DEF ShowMessages
  <1>2. ServerTypeOK' /\ FramesAreTyped' /\ Grows /\ LinkIsTyped'
    BY <1>1, ServerIsStill
  <1>3. /\ MessageLoadIsTyped /\ MessagesAreTyped
        /\ page \in Seq(Nat) /\ messageLoad.page.next \in Nat
    BY <1>1, AnsweredMessages DEF TypeInv
  <1>4. log' = log /\ Len(log) \in Nat /\ Conversation' = Conversation
    BY <1>1, ServerFacts DEF TypeInv, server, Conversation, IsPrincipalMessage
  <1>5. messageLoad.page.next <= Len(log) /\ ToSet(page) \subseteq Conversation
    BY <1>1, <1>3 DEF MessageLoadIsTyped
  <1> HIDE DEF page, initial
  <1>6. messages' \in Seq(Nat) /\ ToSet(messages') \subseteq Conversation
    BY <1>1, <1>3, <1>5, MessagesPageFacts DEF MessagesAreTyped
  <1>7. messageCursor' \in 0..Len(log)
    BY <1>1, <1>3, <1>4, <1>5
  <1>8. MessagesAreTyped'
    BY <1>4, <1>6, <1>7 DEF MessagesAreTyped
  <1>9. MessageLoadIsTyped'
    BY <1>1 DEF MessageLoadIsTyped, MessageLoads, NoLoad
  <1>10. TaskLoadIsTyped' /\ OrgIsTyped' /\ TasksAreTyped'
    BY <1>1, <1>2, TypesStay
  <1>11. FeedIsTyped' /\ SentIsTyped'
    BY <1>1 DEF TypeInv, FeedIsTyped, SentIsTyped
  <1> QED BY <1>2, <1>8, <1>9, <1>10, <1>11 DEF TypeInv

LEMMA LoadFailsTypes == ASSUME TypeInv, LoadFails PROVE TypeInv'
  <1>1. /\ failures < MaxFailures /\ failures' = failures + 1
        /\ taskLoad' \in {taskLoad, NoLoad} /\ messageLoad' \in {messageLoad, NoLoad}
        /\ UNCHANGED <<server, link, up, typed, org, tasks, taskCursor, messages, messageCursor,
                       feed, drops, refused, loaded>>
    BY DEF LoadFails
  <1>2. ServerTypeOK' /\ FramesAreTyped' /\ Grows
    BY <1>1, ServerIsStill
  <1>3. LinkIsTyped'
    BY <1>1, DashboardAssumption DEF TypeInv, LinkIsTyped, server
  <1>4. TaskLoadIsTyped'
    BY <1>1, <1>2, TypesStay DEF TaskLoadIsTyped, TaskLoads, NoLoad
  <1>5. MessageLoadIsTyped'
    BY <1>1, <1>2, TypesStay DEF MessageLoadIsTyped, MessageLoads, NoLoad
  <1>6. OrgIsTyped' /\ TasksAreTyped' /\ MessagesAreTyped'
    BY <1>1, <1>2, TypesStay
  <1>7. FeedIsTyped' /\ SentIsTyped'
    BY <1>1 DEF TypeInv, FeedIsTyped, SentIsTyped
  <1> QED BY <1>2, <1>3, <1>4, <1>5, <1>6, <1>7 DEF TypeInv

LEMMA SubmitTypes == ASSUME TypeInv, Submit PROVE TypeInv'
  <1>1. /\ typed < MaxTyped /\ typed' = typed + 1 /\ up' = Append(up, typed + 1)
        /\ UNCHANGED <<server, link, view, drops, failures, refused>>
    BY DEF Submit
  <1>2. UNCHANGED <<org, tasks, taskCursor, taskLoad, messages, messageCursor, messageLoad, loaded, feed>>
    BY <1>1 DEF view, lists
  <1>3. ServerTypeOK' /\ FramesAreTyped' /\ Grows /\ LinkIsTyped'
    BY <1>1, ServerIsStill
  <1>4. TaskLoadIsTyped' /\ MessageLoadIsTyped' /\ OrgIsTyped' /\ TasksAreTyped' /\ MessagesAreTyped'
    BY <1>2, <1>3, TypesStay
  <1>5. FeedIsTyped'
    BY <1>2 DEF TypeInv, FeedIsTyped
  <1>6. /\ typed + 1 \in 1..MaxTyped /\ typed + 1 \in 0..MaxTyped
        /\ up \in Seq(1..MaxTyped) /\ refused \subseteq 1..MaxTyped
    BY <1>1, DashboardAssumption DEF TypeInv, SentIsTyped
  <1>7. up' \in Seq(1..MaxTyped)
    BY <1>1, <1>6, AppendProperties
  <1>8. SentIsTyped'
    BY <1>1, <1>6, <1>7 DEF SentIsTyped
  <1> QED BY <1>3, <1>4, <1>5, <1>8 DEF TypeInv

(* The message that arrives is one the principal typed. *)
LEMMA UplinkMoves ==
  ASSUME TypeInv, up # <<>>, up' = Tail(up)
  PROVE  /\ Head(up) \in 1..MaxTyped /\ Head(up) = up[1]
         /\ up' \in Seq(1..MaxTyped) /\ Len(up') = Len(up) - 1
         /\ Len(up) \in Nat \ {0} /\ DOMAIN up = 1..Len(up) /\ DOMAIN up' = 1..(Len(up) - 1)
         /\ \A k \in DOMAIN up' : up'[k] = up[k + 1]
  <1> DEFINE S == 1..MaxTyped
  <1>2. up \in Seq(S)
    BY DEF TypeInv, SentIsTyped
  <1> HIDE DEF S
  <1>3. /\ up' \in Seq(S) /\ Len(up') = Len(up) - 1 /\ Head(up) \in S
        /\ \A k \in 1..Len(up') : up'[k] = up[k + 1]
    BY <1>2, HeadTailProperties
  <1>4. Len(up) \in Nat \ {0}
    BY <1>2, EmptySeq
  <1>5. DOMAIN up = 1..Len(up) /\ DOMAIN up' = 1..Len(up') /\ Head(up) = up[1]
    BY <1>2, <1>3, LenProperties
  <1> QED BY <1>3, <1>4, <1>5 DEF S

LEMMA PrincipalMessageFacts ==
  ASSUME TypeInv, OnPrincipalMessage
  PROVE  /\ \E e \in 1..MaxTyped : /\ Publish(e) /\ e = up[1]
         /\ Cardinality(Coming("message"))' <= PageSize
         /\ up # <<>> /\ up' = Tail(up) /\ up' \in Seq(1..MaxTyped)
         /\ UNCHANGED <<link, typed, view, drops, failures, refused>>
  <1>1. /\ up # <<>> /\ Publish(Head(up)) /\ up' = Tail(up)
        /\ Cardinality(Coming("message"))' <= PageSize
        /\ UNCHANGED <<link, typed, view, drops, failures, refused>>
    BY DEF OnPrincipalMessage
  <1>2. Head(up) \in 1..MaxTyped /\ Head(up) = up[1] /\ up' \in Seq(1..MaxTyped)
    BY <1>1, UplinkMoves
  <1> QED BY <1>1, <1>2

LEMMA PrincipalMessageLost ==
  ASSUME TypeInv, PrincipalMessageFails
  PROVE  \E e \in 1..MaxTyped :
           /\ e = up[1] /\ refused' = refused \union {e}
           /\ up # <<>> /\ up' = Tail(up) /\ up' \in Seq(1..MaxTyped)
           /\ failures' \in 0..MaxFailures
           /\ UNCHANGED <<server, link, typed, view, drops>>
  <1>1. /\ up # <<>> /\ up' = Tail(up) /\ refused' = refused \union {Head(up)}
        /\ failures < MaxFailures /\ failures' = failures + 1
        /\ UNCHANGED <<server, link, typed, view, drops>>
    BY DEF PrincipalMessageFails
  <1>2. Head(up) \in 1..MaxTyped /\ Head(up) = up[1] /\ up' \in Seq(1..MaxTyped)
    BY <1>1, UplinkMoves
  <1>3. failures' \in 0..MaxFailures
    BY <1>1, DashboardAssumption DEF TypeInv, LinkIsTyped
  <1> QED BY <1>1, <1>2, <1>3

LEMMA TabIsStill ==
  ASSUME TypeInv, ServerTypeOK', FramesAreTyped', Grows, UNCHANGED view
  PROVE  LinkIsTyped' /\ SentIsTyped' => TypeInv'
  <1>1. UNCHANGED <<org, tasks, taskCursor, taskLoad, messages, messageCursor, messageLoad, loaded, feed>>
    BY DEF view, lists
  <1>2. TaskLoadIsTyped' /\ MessageLoadIsTyped' /\ OrgIsTyped' /\ TasksAreTyped' /\ MessagesAreTyped'
    BY <1>1, TypesStay
  <1>3. FeedIsTyped'
    BY <1>1 DEF TypeInv, FeedIsTyped
  <1> QED BY <1>2, <1>3 DEF TypeInv

LEMMA OtherTypes ==
  ASSUME TypeInv,
         Serve \/ Connect \/ OnClose \/ Reconnect \/ OnPrincipalMessage \/ PrincipalMessageFails
  PROVE  TypeInv'
  <1>1. Reply \in Int /\ UNCHANGED view
    BY DEF Reply, Serve, Connect, OnClose, Reconnect, OnPrincipalMessage, PrincipalMessageFails
  <1>2. CASE Serve
    <2>1. Alone(Reply) /\ UNCHANGED <<link, up, typed, drops, failures, refused>>
      BY <1>2 DEF Serve, Alone
    <2>2. ServerTypeOK' /\ FramesAreTyped' /\ Grows
      BY <1>1, <2>1, ServerStepTypes
    <2>3. joined' = joined
      BY <1>2 DEF Serve, Work, Tick, CreateTask, UpdateTask, Consume, PublishReply, PublishOther,
                  Publish, Flush
    <2>4. LinkIsTyped' /\ SentIsTyped'
      BY <2>1, <2>3 DEF TypeInv, LinkIsTyped, SentIsTyped
    <2> QED BY <1>1, <2>2, <2>4, TabIsStill
  <1>3. CASE Connect
    <2>1. Alone(Reply) /\ joined' = TRUE /\ UNCHANGED <<link, up, typed, drops, failures, refused>>
      BY <1>3 DEF Connect, Accept, Alone
    <2>2. ServerTypeOK' /\ FramesAreTyped' /\ Grows
      BY <1>1, <2>1, ServerStepTypes
    <2>3. LinkIsTyped' /\ SentIsTyped'
      BY <2>1 DEF TypeInv, LinkIsTyped, SentIsTyped
    <2> QED BY <1>1, <2>2, <2>3, TabIsStill
  <1>4. CASE OnClose
    <2>1. /\ Alone(Reply) /\ drops < MaxDrops /\ link' = "closed" /\ up' = <<>> /\ drops' = drops + 1
          /\ UNCHANGED <<typed, failures, refused>>
      BY <1>4 DEF OnClose, Alone
    <2>2. ServerTypeOK' /\ FramesAreTyped' /\ Grows
      BY <1>1, <2>1, ServerStepTypes
    <2>3. LinkIsTyped' /\ SentIsTyped'
      BY <2>1, DashboardAssumption DEF TypeInv, LinkIsTyped, SentIsTyped
    <2> QED BY <1>1, <2>2, <2>3, TabIsStill
  <1>5. CASE Reconnect
    <2>1. link' = "connecting" /\ UNCHANGED <<server, up, typed, drops, failures, refused>>
      BY <1>5 DEF Reconnect
    <2>2. ServerTypeOK' /\ FramesAreTyped' /\ Grows
      BY <2>1, ServerIsStill
    <2>3. LinkIsTyped' /\ SentIsTyped'
      BY <2>1 DEF TypeInv, LinkIsTyped, SentIsTyped
    <2> QED BY <1>1, <2>2, <2>3, TabIsStill
  <1>6. CASE OnPrincipalMessage
    <2>1. PICK e \in 1..MaxTyped : Publish(e)
      BY <1>6, PrincipalMessageFacts
    <2>2. up' \in Seq(1..MaxTyped) /\ UNCHANGED <<link, typed, drops, failures, refused>>
      BY <1>6, PrincipalMessageFacts
    <2>3. e \in Int /\ Alone(e) /\ joined' = joined
      BY <2>1, DashboardAssumption DEF Alone, Publish
    <2>4. ServerTypeOK' /\ FramesAreTyped' /\ Grows
      BY <2>3, ServerStepTypes
    <2>5. LinkIsTyped' /\ SentIsTyped'
      BY <2>2, <2>3 DEF TypeInv, LinkIsTyped, SentIsTyped
    <2> QED BY <1>1, <2>4, <2>5, TabIsStill
  <1>7. CASE PrincipalMessageFails
    <2>1. PICK e \in 1..MaxTyped : /\ refused' = refused \union {e} /\ up' \in Seq(1..MaxTyped)
                                  /\ failures' \in 0..MaxFailures
                                  /\ UNCHANGED <<server, link, typed, view, drops>>
      BY <1>7, PrincipalMessageLost
    <2>2. ServerTypeOK' /\ FramesAreTyped' /\ Grows
      BY <2>1, ServerIsStill
    <2>3. LinkIsTyped' /\ SentIsTyped'
      BY <2>1 DEF TypeInv, LinkIsTyped, SentIsTyped, server
    <2> QED BY <1>1, <2>2, <2>3, TabIsStill
  <1> QED BY <1>2, <1>3, <1>4, <1>5, <1>6, <1>7

(* The frames that follow the first. *)
LEMMA TailFacts ==
  ASSUME FramesAreTyped, down # <<>>, down' = Tail(down)
  PROVE  /\ Head(down) = down[1] /\ down[1] \in FrameSet /\ FrameOK(down[1])
         /\ down' \in Seq(FrameSet) /\ 1 \in DOMAIN down
         /\ \A k \in DOMAIN down' : k + 1 \in DOMAIN down /\ k >= 1 /\ down'[k] = down[k + 1]
         /\ \A k \in DOMAIN down : k \in Nat /\ (k = 1 \/ (k > 1 /\ k - 1 \in DOMAIN down' /\ down'[k - 1] = down[k]))
  <1>1. /\ down' \in Seq(FrameSet) /\ Len(down') = Len(down) - 1 /\ Head(down) \in FrameSet
        /\ \A k \in 1..Len(down') : down'[k] = down[k + 1]
    BY HeadTailProperties DEF FramesAreTyped
  <1>2. Len(down) \in Nat \ {0} /\ DOMAIN down = 1..Len(down) /\ DOMAIN down' = 1..Len(down')
    BY <1>1, EmptySeq, LenProperties DEF FramesAreTyped
  <1>3. 1 \in DOMAIN down /\ FrameOK(down[1])
    BY <1>2 DEF FramesAreTyped
  <1>4. Head(down) = down[1]
    BY DEF FramesAreTyped
  <1>5. ASSUME NEW k \in DOMAIN down' PROVE k + 1 \in DOMAIN down /\ k >= 1 /\ down'[k] = down[k + 1]
    BY <1>1, <1>2
  <1>6. ASSUME NEW k \in DOMAIN down
        PROVE  k \in Nat /\ (k = 1 \/ (k > 1 /\ k - 1 \in DOMAIN down' /\ down'[k - 1] = down[k]))
    <2>1. k \in Nat /\ (k = 1 \/ k > 1)
      BY <1>2
    <2>2. ASSUME k > 1 PROVE k - 1 \in DOMAIN down' /\ down'[k - 1] = down[k]
      <3>1. k - 1 \in 1..Len(down') /\ (k - 1) + 1 = k
        BY <1>1, <1>2, <2>1, <2>2
      <3> QED BY <1>1, <1>2, <3>1
    <2> QED BY <2>1, <2>2
  <1> QED BY <1>1, <1>3, <1>4, <1>5, <1>6

LEMMA OnMessageTypes == ASSUME TypeInv, OnMessage PROVE TypeInv'
  <1>1. /\ down # <<>> /\ down' = Tail(down)
        /\ UNCHANGED <<clock, rows, log, acked, watermark, timer, joined, told, marks, link, up, typed,
                       taskCursor, taskLoad, messageCursor, messageLoad, drops, failures, refused, loaded>>
        /\ link = "open"
    BY DEF OnMessage
  <1>2. PICK frame \in FrameSet : frame = Head(down) /\ FrameOK(frame)
    BY <1>1, TailFacts DEF TypeInv
  <1>3. \/ frame.kind = "org" /\ org' = frame.org /\ UNCHANGED <<tasks, messages, feed>>
        \/ frame.kind = "task" /\ tasks' = UpsertTask(frame.task) /\ UNCHANGED <<org, messages, feed>>
        \/ frame.kind = "message" /\ messages' = AppendMessage(frame.seq) /\ UNCHANGED <<org, tasks, feed>>
        \/ frame.kind = "event" /\ feed' = PushEvent(frame.seq) /\ UNCHANGED <<org, tasks, messages>>
    BY <1>2 DEF OnMessage
  <1>4. joined
    BY <1>1 DEF TypeInv, LinkIsTyped
  <1>5. ServerTypeOK'
    BY <1>1, <1>4 DEF TypeInv, ServerTypeOK
  <1>6. Grows
    BY <1>1, ServerFacts DEF TypeInv, Grows
  <1>7. /\ down' \in Seq(FrameSet)
        /\ \A k \in DOMAIN down' : k + 1 \in DOMAIN down /\ down'[k] = down[k + 1]
    BY <1>1, TailFacts DEF TypeInv
  <1>8. FramesAreTyped'
    <2>1. ASSUME NEW k \in DOMAIN down' PROVE FrameOK(down[k])'
      <3>1. FrameOK(down[k + 1]) /\ down'[k] = down[k + 1]
        BY <1>7 DEF TypeInv, FramesAreTyped
      <3> QED BY <1>1, <3>1 DEF FrameOK, Conversation, IsPrincipalMessage
    <2> QED BY <1>7, <2>1 DEF FramesAreTyped
  <1>9. TaskLoadIsTyped' /\ MessageLoadIsTyped'
    BY <1>1, <1>5, <1>6, TypesStay
  <1>10. LinkIsTyped' /\ SentIsTyped'
    BY <1>1 DEF TypeInv, LinkIsTyped, SentIsTyped
  <1>11. OrgIsTyped'
    <2>1. CASE frame.kind = "org" /\ org' = frame.org
      <3>1. frame.org.upTo \in Nat /\ frame.org.upTo <= Len(log)
        BY <1>2, <2>1 DEF FrameSet, OrgStates, FrameOK
      <3> QED BY <1>1, <2>1, <3>1, ServerFacts DEF OrgIsTyped, TypeInv
    <2>2. CASE UNCHANGED org
      BY <1>5, <1>6, <2>2, TypesStay
    <2> QED BY <1>3, <2>1, <2>2
  <1>12. TasksAreTyped'
    <2>1. CASE frame.kind = "task" /\ tasks' = UpsertTask(frame.task)
      <3>1. frame.task \in TaskRows /\ frame.task.id \in DOMAIN rows
        BY <1>2, <2>1 DEF FrameSet, FrameOK
      <3>2. tasks' \in Seq(TaskRows) /\ Ids(tasks') = Shown \union {frame.task.id}
        BY <2>1, <3>1, UpsertFacts DEF TypeInv, TasksAreTyped
      <3>3. Shown' = Ids(tasks')
        BY DEF Shown, Ids
      <3> QED BY <1>1, <3>1, <3>2, <3>3 DEF TypeInv, TasksAreTyped
    <2>2. CASE UNCHANGED tasks
      BY <1>1, <1>5, <1>6, <2>2, TypesStay
    <2> QED BY <1>3, <2>1, <2>2
  <1>13. MessagesAreTyped'
    <2>1. CASE frame.kind = "message" /\ messages' = AppendMessage(frame.seq)
      <3>1. frame.seq \in Nat /\ frame.seq \in Conversation /\ Conversation' = Conversation
        BY <1>1, <1>2, <2>1 DEF FrameSet, FrameOK, Conversation, IsPrincipalMessage
      <3>2. messages' \in Seq(Nat) /\ ToSet(messages') = ToSet(messages) \union {frame.seq}
        BY <2>1, <3>1, AppendMessageFacts DEF TypeInv, MessagesAreTyped
      <3> QED BY <1>1, <3>1, <3>2 DEF TypeInv, MessagesAreTyped
    <2>2. CASE UNCHANGED messages
      BY <1>1, <1>5, <1>6, <2>2, TypesStay
    <2> QED BY <1>3, <2>1, <2>2
  <1>14. FeedIsTyped'
    <2>1. CASE frame.kind = "event" /\ feed' = PushEvent(frame.seq)
      <3>1. frame.seq \in Nat
        BY <1>2, <2>1 DEF FrameSet
      <3> QED BY <2>1, <3>1, PushEventFacts DEF TypeInv, FeedIsTyped
    <2>2. CASE UNCHANGED feed
      BY <2>2 DEF TypeInv, FeedIsTyped
    <2> QED BY <1>3, <2>1, <2>2
  <1> QED BY <1>5, <1>8, <1>9, <1>10, <1>11, <1>12, <1>13, <1>14 DEF TypeInv

LEMMA StartsTyped == ASSUME Init PROVE TypeInv
  <1>1. /\ clock = 1 /\ rows \in Tables /\ log = <<>> /\ acked = 0
        /\ watermark = Newest(DOMAIN rows, 0) /\ timer = FALSE /\ joined = FALSE /\ down = <<>>
        /\ told = [r \in DOMAIN rows |-> rows[r].version]
        /\ link = "connecting" /\ up = <<>> /\ typed = 0 /\ refused = {} /\ org = NoOrg
        /\ tasks = <<>> /\ taskCursor = 0 /\ taskLoad = NoLoad
        /\ messages = <<>> /\ messageCursor = 0 /\ messageLoad = NoLoad
        /\ feed = <<>> /\ drops = 0 /\ failures = 0 /\ loaded = 0
    BY DEF Init, ObserverInit
  <1>2. PICK n \in 0..MaxTasks : rows \in [1..n -> [version : {1}, at : {0, 1}]]
    BY <1>1 DEF Tables
  <1>3. /\ n \in Nat /\ n <= MaxTasks /\ MaxVersion \in Nat \ {0} /\ MaxClock \in Nat \ {0}
        /\ MaxEvents \in Nat /\ MaxAcks \in Nat
    BY <1>2, ObserverAssumption
  <1>4. rows \in [1..n -> [version : 1..MaxVersion, at : 0..clock]]
    <2>1. [version : {1}, at : {0, 1}] \subseteq [version : 1..MaxVersion, at : 0..clock]
      BY <1>1, <1>3
    <2> QED BY <1>2, <2>1
  <1>5. rows \in Seq([version : 1..MaxVersion, at : 0..clock]) /\ Len(rows) = n /\ DOMAIN rows = 1..n
    <2> DEFINE R == [version : 1..MaxVersion, at : 0..clock]
    <2>1. rows \in [1..n -> R]
      BY <1>4
    <2> HIDE DEF R
    <2>2. rows \in Seq(R)
      BY <1>3, <2>1, SeqDef
    <2> QED BY <1>3, <2>1, <2>2, LenProperties DEF R
  <1>6. told \in [DOMAIN rows -> 0..MaxVersion]
    <2>1. \A r \in DOMAIN rows : rows[r].version \in 0..MaxVersion
      BY <1>2, <1>3, <1>5
    <2> QED BY <1>1, <2>1
  <1>7. watermark \in 0..clock
    BY StartsHolding DEF IInv, MarksAreTimed
  <1>8. ServerTypeOK
    <2>1. log \in Seq(Int) /\ Len(log) <= MaxEvents /\ clock \in 1..MaxClock /\ acked \in 0..MaxAcks
      BY <1>1, <1>3
    <2> QED BY <1>1, <1>3, <1>5, <1>6, <1>7, <2>1 DEF ServerTypeOK
  <1>9. FramesAreTyped
    BY <1>1 DEF FramesAreTyped
  <1>10. TaskLoadIsTyped /\ MessageLoadIsTyped
    BY <1>1 DEF TaskLoadIsTyped, MessageLoadIsTyped, TaskLoads, MessageLoads, NoLoad
  <1>11. OrgIsTyped /\ FeedIsTyped
    BY <1>1, DashboardAssumption DEF OrgIsTyped, NoOrg, FeedIsTyped
  <1>12. TasksAreTyped
    BY <1>1, <1>3, <1>5 DEF TasksAreTyped, Shown
  <1>13. MessagesAreTyped
    BY <1>1 DEF MessagesAreTyped, ToSet
  <1>14. LinkIsTyped /\ SentIsTyped
    BY <1>1, DashboardAssumption DEF LinkIsTyped, SentIsTyped
  <1> QED BY <1>8, <1>9, <1>10, <1>11, <1>12, <1>13, <1>14 DEF TypeInv

LEMMA NextTypes == ASSUME TypeInv, [Next]_vars PROVE TypeInv'
  <1>1. CASE UNCHANGED vars
    <2>1. UNCHANGED <<server, link, up, typed, view, drops, failures, refused>>
      BY <1>1 DEF vars
    <2>2. ServerTypeOK' /\ FramesAreTyped' /\ Grows /\ LinkIsTyped'
      BY <2>1, ServerIsStill
    <2>3. SentIsTyped'
      BY <2>1 DEF TypeInv, SentIsTyped
    <2> QED BY <2>1, <2>2, <2>3, TabIsStill
  <1> QED BY <1>1, OnOpenTypes, LoadMoreTypes, AnswerTasksTypes, AnswerMessagesTypes, ShowTasksTypes,
             ShowMessagesTypes, LoadFailsTypes, SubmitTypes, OtherTypes, OnMessageTypes DEF Next

THEOREM Typing == Spec => []TypeInv
  BY StartsTyped, NextTypes, PTL DEF Spec

(* Every variable of the observer and of the tab has its type, and frames reach
   only a connected tab, for any number of tasks, events, messages and failures. *)
THEOREM TypeCorrectness == Spec => []TypeOK
  <1>1. TypeInv => TypeOK
    <2> SUFFICES ASSUME TypeInv PROVE TypeOK
      OBVIOUS
    <2>1. Conversation \subseteq DOMAIN log
      BY DEF Conversation
    <2>2. ToSet(messages) \subseteq DOMAIN log
      BY <2>1 DEF TypeInv, MessagesAreTyped
    <2>3. LoadTypeOK(taskLoad)
      BY DEF TypeInv, TaskLoadIsTyped, TaskLoads, NoLoad, LoadTypeOK
    <2>4. LoadTypeOK(messageLoad)
      BY DEF TypeInv, MessageLoadIsTyped, MessageLoads, NoLoad, LoadTypeOK
    <2> QED BY <2>2, <2>3, <2>4
            DEF TypeInv, TypeOK, OrgIsTyped, TasksAreTyped, MessagesAreTyped, FeedIsTyped, LinkIsTyped,
                SentIsTyped
  <1> QED BY <1>1, Typing, PTL

-----------------------------------------------------------------------------
(* The task list *)

(* A load that continues the list asks for what precedes the cursor, and the
   cursor waits for the answer.  The page it is answered with lists a task once,
   and lists all that it should down to the next cursor: those of the moment it
   was read if it is the first, those before the cursor otherwise. *)
PagesFollow ==
  /\ taskLoad.step = "sent" =>
       /\ taskLoad.initial => taskLoad.before = 0
       /\ ~taskLoad.initial => taskLoad.before = taskCursor /\ taskCursor # 0
  /\ taskLoad.step = "answered" =>
       /\ Distinct(taskLoad.page.items)
       /\ \A r \in DOMAIN rows :
            /\ r >= taskLoad.page.next
            /\ taskLoad.initial => r <= taskLoad.newest
            /\ ~taskLoad.initial => r < taskCursor
            => r \in Listed(taskLoad.page)

TasksInv == NoTaskTwice /\ PagesSkipNothing /\ PagesFollow

(* No step takes a row or an event back. *)
LEMMA NextGrows == ASSUME TypeInv, Next PROVE Grows /\ ServerTypeOK'
  <1>1. ServerTypeOK'
    BY NextTypes DEF TypeInv
  <1>2. CASE UNCHANGED <<rows, log>>
    BY <1>1, <1>2, ServerFacts DEF TypeInv, Grows
  <1>3. CASE Serve
    <2>1. Reply \in Int /\ Alone(Reply)
      BY <1>3 DEF Serve, Alone, Reply
    <2> QED BY <1>1, <2>1, ServerStepTypes
  <1>4. CASE OnPrincipalMessage
    <2>1. PICK e \in 1..MaxTyped : Publish(e)
      BY <1>4, PrincipalMessageFacts
    <2>2. e \in Int /\ Alone(e)
      BY <2>1, DashboardAssumption DEF Alone
    <2> QED BY <2>2, ServerStepTypes
  <1>5. CASE Connect
    BY <1>1, <1>2, <1>5 DEF Connect, Accept
  <1>6. CASE OnMessage
    BY <1>1, <1>2, <1>6 DEF OnMessage
  <1>7. CASE OnClose
    BY <1>1, <1>2, <1>7 DEF OnClose, Forget
  <1>8. CASE \/ OnOpen \/ Reconnect \/ LoadMoreTasks \/ LoadMoreMessages \/ AnswerTasks
             \/ AnswerMessages \/ ShowTasks \/ ShowMessages \/ LoadFails \/ Submit
             \/ PrincipalMessageFails
    BY <1>1, <1>2, <1>8
    DEF OnOpen, Reconnect, LoadMoreTasks, LoadMoreMessages, AnswerTasks, AnswerMessages, ShowTasks,
        ShowMessages, LoadFails, Submit, PrincipalMessageFails, server
  <1> QED BY <1>1, <1>2, <1>3, <1>4, <1>5, <1>6, <1>7, <1>8 DEF Next

LEMMA TaskFacts ==
  ASSUME TypeInv
  PROVE  /\ Len(rows) \in Nat /\ DOMAIN rows = 1..Len(rows)
         /\ tasks \in Seq(TaskRows) /\ Shown = Ids(tasks) /\ (NoTaskTwice <=> Distinct(tasks))
         /\ taskCursor \in Nat /\ taskCursor <= Len(rows) /\ loaded \in Nat /\ loaded <= Len(rows)
         /\ taskLoad.step = "answered" => taskLoad.newest \in Nat /\ taskLoad.newest <= Len(rows)
  <1>1. Len(rows) \in Nat /\ DOMAIN rows = 1..Len(rows)
    BY ServerFacts DEF TypeInv
  <1>2. tasks \in Seq(TaskRows) /\ taskCursor \in 0..Len(rows) /\ loaded \in 0..Len(rows)
    BY DEF TypeInv, TasksAreTyped
  <1>3. taskLoad.step = "answered" => taskLoad.newest \in Nat /\ taskLoad.newest <= Len(rows)
    BY AnsweredTasks DEF TypeInv, TaskLoadIsTyped
  <1> QED BY <1>1, <1>2, <1>3 DEF Shown, Ids, NoTaskTwice, Distinct

(* New rows are beyond what a page, the list and the cursor are about. *)
LEMMA ListStays ==
  ASSUME TypeInv, TasksInv, Grows, ServerTypeOK'
  PROVE  /\ UNCHANGED <<tasks, taskCursor, loaded>> => NoTaskTwice' /\ PagesSkipNothing'
         /\ UNCHANGED <<taskLoad, taskCursor>> => PagesFollow'
  <1>1. /\ Len(rows) \in Nat /\ DOMAIN rows = 1..Len(rows)
        /\ taskCursor \in Nat /\ taskCursor <= Len(rows) /\ loaded \in Nat /\ loaded <= Len(rows)
        /\ taskLoad.step = "answered" => taskLoad.newest \in Nat /\ taskLoad.newest <= Len(rows)
    BY TaskFacts
  <1>2. DOMAIN rows' = 1..Len(rows)' /\ Len(rows)' \in Nat
    <2>1. rows' \in Seq([version : 1..MaxVersion, at : 0..clock'])
      BY DEF ServerTypeOK
    <2> QED BY <2>1, LenProperties
  <1>3. \A r \in DOMAIN rows' : r \in Nat /\ r >= 1 /\ (r <= Len(rows) => r \in DOMAIN rows)
    BY <1>1, <1>2
  <1>4. ASSUME UNCHANGED <<tasks, taskCursor, loaded>> PROVE NoTaskTwice' /\ PagesSkipNothing'
    <2>1. NoTaskTwice' /\ Shown' = Shown
      BY <1>4 DEF TasksInv, NoTaskTwice, Shown
    <2>2. ASSUME NEW r \in DOMAIN rows', r <= loaded, r >= taskCursor PROVE r \in Shown
      <3>1. r \in DOMAIN rows
        BY <1>1, <1>3, <2>2
      <3> QED BY <2>2, <3>1 DEF TasksInv, PagesSkipNothing
    <2> QED BY <1>4, <2>1, <2>2 DEF PagesSkipNothing
  <1>5. ASSUME UNCHANGED <<taskLoad, taskCursor>> PROVE PagesFollow'
    <2> DEFINE initial == taskLoad.initial
    <2>1. PagesFollow
      BY DEF TasksInv
    <2>2. taskLoad.step = "answered" => initial \in BOOLEAN
      BY AnsweredTasks DEF TypeInv
    <2>3. ASSUME taskLoad.step = "answered", NEW r \in DOMAIN rows', r >= taskLoad.page.next,
                 initial => r <= taskLoad.newest, ~initial => r < taskCursor
          PROVE  r \in Listed(taskLoad.page)
      <3> HIDE DEF initial
      <3>1. r \in DOMAIN rows
        BY <1>1, <1>3, <2>2, <2>3
      <3> QED BY <2>1, <2>3, <3>1 DEF PagesFollow, initial
    <2> QED BY <1>5, <2>1, <2>3 DEF PagesFollow, Distinct, Listed
  <1> QED BY <1>4, <1>5

LEMMA OnMessageLists ==
  ASSUME TypeInv, TasksInv, OnMessage
  PROVE  NoTaskTwice' /\ PagesSkipNothing'
  <1>1. UNCHANGED <<rows, taskCursor, loaded>> /\ down # <<>> /\ down' = Tail(down)
    BY DEF OnMessage
  <1>2. PICK frame \in FrameSet : frame = Head(down)
    BY <1>1, TailFacts DEF TypeInv
  <1>3. \/ UNCHANGED tasks
        \/ frame.kind = "task" /\ tasks' = UpsertTask(frame.task)
    BY <1>2 DEF OnMessage
  <1>4. CASE UNCHANGED tasks
    BY <1>1, <1>4 DEF TasksInv, NoTaskTwice, PagesSkipNothing, Shown
  <1>5. CASE frame.kind = "task" /\ tasks' = UpsertTask(frame.task)
    <2>1. frame.task \in TaskRows
      BY <1>5 DEF FrameSet
    <2>2. Ids(tasks') = Shown \union {frame.task.id} /\ Distinct(tasks')
      BY <1>5, <2>1, TaskFacts, UpsertFacts DEF TasksInv
    <2>3. NoTaskTwice' /\ Shown \subseteq Shown'
      BY <2>2 DEF NoTaskTwice, Distinct, Shown, Ids
    <2> QED BY <1>1, <2>3 DEF TasksInv, PagesSkipNothing
  <1> QED BY <1>3, <1>4, <1>5

LEMMA AnswerTasksFollows == ASSUME TypeInv, TasksInv, AnswerTasks PROVE PagesFollow'
  <1> DEFINE initial == taskLoad.initial
             before  == taskLoad.before
  <1>1. /\ taskLoad.step = "sent"
        /\ taskLoad' = [step |-> "answered", initial |-> initial,
                        page |-> PageTasks(before), newest |-> Len(rows)]
        /\ UNCHANGED <<rows, taskCursor>>
    BY DEF AnswerTasks, server
  <1>2. initial \in BOOLEAN /\ before \in Nat
    BY <1>1 DEF TypeInv, TaskLoadIsTyped, TaskLoads, NoLoad
  <1>3. (initial => before = 0) /\ (~initial => before = taskCursor)
    BY <1>1 DEF TasksInv, PagesFollow
  <1> HIDE DEF initial, before
  <1>4. PICK items \in Seq(TaskRows), next \in 0..Len(rows) :
           /\ PageTasks(before) = [items |-> items, next |-> next]
           /\ Distinct(items)
           /\ \A r \in DOMAIN rows : r >= next /\ (before = 0 \/ r < before) => r \in Ids(items)
    BY <1>2, PageTasksFacts DEF TypeInv
  <1>5. /\ taskLoad'.step = "answered" /\ taskLoad'.initial = initial
        /\ taskLoad'.page.items = items /\ taskLoad'.page.next = next
    BY <1>1, <1>4
  <1>6. Listed(taskLoad.page)' = Ids(items)
    BY <1>5 DEF Listed, Ids
  <1>7. ASSUME NEW r \in DOMAIN rows, r >= next, ~initial => r < taskCursor
        PROVE  r \in Ids(items)
    BY <1>2, <1>3, <1>4, <1>7
  <1>8. Distinct(taskLoad.page.items)'
    BY <1>4, <1>5 DEF Distinct
  <1> QED BY <1>1, <1>5, <1>6, <1>7, <1>8 DEF PagesFollow

LEMMA ShowTasksLists == ASSUME TypeInv, TasksInv, ShowTasks PROVE TasksInv'
  <1> DEFINE page    == taskLoad.page.items
             next    == taskLoad.page.next
             newest  == taskLoad.newest
             initial == taskLoad.initial
  <1>1. /\ taskLoad.step = "answered" /\ taskCursor' = next
        /\ tasks' = TasksPage(page, initial)
        /\ loaded' = (IF initial THEN newest ELSE loaded)
        /\ taskLoad' = NoLoad /\ UNCHANGED rows
    BY DEF ShowTasks, server
  <1>2. /\ page \in Seq(TaskRows) /\ initial \in BOOLEAN /\ newest \in Nat /\ next \in Nat
        /\ Listed(taskLoad.page) = Ids(page)
    BY <1>1, AnsweredTasks DEF TypeInv
  <1>3. /\ Distinct(page)
        /\ \A r \in DOMAIN rows : /\ r >= next
                                  /\ initial => r <= newest
                                  /\ ~initial => r < taskCursor
                                  => r \in Ids(page)
    BY <1>1, <1>2 DEF TasksInv, PagesFollow
  <1> HIDE DEF page, next, newest, initial
  <1>4. /\ initial => Ids(tasks') = Ids(page)
        /\ ~initial => Ids(tasks') = Shown \union Ids(page)
        /\ Distinct(tasks')
    <2>1. tasks \in Seq(TaskRows) /\ Distinct(tasks)
      BY TaskFacts DEF TasksInv
    <2> QED BY <1>1, <1>2, <1>3, <2>1, TasksPageFacts
  <1>5. NoTaskTwice' /\ Shown' = Ids(tasks')
    BY <1>4 DEF NoTaskTwice, Distinct, Shown, Ids
  <1>6. ASSUME NEW r \in DOMAIN rows, r <= loaded', r >= next PROVE r \in Ids(tasks')
    <2>1. CASE initial
      BY <1>1, <1>3, <1>4, <1>6, <2>1
    <2>2. CASE ~initial
      <3>1. r \in Nat /\ taskCursor \in Nat
        BY TaskFacts
      <3>2. CASE r < taskCursor
        BY <1>3, <1>4, <1>6, <2>2, <3>2
      <3>3. CASE ~ (r < taskCursor)
        BY <1>1, <1>4, <1>6, <2>2, <3>1, <3>3 DEF TasksInv, PagesSkipNothing
      <3> QED BY <3>2, <3>3
    <2> QED BY <2>1, <2>2
  <1>7. PagesSkipNothing'
    BY <1>1, <1>5, <1>6 DEF PagesSkipNothing
  <1>8. PagesFollow'
    BY <1>1 DEF PagesFollow, NoLoad
  <1> QED BY <1>5, <1>7, <1>8 DEF TasksInv

LEMMA NextLists == ASSUME TypeInv, TasksInv, [Next]_vars PROVE TasksInv'
  <1>1. CASE UNCHANGED vars
    BY <1>1 DEF vars, server, view, lists, TasksInv, NoTaskTwice, PagesSkipNothing, PagesFollow, Shown,
                Distinct, Listed
  <1>2. CASE Next
    <2>1. Grows /\ ServerTypeOK'
      BY <1>2, NextGrows
    <2>2. ASSUME UNCHANGED <<tasks, taskCursor, loaded, taskLoad>> PROVE TasksInv'
      BY <2>1, <2>2, ListStays DEF TasksInv
    <2>3. CASE \/ Serve \/ Connect \/ OnClose \/ Reconnect \/ LoadMoreMessages \/ AnswerMessages
               \/ ShowMessages \/ Submit \/ OnPrincipalMessage \/ PrincipalMessageFails
      BY <2>2, <2>3
      DEF Serve, Connect, OnClose, Reconnect, LoadMoreMessages, AnswerMessages, ShowMessages, Submit,
          OnPrincipalMessage, PrincipalMessageFails, view, lists
    <2>4. CASE OnMessage
      <3>1. PagesFollow'
        BY <2>1, <2>4, ListStays DEF OnMessage
      <3> QED BY <2>4, <3>1, OnMessageLists DEF TasksInv
    <2>5. CASE OnOpen
      <3>1. /\ UNCHANGED <<tasks, taskCursor, loaded>>
            /\ \/ UNCHANGED taskLoad
               \/ taskLoad' = [step |-> "sent", initial |-> TRUE, before |-> 0]
        BY <2>5, RequestFacts DEF OnOpen
      <3>2. CASE taskLoad' = [step |-> "sent", initial |-> TRUE, before |-> 0]
        BY <2>1, <3>1, <3>2, ListStays DEF TasksInv, PagesFollow
      <3> QED BY <2>2, <3>1, <3>2
    <2>6. CASE LoadMoreTasks
      <3>1. /\ UNCHANGED <<tasks, taskCursor, loaded>> /\ taskCursor # 0
            /\ \/ UNCHANGED taskLoad
               \/ taskLoad' = [step |-> "sent", initial |-> FALSE, before |-> taskCursor]
        BY <2>6, RequestFacts DEF LoadMoreTasks
      <3>2. CASE taskLoad' = [step |-> "sent", initial |-> FALSE, before |-> taskCursor]
        BY <2>1, <3>1, <3>2, ListStays DEF TasksInv, PagesFollow
      <3> QED BY <2>2, <3>1, <3>2
    <2>7. CASE AnswerTasks
      <3>1. NoTaskTwice' /\ PagesSkipNothing'
        BY <2>1, <2>7, ListStays DEF AnswerTasks
      <3> QED BY <2>7, <3>1, AnswerTasksFollows DEF TasksInv
    <2>8. CASE ShowTasks
      BY <2>8, ShowTasksLists
    <2>9. CASE LoadFails
      <3>1. UNCHANGED <<tasks, taskCursor, loaded>> /\ taskLoad' \in {taskLoad, NoLoad}
        BY <2>9 DEF LoadFails
      <3>2. CASE taskLoad' = NoLoad
        BY <2>1, <3>1, <3>2, ListStays DEF TasksInv, PagesFollow, NoLoad
      <3> QED BY <2>2, <3>1, <3>2
    <2> QED BY <1>2, <2>3, <2>4, <2>5, <2>6, <2>7, <2>8, <2>9 DEF Next
  <1> QED BY <1>1, <1>2

LEMMA StartsListing == ASSUME Init PROVE TasksInv
  <1>1. tasks = <<>> /\ taskCursor = 0 /\ taskLoad = NoLoad /\ loaded = 0
    BY DEF Init
  <1>2. \A r \in DOMAIN rows : r \in Nat /\ r >= 1
    BY StartsTyped, TaskFacts
  <1> QED BY <1>1, <1>2 DEF TasksInv, NoTaskTwice, PagesSkipNothing, PagesFollow, NoLoad

THEOREM Listing == Spec => []TasksInv
  <1>1. Init => TasksInv
    BY StartsListing
  <1>2. TypeInv /\ TasksInv /\ [Next]_vars => TasksInv'
    BY NextLists
  <1> QED BY <1>1, <1>2, Typing, PTL DEF Spec

(* No task is listed twice (use-xevos-stream.ts upsertTask, tasksPage), for any
   number of tasks, deltas, pages, failed loads and connections. *)
THEOREM TasksAreListedOnce == Spec => []NoTaskTwice
  <1>1. TasksInv => NoTaskTwice
    BY DEF TasksInv
  <1> QED BY <1>1, Listing, PTL

(* Every task between the cursor and the newest one of the first page is listed,
   whatever was created and whatever load failed meanwhile (queries.ts pageTasks). *)
THEOREM PagingSkipsNothing == Spec => []PagesSkipNothing
  <1>1. TasksInv => PagesSkipNothing
    BY DEF TasksInv
  <1> QED BY <1>1, Listing, PTL

-----------------------------------------------------------------------------
(* The principal's messages *)

(* What is under way is newer than all that is published or refused, and in its order. *)
SentIsNewer ==
  /\ \A k \in DOMAIN up : up[k] <= typed /\ \A i \in DOMAIN log : log[i] < up[k]
  /\ \A j, k \in DOMAIN up : j < k => up[j] < up[k]
  /\ \A i \in DOMAIN log : log[i] <= typed
  /\ \A m \in refused : m <= typed /\ \A k \in DOMAIN up : m < up[k]

SentInv == SentOnceInOrder /\ SentIsNewer

LEMMA SentFacts ==
  ASSUME TypeInv
  PROVE  /\ Len(up) \in Nat /\ DOMAIN up = 1..Len(up) /\ typed \in Nat
         /\ \A k \in DOMAIN up : up[k] \in Nat /\ up[k] >= 1
         /\ \A m \in refused : m \in Nat
         /\ Len(log) \in Nat /\ DOMAIN log = 1..Len(log) /\ \A i \in DOMAIN log : log[i] \in Int
  <1>1. /\ up \in Seq(1..MaxTyped) /\ typed \in 0..MaxTyped /\ MaxTyped \in Nat
        /\ \A m \in refused : m \in Nat
    BY DashboardAssumption DEF TypeInv, SentIsTyped
  <1>2. Len(up) \in Nat /\ DOMAIN up = 1..Len(up) /\ \A k \in DOMAIN up : up[k] \in 1..MaxTyped
    BY <1>1, LenProperties
  <1>3. \A k \in DOMAIN up : up[k] \in Nat /\ up[k] >= 1
    BY <1>1, <1>2
  <1> QED BY <1>1, <1>2, <1>3, ServerFacts DEF TypeInv

(* An event is published that the principal did not type. *)
LEMMA OthersKeepSent ==
  ASSUME TypeInv, SentInv, NEW e \in {Reply, Other}, Publish(e), UNCHANGED <<up, typed, drops, refused>>
  PROVE  SentInv'
  <1>1. e \in Int /\ e <= 0
    BY DEF Reply, Other
  <1>2. /\ Len(log) \in Nat /\ DOMAIN log = 1..Len(log) /\ DOMAIN log' = 1..(Len(log) + 1)
        /\ log'[Len(log) + 1] = e /\ \A i \in DOMAIN log : log'[i] = log[i]
    BY <1>1, PublishFacts DEF TypeInv
  <1>3. \A i \in DOMAIN log' : i \in DOMAIN log \/ i = Len(log) + 1
    BY <1>2
  <1>4. SentIsNewer'
    <2>1. \A i \in DOMAIN log' : log'[i] <= typed /\ \A k \in DOMAIN up : log'[i] < up[k]
      BY <1>2, <1>1, <1>3, SentFacts DEF SentInv, SentIsNewer
    <2> QED BY <2>1 DEF SentInv, SentIsNewer
  <1>5. ASSUME NEW i \in DOMAIN log', NEW j \in DOMAIN log', i < j, log'[i] > 0, log'[j] > 0
        PROVE  log'[i] < log'[j]
    <2>1. i \in DOMAIN log /\ j \in DOMAIN log
      BY <1>2, <1>1, <1>3, <1>5
    <2> QED BY <1>2, <1>5, <2>1 DEF SentInv, SentOnceInOrder
  <1>6. ToSet(log') \ {Reply, Other} = ToSet(log) \ {Reply, Other}
    <2>1. ToSet(log) \subseteq ToSet(log')
      BY <1>2 DEF ToSet
    <2>2. ToSet(log') \subseteq ToSet(log) \union {e}
      BY <1>2, <1>3 DEF ToSet
    <2> QED BY <2>1, <2>2
  <1>7. SentOnceInOrder'
    BY <1>5, <1>6 DEF SentInv, SentOnceInOrder
  <1> QED BY <1>4, <1>7 DEF SentInv

(* The message at the head of the uplink is published. *)
LEMMA PublishKeepsSent == ASSUME TypeInv, SentInv, OnPrincipalMessage PROVE SentInv'
  <1>1. PICK e \in 1..MaxTyped : Publish(e) /\ e = up[1]
    BY PrincipalMessageFacts
  <1>2. /\ Len(up') = Len(up) - 1 /\ Len(up) \in Nat \ {0}
        /\ DOMAIN up = 1..Len(up) /\ DOMAIN up' = 1..(Len(up) - 1)
        /\ \A k \in DOMAIN up' : up'[k] = up[k + 1]
        /\ UNCHANGED <<typed, drops, refused>> /\ up' \in Seq(1..MaxTyped)
    BY PrincipalMessageFacts, UplinkMoves
  <1>3. e \in Int /\ e \in Nat /\ e >= 1
    BY <1>1, DashboardAssumption
  <1>4. /\ Len(log) \in Nat /\ DOMAIN log = 1..Len(log) /\ DOMAIN log' = 1..(Len(log) + 1)
        /\ log'[Len(log) + 1] = e /\ \A i \in DOMAIN log : log'[i] = log[i]
    BY <1>1, <1>3, PublishFacts DEF TypeInv
  <1>5. \A i \in DOMAIN log' : i \in DOMAIN log \/ i = Len(log) + 1
    BY <1>4
  <1>6. 1 \in DOMAIN up /\ \A k \in DOMAIN up' : k + 1 \in DOMAIN up /\ 1 < k + 1 /\ k \in Nat
    BY <1>2
  <1>7. \A i \in DOMAIN log : log[i] \in Int /\ log[i] < e
    BY <1>1, <1>6, SentFacts DEF SentInv, SentIsNewer
  <1>8. SentIsNewer'
    <2>1. \A k \in DOMAIN up' : up'[k] <= typed /\ e < up'[k] /\ \A i \in DOMAIN log : log[i] < up'[k]
      BY <1>1, <1>2, <1>6 DEF SentInv, SentIsNewer
    <2>2. ASSUME NEW j \in DOMAIN up', NEW k \in DOMAIN up', j < k PROVE up'[j] < up'[k]
      <3>1. j + 1 \in DOMAIN up /\ k + 1 \in DOMAIN up /\ j + 1 < k + 1
        BY <1>6, <2>2
      <3> QED BY <1>2, <3>1 DEF SentInv, SentIsNewer
    <2>3. e <= typed
      BY <1>1, <1>6 DEF SentInv, SentIsNewer
    <2>4. \A i \in DOMAIN log' : log'[i] <= typed /\ \A k \in DOMAIN up' : log'[i] < up'[k]
      BY <1>4, <1>5, <2>1, <2>3 DEF SentInv, SentIsNewer
    <2>5. \A m \in refused : m <= typed /\ \A k \in DOMAIN up' : m < up'[k]
      BY <1>2, <1>6 DEF SentInv, SentIsNewer
    <2> QED BY <1>2, <2>1, <2>2, <2>4, <2>5 DEF SentIsNewer
  <1>9. ASSUME NEW i \in DOMAIN log', NEW j \in DOMAIN log', i < j, log'[i] > 0, log'[j] > 0
        PROVE  log'[i] < log'[j]
    <2>1. i \in DOMAIN log
      BY <1>4, <1>5, <1>9
    <2>2. CASE j \in DOMAIN log
      BY <1>4, <1>9, <2>1, <2>2 DEF SentInv, SentOnceInOrder
    <2>3. CASE j = Len(log) + 1
      BY <1>4, <1>7, <2>1, <2>3
    <2> QED BY <1>5, <2>2, <2>3
  <1>10. ASSUME drops = 0
         PROVE  LET sent == typed - Len(up')
                IN  /\ ToSet(log') \ {Reply, Other} = (1..sent) \ refused
                    /\ up' = [k \in 1..Len(up') |-> sent + k]
    <2> DEFINE sent == typed - Len(up)
    <2>1. /\ ToSet(log) \ {Reply, Other} = (1..sent) \ refused
          /\ up = [k \in 1..Len(up) |-> sent + k]
      BY <1>10 DEF SentInv, SentOnceInOrder
    <2>2. sent \in Int /\ typed - Len(up') = sent + 1
      BY <1>2, SentFacts
    <2>3. \A k \in 1..Len(up) : up[k] = sent + k
      BY <2>1
    <2> HIDE DEF sent
    <2>4. e = sent + 1
      BY <1>1, <1>2, <2>2, <2>3
    <2>5. ToSet(log') = ToSet(log) \union {e}
      <3>1. ToSet(log) \subseteq ToSet(log')
        BY <1>4 DEF ToSet
      <3>2. ToSet(log') \subseteq ToSet(log) \union {e}
        BY <1>4, <1>5 DEF ToSet
      <3>3. e \in ToSet(log')
        BY <1>4 DEF ToSet
      <3> QED BY <3>1, <3>2, <3>3
    <2>6. ToSet(log') \ {Reply, Other} = (1..(sent + 1)) \ refused
      <3>1. e \notin {Reply, Other}
        BY <1>3 DEF Reply, Other
      <3>2. 1..(sent + 1) = (1..sent) \union {sent + 1}
        BY <1>3, <2>2, <2>4
      <3>3. e \notin refused
        BY <1>1, <1>3, <1>6 DEF SentInv, SentIsNewer
      <3> QED BY <2>1, <2>4, <2>5, <3>1, <3>2, <3>3
    <2>7. \A k \in 1..Len(up') : up'[k] = (sent + 1) + k
      <3>1. \A k \in 1..Len(up') : k \in DOMAIN up' /\ k + 1 \in 1..Len(up) /\ sent + (k + 1) = (sent + 1) + k
        BY <1>2, <2>2
      <3> QED BY <1>2, <2>3, <3>1
    <2>8. up' = [k \in 1..Len(up') |-> (sent + 1) + k]
      <3> DEFINE n == Len(up')
      <3>1. up' = [k \in 1..n |-> up'[k]]
        BY <1>2, LenProperties
      <3> HIDE DEF n
      <3> QED BY <2>7, <3>1 DEF n
    <2> QED BY <2>2, <2>6, <2>8
  <1>11. SentOnceInOrder'
    BY <1>2, <1>9, <1>10 DEF SentOnceInOrder
  <1> QED BY <1>8, <1>11 DEF SentInv

(* Publishing it failed. *)
LEMMA FailureKeepsSent == ASSUME TypeInv, SentInv, PrincipalMessageFails PROVE SentInv'
  <1>1. PICK e \in 1..MaxTyped : /\ e = up[1] /\ refused' = refused \union {e}
                                /\ up # <<>> /\ up' = Tail(up) /\ up' \in Seq(1..MaxTyped)
                                /\ UNCHANGED <<log, typed, drops>>
    BY PrincipalMessageLost DEF server
  <1>2. /\ Len(up') = Len(up) - 1 /\ Len(up) \in Nat \ {0}
        /\ DOMAIN up = 1..Len(up) /\ DOMAIN up' = 1..(Len(up) - 1)
        /\ \A k \in DOMAIN up' : up'[k] = up[k + 1]
    BY <1>1, UplinkMoves
  <1>3. 1 \in DOMAIN up /\ \A k \in DOMAIN up' : k + 1 \in DOMAIN up /\ 1 < k + 1 /\ k \in Nat
    BY <1>2
  <1>4. SentIsNewer'
    <2>1. \A k \in DOMAIN up' : up'[k] <= typed /\ e < up'[k] /\ \A i \in DOMAIN log : log[i] < up'[k]
      BY <1>1, <1>2, <1>3 DEF SentInv, SentIsNewer
    <2>2. ASSUME NEW j \in DOMAIN up', NEW k \in DOMAIN up', j < k PROVE up'[j] < up'[k]
      <3>1. j + 1 \in DOMAIN up /\ k + 1 \in DOMAIN up /\ j + 1 < k + 1
        BY <1>3, <2>2
      <3> QED BY <1>2, <3>1 DEF SentInv, SentIsNewer
    <2>3. \A i \in DOMAIN log : log[i] <= typed
      BY DEF SentInv, SentIsNewer
    <2>4. e <= typed
      BY <1>1, <1>3 DEF SentInv, SentIsNewer
    <2>5. \A m \in refused' : m <= typed /\ \A k \in DOMAIN up' : m < up'[k]
      BY <1>1, <1>2, <1>3, <2>1, <2>4 DEF SentInv, SentIsNewer
    <2> QED BY <1>1, <2>1, <2>2, <2>3, <2>5 DEF SentIsNewer
  <1>5. ASSUME drops = 0
        PROVE  LET sent == typed - Len(up')
               IN  /\ ToSet(log) \ {Reply, Other} = (1..sent) \ refused'
                   /\ up' = [k \in 1..Len(up') |-> sent + k]
    <2> DEFINE sent == typed - Len(up)
    <2>1. /\ ToSet(log) \ {Reply, Other} = (1..sent) \ refused
          /\ up = [k \in 1..Len(up) |-> sent + k]
      BY <1>5 DEF SentInv, SentOnceInOrder
    <2>2. sent \in Int /\ typed - Len(up') = sent + 1
      BY <1>2, SentFacts
    <2>3. \A k \in 1..Len(up) : up[k] = sent + k
      BY <2>1
    <2> HIDE DEF sent
    <2>4. e = sent + 1
      BY <1>1, <1>2, <2>2, <2>3
    <2>5. (1..(sent + 1)) \ refused' = (1..sent) \ refused
      <3>1. sent + 1 \in Nat /\ sent + 1 \notin 1..sent
        BY <2>2, <2>4, DashboardAssumption
      <3>2. 1..(sent + 1) = (1..sent) \union {sent + 1}
        BY <2>2, <2>4, DashboardAssumption
      <3> QED BY <1>1, <2>4, <3>1, <3>2
    <2>6. \A k \in 1..Len(up') : up'[k] = (sent + 1) + k
      <3>1. \A k \in 1..Len(up') : k \in DOMAIN up' /\ k + 1 \in 1..Len(up) /\ sent + (k + 1) = (sent + 1) + k
        BY <1>2, <2>2
      <3> QED BY <1>2, <2>3, <3>1
    <2>7. up' = [k \in 1..Len(up') |-> (sent + 1) + k]
      <3> DEFINE n == Len(up')
      <3>1. up' = [k \in 1..n |-> up'[k]]
        BY <1>1, LenProperties
      <3> HIDE DEF n
      <3> QED BY <2>6, <3>1 DEF n
    <2> QED BY <2>1, <2>2, <2>5, <2>7
  <1>6. SentOnceInOrder'
    BY <1>1, <1>5 DEF SentInv, SentOnceInOrder
  <1> QED BY <1>4, <1>6 DEF SentInv

LEMMA SubmitKeepsSent == ASSUME TypeInv, SentInv, Submit PROVE SentInv'
  <1>1. typed' = typed + 1 /\ up' = Append(up, typed + 1) /\ UNCHANGED <<log, drops, refused>>
    BY DEF Submit, server
  <1> DEFINE n == Len(up)
  <1>2. /\ Len(up') = n + 1 /\ DOMAIN up' = 1..(n + 1) /\ up'[n + 1] = typed + 1
        /\ \A k \in 1..n : up'[k] = up[k]
        /\ up' \in Seq(Nat)
    <2>1. up \in Seq(Nat) /\ typed + 1 \in Nat
      <3>1. 1..MaxTyped \subseteq Nat
        OBVIOUS
      <3> QED BY <3>1, SentFacts, SeqMonotonic DEF TypeInv, SentIsTyped
    <2>2. /\ up' \in Seq(Nat) /\ Len(up') = n + 1
          /\ up'[n + 1] = typed + 1 /\ \A k \in 1..n : up'[k] = up[k]
      BY <1>1, <2>1, AppendProperties
    <2> QED BY <2>2, LenProperties
  <1>3. /\ n \in Nat /\ DOMAIN up = 1..n /\ typed \in Nat
        /\ \A k \in DOMAIN up : up[k] \in Nat
        /\ \A i \in DOMAIN log : log[i] \in Int
        /\ \A m \in refused : m \in Nat
    BY SentFacts
  <1> HIDE DEF n
  <1>4. \A k \in DOMAIN up' : k \in DOMAIN up \/ k = n + 1
    BY <1>2, <1>3
  <1>5. SentIsNewer'
    <2>1. \A i \in DOMAIN log : log[i] <= typed + 1 /\ log[i] < typed + 1
      BY <1>3 DEF SentInv, SentIsNewer
    <2>2. \A k \in DOMAIN up : up[k] <= typed + 1 /\ up[k] < typed + 1
      BY <1>3 DEF SentInv, SentIsNewer
    <2>3. \A k \in DOMAIN up' : up'[k] <= typed + 1 /\ \A i \in DOMAIN log : log[i] < up'[k]
      BY <1>2, <1>3, <1>4, <2>1, <2>2 DEF SentInv, SentIsNewer
    <2>4. ASSUME NEW j \in DOMAIN up', NEW k \in DOMAIN up', j < k PROVE up'[j] < up'[k]
      <3>1. j \in DOMAIN up
        BY <1>2, <1>3, <2>4
      <3>2. CASE k \in DOMAIN up
        BY <1>2, <1>3, <2>4, <3>1, <3>2 DEF SentInv, SentIsNewer
      <3>3. CASE k = n + 1
        BY <1>2, <1>3, <2>2, <3>1, <3>3
      <3> QED BY <1>4, <3>2, <3>3
    <2>5. ASSUME NEW m \in refused PROVE m <= typed + 1 /\ \A k \in DOMAIN up' : m < up'[k]
      <3>1. m <= typed /\ m \in Nat /\ \A k \in DOMAIN up : m < up[k]
        BY <1>3 DEF SentInv, SentIsNewer
      <3> QED BY <1>2, <1>3, <1>4, <3>1
    <2> QED BY <1>1, <2>1, <2>3, <2>4, <2>5 DEF SentIsNewer
  <1>6. ASSUME drops = 0
        PROVE  LET sent == (typed + 1) - (n + 1)
               IN  /\ ToSet(log) \ {Reply, Other} = (1..sent) \ refused
                   /\ up' = [k \in 1..(n + 1) |-> sent + k]
    <2> DEFINE sent == typed - n
    <2>1. /\ ToSet(log) \ {Reply, Other} = (1..sent) \ refused
          /\ up = [k \in 1..n |-> sent + k]
      BY <1>6 DEF SentInv, SentOnceInOrder, n
    <2>2. sent \in Int /\ (typed + 1) - (n + 1) = sent /\ typed + 1 = sent + (n + 1)
      BY <1>3
    <2>3. \A k \in 1..n : up[k] = sent + k
      BY <2>1
    <2> HIDE DEF sent
    <2>4. \A k \in 1..(n + 1) : up'[k] = sent + k
      BY <1>2, <1>3, <1>4, <2>2, <2>3
    <2>5. up' = [k \in 1..(n + 1) |-> up'[k]]
      BY <1>2
    <2> QED BY <2>1, <2>2, <2>4, <2>5
  <1>7. SentOnceInOrder'
    BY <1>1, <1>2, <1>6 DEF SentOnceInOrder, SentInv
  <1> QED BY <1>5, <1>7 DEF SentInv

LEMMA NextSends == ASSUME TypeInv, SentInv, [Next]_vars PROVE SentInv'
  <1>1. ASSUME UNCHANGED <<log, up, typed, drops, refused>> PROVE SentInv'
    BY <1>1 DEF SentInv, SentOnceInOrder, SentIsNewer
  <1>2. CASE Serve
    <2>1. UNCHANGED <<up, typed, drops, refused>>
      BY <1>2 DEF Serve
    <2>2. \/ UNCHANGED log
          \/ \E e \in {Reply, Other} : Publish(e)
      BY <1>2 DEF Serve, Work, Tick, CreateTask, UpdateTask, Consume, PublishReply, PublishOther, Flush
    <2> QED BY <1>1, <2>1, <2>2, OthersKeepSent
  <1>3. CASE OnClose
    <2>1. drops \in Nat /\ drops' = drops + 1 /\ up' = <<>> /\ UNCHANGED <<log, typed, refused>>
      BY <1>3, DashboardAssumption DEF OnClose, Forget, TypeInv, LinkIsTyped
    <2> QED BY <2>1 DEF SentInv, SentOnceInOrder, SentIsNewer
  <1>4. CASE \/ Connect \/ OnOpen \/ OnMessage \/ Reconnect \/ LoadMoreTasks \/ LoadMoreMessages
             \/ AnswerTasks \/ AnswerMessages \/ ShowTasks \/ ShowMessages \/ LoadFails
             \/ UNCHANGED vars
    BY <1>1, <1>4
    DEF Connect, Accept, OnOpen, OnMessage, Reconnect, LoadMoreTasks, LoadMoreMessages, AnswerTasks,
        AnswerMessages, ShowTasks, ShowMessages, LoadFails, server, vars
  <1> QED BY <1>2, <1>3, <1>4, PublishKeepsSent, FailureKeepsSent, SubmitKeepsSent DEF Next

LEMMA StartsSent == ASSUME Init PROVE SentInv
  <1>1. log = <<>> /\ up = <<>> /\ typed = 0 /\ refused = {}
    BY DEF Init, ObserverInit
  <1>2. ToSet(log) = {} /\ Len(up) = 0 /\ DOMAIN up = {} /\ DOMAIN log = {}
    BY <1>1 DEF ToSet
  <1>3. up = [k \in 1..0 |-> 0 + k]
    BY <1>1
  <1> QED BY <1>1, <1>2, <1>3 DEF SentInv, SentOnceInOrder, SentIsNewer

(* What the principal types is published once and in the order typed, and lost
   only with its connection or when publishing it throws (use-xevos-stream.ts
   sendMessage, ws-server.ts), for any number of messages, other events, failures
   and connections. *)
THEOREM MessagesArriveInOrder == Spec => []SentOnceInOrder
  <1>1. Init => SentInv
    BY StartsSent
  <1>2. TypeInv /\ SentInv /\ [Next]_vars => SentInv'
    BY NextSends
  <1>3. SentInv => SentOnceInOrder
    BY DEF SentInv
  <1> QED BY <1>1, <1>2, <1>3, Typing, PTL DEF Spec

-----------------------------------------------------------------------------
(* The frames of one kind: in the order of what they carry *)

Numbered == {"event", "message"}

(* The frames of one kind bring what they carry in its order. *)
InOrder(kind) == \A j, k \in Coming(kind) : j < k => down[j].seq < down[k].seq

LEMMA ComingFacts ==
  ASSUME FramesAreTyped, NEW kind \in Numbered
  PROVE  /\ Len(down) \in Nat /\ DOMAIN down = 1..Len(down) /\ Coming(kind) \subseteq DOMAIN down
         /\ \A k \in Coming(kind) : /\ k \in Nat /\ down[k].seq \in Nat /\ down[k].seq \in DOMAIN log
                                    /\ down[k].seq \in Carried(kind)
         /\ \A m \in Carried(kind) : m \in Nat /\ m \in DOMAIN log /\ \E k \in Coming(kind) : down[k].seq = m
         /\ \A m \in Carried("message") : m \in Conversation
  <1>1. down \in Seq(FrameSet) /\ \A k \in DOMAIN down : FrameOK(down[k])
    BY DEF FramesAreTyped
  <1>2. /\ Len(down) \in Nat /\ DOMAIN down = 1..Len(down)
        /\ \A k \in DOMAIN down : down[k] \in FrameSet
    BY <1>1, LenProperties
  <1>3. ASSUME NEW k \in DOMAIN down, down[k].kind \in Numbered
        PROVE  down[k].seq \in Nat /\ down[k].seq \in DOMAIN log
    <2>1. down[k] \in FrameSet /\ FrameOK(down[k])
      BY <1>1, <1>2
    <2> QED BY <1>3, <2>1 DEF FrameSet, FrameOK, Numbered, Conversation
  <1>4. \A k \in DOMAIN down : down[k].kind = "message" => down[k].seq \in Conversation
    BY <1>1 DEF FrameOK
  <1> QED BY <1>2, <1>3, <1>4 DEF Coming, Carried

LEMMA FramesAppended ==
  ASSUME down \in Seq(FrameSet), NEW frames \in Seq(FrameSet), down' = down \o frames, NEW kind
  PROVE  /\ \A i \in Coming(kind)' : i \in Nat
         /\ \A i \in Coming(kind) : i \in Coming(kind)' /\ down'[i] = down[i] /\ i <= Len(down)
         /\ \A i \in Coming(kind)' :
              \/ i \in Coming(kind) /\ down'[i] = down[i]
              \/ /\ i > Len(down) /\ i - Len(down) \in DOMAIN frames
                 /\ frames[i - Len(down)].kind = kind /\ down'[i] = frames[i - Len(down)]
         /\ \A k \in DOMAIN frames : frames[k].kind = kind =>
              Len(down) + k \in Coming(kind)' /\ down'[Len(down) + k] = frames[k]
  <1>1. /\ DOMAIN down = 1..Len(down) /\ Len(down) \in Nat
        /\ \A k \in DOMAIN down : k \in DOMAIN down' /\ down'[k] = down[k]
        /\ \A k \in DOMAIN frames : Len(down) + k \in DOMAIN down' /\ down'[Len(down) + k] = frames[k]
        /\ \A i \in DOMAIN down' :
             \/ i \in DOMAIN down /\ down'[i] = down[i]
             \/ /\ i > Len(down) /\ i - Len(down) \in DOMAIN frames
                /\ down'[i] = frames[i - Len(down)]
    BY Concatenated
  <1>2. DOMAIN down' \subseteq Nat
    <2>1. down' \in Seq(FrameSet)
      BY Concatenated
    <2> QED BY <2>1, LenProperties
  <1> QED BY <1>1, <1>2 DEF Coming

(* A published event is carried after all that were. *)
LEMMA PublishCarries ==
  ASSUME TypeInv, joined, NEW e \in Int, Publish(e), NEW kind \in Numbered, InOrder(kind)
  PROVE  /\ InOrder(kind)'
         /\ Carried(kind)' = IF kind = "event" \/ IsPrincipalMessage(e)
                             THEN Carried(kind) \union {Len(log) + 1}
                             ELSE Carried(kind)
  <1> DEFINE n == Len(log) + 1
  <1>1. ServerTypeOK /\ FramesAreTyped
    BY DEF TypeInv
  <1>2. n \in Nat /\ DOMAIN log = 1..Len(log) /\ Len(log) \in Nat /\ n = Len(log) + 1
    BY <1>1, ServerFacts
  <1>3. PICK frames \in Seq(FrameSet) : frames = EventFrames(e, n)
    BY <1>2, EventFramesFacts
  <1>4. down' = down \o frames
    BY <1>1, <1>3, PublishFacts
  <1> HIDE DEF n
  <1>5. /\ \A k \in DOMAIN frames : k \in {1, 2} /\ frames[k].seq = n
        /\ 1 \in DOMAIN frames /\ frames[1].kind = "event"
        /\ IsPrincipalMessage(e) => 2 \in DOMAIN frames /\ frames[2].kind = "message"
        /\ ~IsPrincipalMessage(e) => DOMAIN frames = {1}
    <2>1. /\ frames[1] = EventFrame(n)
          /\ IsPrincipalMessage(e) => DOMAIN frames = {1, 2} /\ frames[2] = MessageFrame(n)
          /\ ~IsPrincipalMessage(e) => DOMAIN frames = {1}
      BY <1>2, <1>3, EventFramesFacts
    <2> QED BY <2>1 DEF EventFrame, MessageFrame
  <1>6. /\ \A i \in Coming(kind)' : i \in Nat
        /\ \A i \in Coming(kind) : i \in Coming(kind)' /\ down'[i] = down[i] /\ i <= Len(down)
        /\ \A i \in Coming(kind)' :
             \/ i \in Coming(kind) /\ down'[i] = down[i]
             \/ /\ i > Len(down) /\ i - Len(down) \in DOMAIN frames
                /\ frames[i - Len(down)].kind = kind /\ down'[i] = frames[i - Len(down)]
        /\ \A k \in DOMAIN frames : frames[k].kind = kind =>
             Len(down) + k \in Coming(kind)' /\ down'[Len(down) + k] = frames[k]
    BY <1>1, <1>4, FramesAppended DEF FramesAreTyped
  <1>7. /\ \A i \in Coming(kind) : i \in Nat /\ down[i].seq \in Nat /\ down[i].seq < n
        /\ Len(down) \in Nat
    BY <1>1, <1>2, ComingFacts
  <1>8. \A i \in Coming(kind)' : \/ i \in Coming(kind) /\ down'[i] = down[i]
                                 \/ /\ i - Len(down) \in {1, 2} /\ i > Len(down) /\ down'[i].seq = n
                                    /\ kind = "event" \/ IsPrincipalMessage(e)
                                    /\ i - Len(down) = (IF kind = "event" THEN 1 ELSE 2)
    BY <1>5, <1>6 DEF Numbered
  <1>9. InOrder(kind)'
    <2> SUFFICES ASSUME NEW i \in Coming(kind)', NEW j \in Coming(kind)', i < j
                 PROVE  down'[i].seq < down'[j].seq
      BY DEF InOrder
    <2>1. i \in Coming(kind) /\ down'[i] = down[i]
      BY <1>6, <1>7, <1>8
    <2> QED BY <1>7, <1>8, <2>1 DEF InOrder
  <1>10. kind = "event" \/ IsPrincipalMessage(e) => \E i \in Coming(kind)' : down'[i].seq = n
    BY <1>5, <1>6 DEF Numbered
  <1>11. Carried(kind) \subseteq Carried(kind)'
    BY <1>6 DEF Carried
  <1>12. Carried(kind)' \subseteq Carried(kind) \union {n}
    BY <1>8 DEF Carried
  <1>13. kind = "event" \/ IsPrincipalMessage(e) => n \in Carried(kind)'
    BY <1>10 DEF Carried
  <1>14. ~(kind = "event" \/ IsPrincipalMessage(e)) => Carried(kind)' \subseteq Carried(kind)
    BY <1>8 DEF Carried
  <1> QED BY <1>9, <1>11, <1>12, <1>13, <1>14 DEF n

(* Org and task frames leave the others as they are. *)
LEMMA FlushCarries ==
  ASSUME TypeInv, Flush, NEW kind \in Numbered, InOrder(kind)
  PROVE  InOrder(kind)' /\ Carried(kind)' = Carried(kind)
  <1>1. ServerTypeOK /\ FramesAreTyped
    BY DEF TypeInv
  <1>2. PICK frames \in Seq(FrameSet) : /\ down' = IF joined THEN down \o frames ELSE down
                                        /\ \A k \in DOMAIN frames : frames[k].kind \notin Numbered
    <2>1. PICK frames \in Seq(FrameSet) : /\ down' = IF joined THEN down \o frames ELSE down
                                          /\ \A k \in DOMAIN frames : frames[k].kind \in {"org", "task"}
      BY <1>1, FlushFrames
    <2> QED BY <2>1 DEF Numbered
  <1>3. CASE down' = down
    BY <1>3 DEF InOrder, Carried, Coming
  <1>4. CASE down' = down \o frames
    <2>1. /\ \A i \in Coming(kind) : i \in Coming(kind)' /\ down'[i] = down[i]
          /\ \A i \in Coming(kind)' : i \in Coming(kind) /\ down'[i] = down[i]
      <3>1. /\ \A i \in Coming(kind) : i \in Coming(kind)' /\ down'[i] = down[i] /\ i <= Len(down)
            /\ \A i \in Coming(kind)' :
                 \/ i \in Coming(kind) /\ down'[i] = down[i]
                 \/ /\ i > Len(down) /\ i - Len(down) \in DOMAIN frames
                    /\ frames[i - Len(down)].kind = kind /\ down'[i] = frames[i - Len(down)]
        BY <1>1, <1>4, FramesAppended DEF FramesAreTyped
      <3> QED BY <1>2, <3>1
    <2> QED BY <2>1 DEF InOrder, Carried
  <1> QED BY <1>2, <1>3, <1>4

(* The tab takes the first frame: the least of its kind. *)
LEMMA HeadLeaves ==
  ASSUME FramesAreTyped, down # <<>>, down' = Tail(down), NEW kind \in Numbered, InOrder(kind)
  PROVE  /\ InOrder(kind)'
         /\ Head(down).kind # kind => Carried(kind)' = Carried(kind)
         /\ Head(down).kind = kind =>
              /\ Carried(kind) = Carried(kind)' \union {Head(down).seq}
              /\ Head(down).seq \in Nat
              /\ \A m \in Carried(kind)' : m \in Nat /\ Head(down).seq < m
  <1>1. /\ Head(down) = down[1] /\ 1 \in DOMAIN down
        /\ \A k \in DOMAIN down' : k + 1 \in DOMAIN down /\ k >= 1 /\ down'[k] = down[k + 1]
        /\ \A k \in DOMAIN down : k \in Nat /\ (k = 1 \/ (k > 1 /\ k - 1 \in DOMAIN down' /\ down'[k - 1] = down[k]))
    BY TailFacts
  <1>2. \A k \in Coming(kind)' : k + 1 \in Coming(kind) /\ down'[k] = down[k + 1] /\ k + 1 > 1 /\ k \in Int
    <2>1. \A k \in DOMAIN down' : k \in Int
      <3>1. down' \in Seq(FrameSet)
        BY TailFacts
      <3> QED BY <3>1, LenProperties
    <2> QED BY <1>1, <2>1 DEF Coming
  <1>3. \A k \in Coming(kind) : k = 1 \/ (k - 1 \in Coming(kind)' /\ down'[k - 1] = down[k])
    BY <1>1 DEF Coming
  <1>4. \A k \in Coming(kind) : k \in Nat /\ down[k].seq \in Nat
    BY ComingFacts
  <1>5. InOrder(kind)'
    <2> SUFFICES ASSUME NEW i \in Coming(kind)', NEW j \in Coming(kind)', i < j
                 PROVE  down'[i].seq < down'[j].seq
      BY DEF InOrder
    <2>1. i + 1 \in Coming(kind) /\ j + 1 \in Coming(kind) /\ i + 1 < j + 1
      BY <1>2
    <2> QED BY <1>2, <2>1 DEF InOrder
  <1>6. Carried(kind)' \subseteq Carried(kind)
    <2> SUFFICES ASSUME NEW k \in Coming(kind)' PROVE down'[k].seq \in Carried(kind)
      BY DEF Carried
    <2> QED BY <1>2 DEF Carried
  <1>7. Carried(kind) \subseteq Carried(kind)' \union {down[1].seq}
    <2> SUFFICES ASSUME NEW k \in Coming(kind), k # 1 PROVE down[k].seq \in Carried(kind)'
      BY DEF Carried
    <2>1. k - 1 \in Coming(kind)' /\ down'[k - 1] = down[k]
      BY <1>3
    <2> QED BY <2>1 DEF Carried
  <1>8. CASE Head(down).kind = kind
    <2>1. 1 \in Coming(kind) /\ down[1].seq \in Nat
      BY <1>1, <1>4, <1>8 DEF Coming
    <2>2. down[1].seq \in Carried(kind)
      BY <2>1 DEF Carried
    <2>3. \A m \in Carried(kind)' : m \in Nat /\ down[1].seq < m
      <3> SUFFICES ASSUME NEW k \in Coming(kind)' PROVE down'[k].seq \in Nat /\ down[1].seq < down'[k].seq
        BY DEF Carried
      <3>1. k + 1 \in Coming(kind) /\ down'[k] = down[k + 1] /\ 1 < k + 1
        BY <1>2
      <3> QED BY <1>4, <2>1, <3>1 DEF InOrder
    <2> QED BY <1>1, <1>5, <1>6, <1>7, <1>8, <2>1, <2>2, <2>3
  <1>9. CASE Head(down).kind # kind
    <2>1. 1 \notin Coming(kind)
      BY <1>1, <1>9 DEF Coming
    <2>2. Carried(kind) \subseteq Carried(kind)'
      <3> SUFFICES ASSUME NEW k \in Coming(kind) PROVE down[k].seq \in Carried(kind)'
        BY DEF Carried
      <3>1. k - 1 \in Coming(kind)' /\ down'[k - 1] = down[k]
        BY <1>3, <2>1
      <3> QED BY <3>1 DEF Carried
    <2> QED BY <1>5, <1>6, <1>9, <2>2
  <1> QED BY <1>8, <1>9

(* Only the seed, or nothing, is under way. *)
LEMMA NoneCarried ==
  ASSUME NEW kind \in Numbered, down' = <<OrgFrame>> \/ down' = <<>>
  PROVE  InOrder(kind)' /\ Carried(kind)' = {}
  <1>1. Coming(kind)' = {}
    <2>1. \A k \in DOMAIN down' : down'[k] = OrgFrame
      OBVIOUS
    <2>2. OrgFrame.kind # kind
      BY DEF OrgFrame, Numbered
    <2> QED BY <2>1, <2>2 DEF Coming
  <1> QED BY <1>1 DEF InOrder, Carried

-----------------------------------------------------------------------------
(* The live feed *)

FeedInv == FeedIsUnbroken /\ (drops = 0 /\ ~joined => feed = <<>>)

LEMMA PublishFeeds ==
  ASSUME TypeInv, FeedInv, NEW e \in Int, Publish(e), UNCHANGED <<feed, drops>>
  PROVE  FeedInv'
  <1>1. /\ Len(log) \in Nat /\ Len(log)' = Len(log) + 1 /\ joined' = joined
    BY PublishFacts DEF TypeInv
  <1>2. CASE drops = 0 /\ joined
    <2>1. PICK next \in 1..(Len(log) + 1) :
            /\ Carried("event") = next..Len(log)
            /\ \A j, k \in Coming("event") : j < k => down[j].seq < down[k].seq
            /\ \A k \in DOMAIN feed : feed[k] = next - k
      BY <1>2 DEF FeedInv, FeedIsUnbroken
    <2>2. InOrder("event")
      BY <2>1 DEF InOrder
    <2>3. InOrder("event")' /\ Carried("event")' = Carried("event") \union {Len(log) + 1}
      <3>1. "event" \in Numbered
        BY DEF Numbered
      <3> QED BY <1>2, <2>2, <3>1, PublishCarries
    <2>4. Carried("event")' = next..(Len(log) + 1)
      <3>1. \A n \in Nat : \A i \in 1..(n + 1) : i..(n + 1) = (i..n) \union {n + 1}
        OBVIOUS
      <3> QED BY <1>1, <2>1, <2>3, <3>1
    <2>5. next \in 1..(Len(log)' + 1)
      BY <1>1
    <2> QED BY <1>1, <1>2, <2>1, <2>3, <2>4, <2>5 DEF FeedInv, FeedIsUnbroken, InOrder
  <1>3. CASE ~(drops = 0 /\ joined)
    BY <1>1, <1>3 DEF FeedInv, FeedIsUnbroken
  <1> QED BY <1>2, <1>3

LEMMA FlushFeeds ==
  ASSUME TypeInv, FeedInv, Flush, UNCHANGED <<feed, drops>>
  PROVE  FeedInv'
  <1>1. UNCHANGED <<log, joined>>
    BY DEF Flush
  <1>2. "event" \in Numbered
    BY DEF Numbered
  <1>3. InOrder("event") => InOrder("event")' /\ Carried("event")' = Carried("event")
    BY <1>2, FlushCarries
  <1> QED BY <1>1, <1>3 DEF FeedInv, FeedIsUnbroken, InOrder

(* An event frame brings the event after the newest one shown. *)
LEMMA OnMessageFeeds == ASSUME TypeInv, FeedInv, OnMessage PROVE FeedInv'
  <1>1. /\ joined /\ down # <<>> /\ down' = Tail(down) /\ UNCHANGED <<log, joined, drops>>
        /\ Head(down).kind = "event" => feed' = PushEvent(Head(down).seq)
        /\ Head(down).kind # "event" => feed' = feed
    <2>1. Head(down) \in FrameSet
      BY TailFacts DEF TypeInv, OnMessage
    <2> QED BY <2>1 DEF OnMessage, TypeInv, LinkIsTyped, FrameSet
  <1>2. FramesAreTyped /\ feed \in Seq(Nat) /\ Len(log) \in Nat
    BY ServerFacts DEF TypeInv, FeedIsTyped
  <1>3. "event" \in Numbered
    BY DEF Numbered
  <1>4. CASE drops = 0
    <2>1. PICK next \in 1..(Len(log) + 1) :
            /\ Carried("event") = next..Len(log)
            /\ \A j, k \in Coming("event") : j < k => down[j].seq < down[k].seq
            /\ \A k \in DOMAIN feed : feed[k] = next - k
      BY <1>1, <1>4 DEF FeedInv, FeedIsUnbroken
    <2>2. InOrder("event")
      BY <2>1 DEF InOrder
    <2>3. CASE Head(down).kind # "event"
      <3>1. InOrder("event")' /\ Carried("event")' = Carried("event")
        BY <1>1, <1>2, <1>3, <2>2, <2>3, HeadLeaves
      <3> QED BY <1>1, <2>1, <2>3, <3>1 DEF FeedInv, FeedIsUnbroken, InOrder
    <2>4. CASE Head(down).kind = "event"
      <3> DEFINE seq == Head(down).seq
      <3>1. /\ InOrder("event")' /\ Carried("event") = Carried("event")' \union {seq} /\ seq \in Nat
            /\ \A m \in Carried("event")' : m \in Nat /\ seq < m
        BY <1>1, <1>2, <1>3, <2>2, <2>4, HeadLeaves
      <3>2. feed' = PushEvent(seq)
        BY <1>1, <2>4
      <3>3. \A k \in DOMAIN feed' : \/ k = 1 /\ feed'[k] = seq
                                    \/ k - 1 \in DOMAIN feed /\ feed'[k] = feed[k - 1]
        BY <1>2, <3>1, <3>2, PushEventFacts
      <3>4. feed' \in Seq(Nat)
        BY <1>2, <3>1, <3>2, PushEventFacts
      <3>5. DOMAIN feed' \subseteq Int
        BY <3>4, LenProperties
      <3> HIDE DEF seq
      <3>6. seq \in next..Len(log)
        BY <2>1, <3>1
      <3>7. next \in Carried("event") /\ next \in Nat
        BY <1>2, <2>1, <3>6
      <3>8. seq = next
        BY <3>1, <3>6, <3>7
      <3>9. Carried("event")' = (next + 1)..Len(log)
        <4>1. \A m \in Carried("event")' : m \in (next + 1)..Len(log)
          BY <1>2, <2>1, <3>1, <3>7, <3>8
        <4>2. \A m \in (next + 1)..Len(log) : m \in next..Len(log) /\ m # next
          BY <1>2, <3>7
        <4>3. \A m \in (next + 1)..Len(log) : m \in Carried("event")'
          BY <2>1, <3>1, <3>8, <4>2
        <4> QED BY <4>1, <4>3
      <3>10. next + 1 \in 1..(Len(log) + 1)
        BY <1>2, <3>6, <3>7
      <3>11. \A k \in DOMAIN feed' : feed'[k] = (next + 1) - k
        BY <2>1, <3>3, <3>5, <3>7, <3>8
      <3> QED BY <1>1, <3>1, <3>9, <3>10, <3>11 DEF FeedInv, FeedIsUnbroken, InOrder
    <2> QED BY <2>3, <2>4
  <1>5. CASE drops # 0
    BY <1>1, <1>5 DEF FeedInv, FeedIsUnbroken
  <1> QED BY <1>4, <1>5

(* The first connection starts with no event under way and none shown. *)
LEMMA ConnectFeeds == ASSUME TypeInv, FeedInv, Connect PROVE FeedInv'
  <1>1. ~joined /\ joined' /\ down' = <<OrgFrame>> /\ UNCHANGED <<log, drops, feed>>
    BY DEF Connect, Accept, view
  <1>2. "event" \in Numbered /\ Len(log) \in Nat
    BY ServerFacts DEF Numbered, TypeInv
  <1>3. InOrder("event")' /\ Carried("event")' = {}
    BY <1>1, <1>2, NoneCarried
  <1>4. (Len(log) + 1)..Len(log) = {} /\ Len(log) + 1 \in 1..(Len(log) + 1)
    BY <1>2
  <1>5. drops = 0 => DOMAIN feed = {}
    BY <1>1 DEF FeedInv
  <1> QED BY <1>1, <1>3, <1>4, <1>5 DEF FeedInv, FeedIsUnbroken, InOrder

LEMMA NextFeeds == ASSUME TypeInv, FeedInv, [Next]_vars PROVE FeedInv'
  <1>1. ASSUME UNCHANGED <<log, down, joined, drops, feed>> PROVE FeedInv'
    BY <1>1 DEF FeedInv, FeedIsUnbroken, Coming, Carried
  <1>2. CASE Serve
    <2>1. UNCHANGED <<drops, feed>>
      BY <1>2 DEF Serve, view
    <2>2. \/ UNCHANGED <<log, down, joined>>
          \/ Publish(Reply) \/ Publish(Other) \/ Flush
      BY <1>2 DEF Serve, Work, Tick, CreateTask, UpdateTask, Consume, PublishReply, PublishOther
    <2>3. Reply \in Int /\ Other \in Int
      BY DEF Reply, Other
    <2> QED BY <1>1, <2>1, <2>2, <2>3, PublishFeeds, FlushFeeds
  <1>3. CASE OnPrincipalMessage
    <2>1. PICK e \in 1..MaxTyped : Publish(e)
      BY <1>3, PrincipalMessageFacts
    <2>2. UNCHANGED <<drops, feed>>
      BY <1>3 DEF OnPrincipalMessage, view
    <2>3. e \in Int
      BY DashboardAssumption
    <2> QED BY <2>1, <2>2, <2>3, PublishFeeds
  <1>4. CASE OnClose
    <2>1. drops \in Nat /\ drops' = drops + 1
      BY <1>4, DashboardAssumption DEF OnClose, TypeInv, LinkIsTyped
    <2> QED BY <2>1 DEF FeedInv, FeedIsUnbroken
  <1>5. CASE \/ OnOpen \/ Reconnect \/ LoadMoreTasks \/ LoadMoreMessages \/ AnswerTasks
             \/ AnswerMessages \/ ShowTasks \/ ShowMessages \/ LoadFails \/ Submit
             \/ PrincipalMessageFails \/ UNCHANGED vars
    BY <1>1, <1>5
    DEF OnOpen, Reconnect, LoadMoreTasks, LoadMoreMessages, AnswerTasks, AnswerMessages, ShowTasks,
        ShowMessages, LoadFails, Submit, PrincipalMessageFails, server, view, vars
  <1> QED BY <1>2, <1>3, <1>4, <1>5, OnMessageFeeds, ConnectFeeds DEF Next

LEMMA StartsFed == ASSUME Init PROVE FeedInv
  <1>1. ~joined /\ feed = <<>>
    BY DEF Init, ObserverInit
  <1> QED BY <1>1 DEF FeedInv, FeedIsUnbroken

(* While the first connection lasts, the live feed has no gap and no repetition
   (use-xevos-stream.ts pushEvent, ws-server.ts), for any number of events and
   any cap on the feed. *)
THEOREM FeedHasNoGap == Spec => []FeedIsUnbroken
  <1>1. Init => FeedInv
    BY StartsFed
  <1>2. TypeInv /\ FeedInv /\ [Next]_vars => FeedInv'
    BY NextFeeds
  <1>3. FeedInv => FeedIsUnbroken
    BY DEF FeedInv
  <1> QED BY <1>1, <1>2, <1>3, Typing, PTL DEF Spec

-----------------------------------------------------------------------------
(* The conversation *)

Unrepeated(s) == \A j, k \in DOMAIN s : j < k => s[j] # s[k]

Above(m, S) == \A i \in S : i < m

(* The message frames under way bring the latest messages, no more than a page
   holds: a first page read meanwhile has them all. *)
FramesAreLatest ==
  /\ InOrder("message")
  /\ \A m \in Carried("message"), i \in Conversation : i > m => i \in Carried("message")
  /\ Cardinality(Carried("message")) <= PageSize

PageIsOrdered ==
  messageLoad.step = "answered" =>
    /\ Descending(messageLoad.page.items)
    /\ \A i \in ToSet(messageLoad.page.items) : i >= messageLoad.page.next

(* On the first connection, what is shown reaches down to the cursor, and what
   is under way comes after it or is shown already. *)
FirstShown ==
  /\ \A m \in ToSet(messages) : m >= messageCursor
  /\ \A m \in Carried("message") :
       m >= messageCursor /\ (m \in ToSet(messages) \/ Above(m, ToSet(messages)))

(* There the first page is asked for once, before any other, and what is under
   way after it was read is on it or newer; a later page ends before the cursor. *)
FirstLoads ==
  /\ link # "closed"
  /\ link = "connecting" => messages = <<>> /\ messageCursor = 0 /\ messageLoad = NoLoad
  /\ messageLoad # NoLoad =>
       /\ messageLoad.initial =>
            messageCursor = 0 /\ \A m \in Carried("message") : Above(m, ToSet(messages))
       /\ ~messageLoad.initial => messageCursor # 0
  /\ messageLoad.step = "sent" =>
       messageLoad.before = IF messageLoad.initial THEN 0 ELSE messageCursor
  /\ messageLoad.step = "answered" =>
       LET items == ToSet(messageLoad.page.items)
       IN  /\ ~messageLoad.initial => /\ messageLoad.page.next <= messageCursor
                                      /\ \A i \in items : i < messageCursor
           /\ messageLoad.initial =>
                \A m \in Carried("message") :
                  m >= messageLoad.page.next /\ (m \in items \/ Above(m, items))

MessagesInv ==
  /\ NoMessageTwice
  /\ FramesAreLatest
  /\ PageIsOrdered
  /\ drops = 0 => FirstShown /\ FirstLoads

LEMMA MessageFacts ==
  ASSUME TypeInv
  PROVE  /\ messages \in Seq(Nat) /\ Len(messages) \in Nat /\ DOMAIN messages = 1..Len(messages)
         /\ ToSet(messages) \subseteq Conversation
         /\ Len(log) \in Nat /\ \A i \in Conversation : i \in Nat /\ i <= Len(log)
         /\ messageCursor \in Nat /\ messageCursor <= Len(log)
         /\ Carried("message") \subseteq Conversation
         /\ messageLoad.step = "answered" =>
              /\ messageLoad.page.items \in Seq(Nat)
              /\ messageLoad.page.next \in Nat /\ messageLoad.page.next <= Len(log)
              /\ ToSet(messageLoad.page.items) \subseteq Conversation
  <1>1. ServerTypeOK /\ MessagesAreTyped /\ MessageLoadIsTyped /\ FramesAreTyped
    BY DEF TypeInv
  <1>2. Len(log) \in Nat /\ DOMAIN log = 1..Len(log)
    BY <1>1, ServerFacts
  <1>3. \A i \in Conversation : i \in Nat /\ i <= Len(log)
    BY <1>2 DEF Conversation
  <1>4. /\ messages \in Seq(Nat) /\ ToSet(messages) \subseteq Conversation
        /\ messageCursor \in Nat /\ messageCursor <= Len(log)
    BY <1>1, <1>2 DEF MessagesAreTyped
  <1>5. Len(messages) \in Nat /\ DOMAIN messages = 1..Len(messages)
    BY <1>4, LenProperties
  <1>6. Carried("message") \subseteq Conversation
    <2>1. "message" \in Numbered
      BY DEF Numbered
    <2> QED BY <1>1, <2>1, ComingFacts
  <1>7. messageLoad.step = "answered" =>
          /\ messageLoad.page.items \in Seq(Nat)
          /\ messageLoad.page.next \in Nat /\ messageLoad.page.next <= Len(log)
          /\ ToSet(messageLoad.page.items) \subseteq Conversation
    BY <1>1, AnsweredMessages DEF MessageLoadIsTyped
  <1> QED BY <1>2, <1>3, <1>4, <1>5, <1>6, <1>7

(* What the frames in some places carry is no more than they are. *)
Seqs(d, K) == {d[k].seq : k \in K}

LEMMA SeqsAreFew ==
  ASSUME NEW d \in Seq(FrameSet), NEW K \in SUBSET DOMAIN d
  PROVE  /\ IsFiniteSet(Seqs(d, K)) /\ Cardinality(Seqs(d, K)) \in Nat /\ Cardinality(K) \in Nat
         /\ Cardinality(Seqs(d, K)) <= Cardinality(K)
  <1>1. IsFiniteSet(DOMAIN d)
    <2>1. DOMAIN d = 1..Len(d) /\ Len(d) \in Nat
      BY LenProperties
    <2> QED BY <2>1, FS_Interval
  <1>2. IsFiniteSet(K) /\ Cardinality(K) \in Nat
    BY <1>1, FS_Subset, FS_CardinalityType
  <1> DEFINE f == [k \in K |-> d[k].seq]
  <1>3. f \in Surjection(K, Seqs(d, K))
    <2>1. f \in [K -> Seqs(d, K)]
      BY DEF Seqs
    <2>2. \A m \in Seqs(d, K) : \E k \in K : f[k] = m
      BY DEF Seqs
    <2> QED BY <2>1, <2>2 DEF Surjection
  <1> HIDE DEF f
  <1>4. IsFiniteSet(Seqs(d, K)) /\ Cardinality(Seqs(d, K)) <= Cardinality(K)
    BY <1>2, <1>3, FS_Surjection
  <1> QED BY <1>2, <1>4, FS_CardinalityType

LEMMA CarriedIsFinite ==
  ASSUME FramesAreTyped
  PROVE  IsFiniteSet(Carried("message")) /\ Cardinality(Carried("message")) \in Nat
  <1>1. PICK d \in Seq(FrameSet) : d = down
    BY DEF FramesAreTyped
  <1>2. Coming("message") \in SUBSET DOMAIN d
    BY <1>1 DEF Coming
  <1>3. Carried("message") = Seqs(d, Coming("message"))
    BY <1>1 DEF Carried, Seqs
  <1> QED BY <1>2, <1>3, SeqsAreFew

LEMMA MessageIsNumbered == "message" \in Numbered
  BY DEF Numbered

(* Publishing: the new message is after all others; the guard bounds the frames. *)
LEMMA PublishIsLatest ==
  ASSUME TypeInv, FramesAreLatest, NEW e \in Int, Publish(e),
         Cardinality(Coming("message"))' <= PageSize, FramesAreTyped'
  PROVE  /\ FramesAreLatest'
         /\ \A m \in Carried("message")' : m \in Carried("message") \/ m = Len(log) + 1
  <1>1. /\ Len(log) \in Nat /\ DOMAIN log = 1..Len(log) /\ DOMAIN log' = 1..(Len(log) + 1)
        /\ log'[Len(log) + 1] = e /\ \A i \in DOMAIN log : log'[i] = log[i]
        /\ down' = IF joined THEN down \o EventFrames(e, Len(log) + 1) ELSE down
    BY PublishFacts DEF TypeInv
  <1>2. \A i \in Conversation' : i \in Conversation \/ (i = Len(log) + 1 /\ IsPrincipalMessage(e))
    <2>1. \A i \in DOMAIN log' : i \in DOMAIN log \/ i = Len(log) + 1
      BY <1>1
    <2> QED BY <1>1, <2>1 DEF Conversation, IsPrincipalMessage
  <1>3. Cardinality(Carried("message"))' <= PageSize
    <2>1. PICK d \in Seq(FrameSet) : d = down'
      BY DEF FramesAreTyped
    <2>2. PICK K \in SUBSET DOMAIN d : K = Coming("message")'
      BY <2>1 DEF Coming
    <2>3. Carried("message")' = Seqs(d, K)
      BY <2>1, <2>2 DEF Carried, Seqs
    <2>4. /\ Cardinality(Seqs(d, K)) \in Nat /\ Cardinality(K) \in Nat
          /\ Cardinality(Seqs(d, K)) <= Cardinality(K)
      BY SeqsAreFew
    <2>5. Cardinality(K) <= PageSize /\ PageSize \in Nat
      BY <2>2, ObserverAssumption
    <2>6. Cardinality(Seqs(d, K)) <= PageSize
      BY <2>4, <2>5
    <2> QED BY <2>3, <2>6
  <1>4. CASE joined
    <2>1. /\ InOrder("message")'
          /\ Carried("message")' = IF IsPrincipalMessage(e)
                                   THEN Carried("message") \union {Len(log) + 1}
                                   ELSE Carried("message")
      <3>1. "message" # "event"
        OBVIOUS
      <3> QED BY <1>4, <3>1, MessageIsNumbered, PublishCarries DEF FramesAreLatest
    <2>2. \A m \in Carried("message") : m \in Conversation /\ m \in Nat /\ m <= Len(log)
      BY MessageFacts
    <2>3. \A m \in Carried("message")', i \in Conversation' : i > m => i \in Carried("message")'
      <3> SUFFICES ASSUME NEW m \in Carried("message")', NEW i \in Conversation', i > m
                   PROVE  i \in Carried("message")'
        OBVIOUS
      <3>1. CASE i = Len(log) + 1 /\ IsPrincipalMessage(e)
        BY <2>1, <3>1
      <3>2. CASE i \in Conversation
        <4>1. i \in Nat /\ i <= Len(log)
          BY <3>2, MessageFacts
        <4>2. m \in Carried("message")
          BY <1>1, <2>1, <4>1
        <4> QED BY <2>1, <3>2, <4>2 DEF FramesAreLatest
      <3> QED BY <1>2, <3>1, <3>2
    <2> QED BY <1>3, <2>1, <2>3 DEF FramesAreLatest
  <1>5. CASE ~joined
    <2>1. down = <<>> /\ down' = <<>>
      BY <1>1, <1>5 DEF TypeInv, ServerTypeOK
    <2>2. InOrder("message")' /\ Carried("message")' = {}
      BY <2>1, MessageIsNumbered, NoneCarried
    <2> QED BY <1>3, <2>2 DEF FramesAreLatest
  <1> QED BY <1>4, <1>5

(* With no new event, the frames under way lose their first at most. *)
LEMMA FewerFrames ==
  ASSUME TypeInv, FramesAreLatest, UNCHANGED log,
         InOrder("message")',
         \/ Carried("message")' = {}
         \/ Carried("message")' = Carried("message")
         \/ \E q \in Nat : /\ Carried("message") = Carried("message")' \union {q}
                           /\ \A m \in Carried("message")' : q < m
  PROVE  FramesAreLatest' /\ Carried("message")' \subseteq Carried("message")
  <1>1. Conversation' = Conversation
    BY DEF Conversation, IsPrincipalMessage
  <1>2. Carried("message")' \subseteq Carried("message")
    OBVIOUS
  <1>3. Cardinality(Carried("message"))' <= PageSize
    <2>1. IsFiniteSet(Carried("message")) /\ Cardinality(Carried("message")) \in Nat
      BY CarriedIsFinite DEF TypeInv
    <2>2. /\ Cardinality(Carried("message")') <= Cardinality(Carried("message"))
          /\ Cardinality(Carried("message")') \in Nat
      BY <1>2, <2>1, FS_Subset, FS_CardinalityType
    <2>3. Cardinality(Carried("message")) <= PageSize /\ PageSize \in Nat
      BY ObserverAssumption DEF FramesAreLatest
    <2> QED BY <2>1, <2>2, <2>3
  <1>4. \A m \in Carried("message")', i \in Conversation' : i > m => i \in Carried("message")'
    <2> SUFFICES ASSUME NEW m \in Carried("message")', NEW i \in Conversation', i > m
                 PROVE  i \in Carried("message")'
      OBVIOUS
    <2>1. m \in Carried("message") /\ i \in Conversation /\ m \in Nat /\ i \in Nat
      BY <1>1, <1>2, MessageFacts
    <2>2. i \in Carried("message")
      BY <2>1 DEF FramesAreLatest
    <2> QED BY <2>1, <2>2
  <1> QED BY <1>2, <1>3, <1>4 DEF FramesAreLatest

LEMMA FewerAreShown ==
  ASSUME FirstShown, FirstLoads, UNCHANGED <<messages, messageCursor, messageLoad, link>>,
         Carried("message")' \subseteq Carried("message")
  PROVE  FirstShown' /\ FirstLoads'
  <1>1. FirstShown'
    BY DEF FirstShown, Above
  <1>2. FirstLoads'
    BY DEF FirstLoads, Above
  <1> QED BY <1>1, <1>2

LEMMA PublishShows ==
  ASSUME TypeInv, MessagesInv, NEW e \in Int, Publish(e),
         Cardinality(Coming("message"))' <= PageSize, FramesAreTyped',
         UNCHANGED <<link, view, drops>>
  PROVE  MessagesInv'
  <1>1. UNCHANGED <<messages, messageCursor, messageLoad, link, drops>>
    BY DEF view, lists
  <1>2. /\ FramesAreLatest'
        /\ \A m \in Carried("message")' : m \in Carried("message") \/ m = Len(log) + 1
    BY PublishIsLatest DEF MessagesInv
  <1>3. NoMessageTwice' /\ PageIsOrdered'
    BY <1>1 DEF MessagesInv, NoMessageTwice, PageIsOrdered, Descending
  <1>4. ASSUME drops = 0 PROVE FirstShown' /\ FirstLoads'
    <2>1. FirstShown /\ FirstLoads
      BY <1>4 DEF MessagesInv
    <2> DEFINE n == Len(log) + 1
    <2>2. /\ n \in Nat /\ n >= messageCursor /\ Above(n, ToSet(messages))
          /\ messageLoad.step = "answered" =>
               n >= messageLoad.page.next /\ Above(n, ToSet(messageLoad.page.items))
      BY MessageFacts DEF Above
    <2> HIDE DEF n
    <2>3. \A m \in Carried("message")' : m \in Carried("message") \/ m = n
      BY <1>2 DEF n
    <2>4. FirstShown'
      BY <1>1, <2>1, <2>2, <2>3 DEF FirstShown, Above
    <2>5. FirstLoads'
      BY <1>1, <2>1, <2>2, <2>3 DEF FirstLoads, Above
    <2> QED BY <2>4, <2>5
  <1> QED BY <1>1, <1>2, <1>3, <1>4 DEF MessagesInv

LEMMA QuietShows ==
  ASSUME TypeInv, MessagesInv, UNCHANGED <<messages, messageCursor, messageLoad, link, drops>>,
         FramesAreLatest', Carried("message")' \subseteq Carried("message")
  PROVE  MessagesInv'
  <1>1. NoMessageTwice' /\ PageIsOrdered'
    BY DEF MessagesInv, NoMessageTwice, PageIsOrdered, Descending
  <1> QED BY <1>1, FewerAreShown DEF MessagesInv

LEMMA StillFrames ==
  ASSUME FramesAreLatest, UNCHANGED <<log, down>>
  PROVE  FramesAreLatest' /\ Carried("message")' = Carried("message")
  <1>1. Coming("message")' = Coming("message") /\ Carried("message")' = Carried("message")
    BY DEF Coming, Carried
  <1>2. Conversation' = Conversation
    BY DEF Conversation, IsPrincipalMessage
  <1> QED BY <1>1, <1>2 DEF FramesAreLatest, InOrder

LEMMA FlushShows ==
  ASSUME TypeInv, MessagesInv, Flush, UNCHANGED <<link, view, drops>>
  PROVE  MessagesInv'
  <1>1. InOrder("message")' /\ Carried("message")' = Carried("message")
    BY MessageIsNumbered, FlushCarries DEF MessagesInv, FramesAreLatest
  <1>2. UNCHANGED log
    BY DEF Flush
  <1>3. FramesAreLatest' /\ Carried("message")' \subseteq Carried("message")
    BY <1>1, <1>2, FewerFrames DEF MessagesInv
  <1> QED BY <1>3, QuietShows DEF view, lists

LEMMA ConnectShows == ASSUME TypeInv, MessagesInv, Connect PROVE MessagesInv'
  <1>1. down' = <<OrgFrame>> /\ UNCHANGED <<log, link, view, drops>>
    BY DEF Connect, Accept
  <1>2. InOrder("message")' /\ Carried("message")' = {}
    BY <1>1, MessageIsNumbered, NoneCarried
  <1>3. FramesAreLatest' /\ Carried("message")' \subseteq Carried("message")
    BY <1>1, <1>2, FewerFrames DEF MessagesInv
  <1> QED BY <1>1, <1>3, QuietShows DEF view, lists

LEMMA OnCloseShows == ASSUME TypeInv, MessagesInv, OnClose PROVE MessagesInv'
  <1>1. down' = <<>> /\ UNCHANGED <<log, view>> /\ drops' = drops + 1 /\ drops \in Nat
    BY DashboardAssumption DEF OnClose, Forget, TypeInv, LinkIsTyped
  <1>2. InOrder("message")' /\ Carried("message")' = {}
    BY <1>1, MessageIsNumbered, NoneCarried
  <1>3. FramesAreLatest'
    BY <1>1, <1>2, FewerFrames DEF MessagesInv
  <1>4. NoMessageTwice' /\ PageIsOrdered' /\ drops' # 0
    BY <1>1 DEF MessagesInv, NoMessageTwice, PageIsOrdered, Descending, view, lists
  <1> QED BY <1>3, <1>4 DEF MessagesInv

LEMMA ReconnectShows == ASSUME TypeInv, MessagesInv, Reconnect PROVE MessagesInv'
  <1>1. link = "closed" /\ UNCHANGED <<log, down, view, drops>>
    BY DEF Reconnect, server
  <1>2. drops # 0
    BY <1>1 DEF MessagesInv, FirstLoads
  <1>3. FramesAreLatest'
    BY <1>1, StillFrames DEF MessagesInv
  <1>4. NoMessageTwice' /\ PageIsOrdered'
    BY <1>1 DEF MessagesInv, NoMessageTwice, PageIsOrdered, Descending, view, lists
  <1> QED BY <1>1, <1>2, <1>3, <1>4 DEF MessagesInv

(* A message that comes is after those shown or among them. *)
LEMMA OnMessageShows == ASSUME TypeInv, MessagesInv, OnMessage PROVE MessagesInv'
  <1> DEFINE m == Head(down).seq
  <1>1. /\ down # <<>> /\ down' = Tail(down)
        /\ UNCHANGED <<log, messageCursor, messageLoad, link, drops>>
        /\ Head(down).kind = "message" => messages' = AppendMessage(m)
        /\ Head(down).kind # "message" => messages' = messages
    <2>1. Head(down) \in FrameSet
      BY TailFacts DEF TypeInv, OnMessage
    <2> QED BY <2>1 DEF OnMessage, FrameSet
  <1>2. FramesAreTyped /\ InOrder("message")
    BY DEF TypeInv, MessagesInv, FramesAreLatest
  <1>3. /\ InOrder("message")'
        /\ Head(down).kind # "message" => Carried("message")' = Carried("message")
        /\ Head(down).kind = "message" =>
             /\ Carried("message") = Carried("message")' \union {m}
             /\ m \in Nat
             /\ \A i \in Carried("message")' : i \in Nat /\ m < i
    BY <1>1, <1>2, MessageIsNumbered, HeadLeaves
  <1> HIDE DEF m
  <1>4. FramesAreLatest' /\ Carried("message")' \subseteq Carried("message")
    <2>1. \/ Carried("message")' = Carried("message")
          \/ \E q \in Nat : /\ Carried("message") = Carried("message")' \union {q}
                            /\ \A i \in Carried("message")' : q < i
      BY <1>3
    <2> QED BY <1>1, <1>3, <2>1, FewerFrames DEF MessagesInv
  <1>5. CASE messages' = messages
    BY <1>1, <1>4, <1>5, QuietShows
  <1>6. CASE messages' # messages
    <2>1. /\ Head(down).kind = "message" /\ messages' = AppendMessage(m)
          /\ m \in Nat /\ m \in Carried("message")
          /\ \A i \in Carried("message")' : i \in Carried("message") /\ i \in Nat /\ m < i
      BY <1>1, <1>3, <1>6
    <2>2. /\ messages \in Seq(Nat) /\ Len(messages) \in Nat /\ DOMAIN messages = 1..Len(messages)
          /\ messageCursor \in Nat
      BY MessageFacts
    <2>3. /\ m \notin ToSet(messages) /\ ToSet(messages') = ToSet(messages) \union {m}
          /\ DOMAIN messages' = DOMAIN messages \union {Len(messages) + 1}
          /\ messages'[Len(messages) + 1] = m
          /\ \A k \in DOMAIN messages : messages'[k] = messages[k]
      BY <1>6, <2>1, <2>2, AppendMessageFacts
    <2>4. \A k \in DOMAIN messages : messages[k] \in ToSet(messages)
      BY DEF ToSet
    <2>5. ASSUME NEW j \in DOMAIN messages', NEW k \in DOMAIN messages', j < k
          PROVE  messages'[j] # messages'[k] /\ (drops = 0 => messages'[j] < messages'[k])
      <3>1. j \in DOMAIN messages
        BY <2>2, <2>3, <2>5
      <3>2. CASE k \in DOMAIN messages
        BY <2>3, <2>5, <3>1, <3>2 DEF MessagesInv, NoMessageTwice
      <3>3. CASE k = Len(messages) + 1
        <4>1. messages'[j] \in ToSet(messages) /\ messages'[k] = m
          BY <2>3, <2>4, <3>1, <3>3
        <4>2. drops = 0 => Above(m, ToSet(messages))
          BY <2>1, <2>3 DEF MessagesInv, FirstShown
        <4> QED BY <2>3, <4>1, <4>2 DEF Above
      <3> QED BY <2>3, <3>2, <3>3
    <2>6. NoMessageTwice' /\ PageIsOrdered'
      BY <1>1, <2>5 DEF MessagesInv, NoMessageTwice, PageIsOrdered, Descending
    <2>7. ASSUME drops = 0 PROVE FirstShown' /\ FirstLoads'
      <3>1. FirstShown /\ FirstLoads /\ m >= messageCursor /\ Above(m, ToSet(messages))
        BY <2>1, <2>3, <2>7 DEF MessagesInv, FirstShown
      <3>2. \A i \in Carried("message")' : Above(i, ToSet(messages)) => Above(i, ToSet(messages'))
        BY <2>1, <2>3 DEF Above
      <3>3. FirstShown'
        <4>1. \A i \in ToSet(messages') : i >= messageCursor
          BY <2>3, <3>1 DEF FirstShown
        <4>2. \A i \in Carried("message")' :
                i >= messageCursor /\ (i \in ToSet(messages') \/ Above(i, ToSet(messages')))
          BY <2>1, <2>3, <3>1, <3>2 DEF FirstShown
        <4> QED BY <1>1, <4>1, <4>2 DEF FirstShown
      <3>4. link # "connecting"
        BY DEF OnMessage
      <3>5. messageLoad # NoLoad /\ messageLoad.initial =>
              \A i \in Carried("message")' : Above(i, ToSet(messages'))
        BY <2>1, <3>1, <3>2 DEF FirstLoads
      <3>6. FirstLoads'
        BY <1>1, <2>1, <3>1, <3>4, <3>5 DEF FirstLoads
      <3> QED BY <3>3, <3>6
    <2> QED BY <1>1, <1>4, <2>6, <2>7 DEF MessagesInv
  <1> QED BY <1>5, <1>6

(* A load starts: the first page when nothing is shown, another at the cursor. *)
LEMMA SentMessages ==
  ASSUME NEW initial \in BOOLEAN, NEW before,
         messageLoad' = [step |-> "sent", initial |-> initial, before |-> before]
  PROVE  /\ messageLoad'.step = "sent" /\ messageLoad'.initial = initial
         /\ messageLoad'.before = before /\ messageLoad' # NoLoad
  <1>1. messageLoad'.step # NoLoad.step
    BY DEF NoLoad
  <1> QED BY <1>1

LEMMA LoadStarts ==
  ASSUME FirstShown, FirstLoads, UNCHANGED <<messages, messageCursor>>,
         Carried("message")' = Carried("message"), link' = "open",
         messageLoad'.step = "sent",
         messageLoad'.before = IF messageLoad'.initial THEN 0 ELSE messageCursor,
         messageLoad'.initial => messages = <<>> /\ messageCursor = 0,
         ~messageLoad'.initial => messageCursor # 0
  PROVE  FirstShown' /\ FirstLoads'
  <1>1. FirstShown'
    BY DEF FirstShown
  <1>2. messageLoad'.initial => \A m \in Carried("message") : Above(m, ToSet(messages))
    BY DEF Above, ToSet
  <1>3. FirstLoads'
    BY <1>2 DEF FirstLoads
  <1> QED BY <1>1, <1>3

LEMMA OnOpenShows == ASSUME TypeInv, MessagesInv, OnOpen PROVE MessagesInv'
  <1>1. /\ link = "connecting" /\ link' = "open"
        /\ messageLoad' = Request(messageLoad, TRUE, messageCursor)
        /\ UNCHANGED <<log, down, messages, messageCursor, drops>>
    BY DEF OnOpen, server
  <1>2. FramesAreLatest' /\ Carried("message")' = Carried("message")
    BY <1>1, StillFrames DEF MessagesInv
  <1>3. NoMessageTwice'
    BY <1>1 DEF MessagesInv, NoMessageTwice
  <1>4. CASE messageLoad = NoLoad
    <2>1. messageLoad' = [step |-> "sent", initial |-> TRUE, before |-> 0]
      BY <1>1, <1>4 DEF Request
    <2>2. messageLoad'.step = "sent" /\ messageLoad'.initial = TRUE /\ messageLoad'.before = 0
      BY <2>1, SentMessages
    <2>3. PageIsOrdered'
      BY <2>2 DEF PageIsOrdered
    <2>4. drops = 0 => FirstShown /\ FirstLoads /\ messages = <<>> /\ messageCursor = 0
      BY <1>1 DEF MessagesInv, FirstLoads
    <2>5. drops = 0 => FirstShown' /\ FirstLoads'
      BY <1>1, <1>2, <2>2, <2>4, LoadStarts
    <2> QED BY <1>1, <1>2, <1>3, <2>3, <2>5 DEF MessagesInv
  <1>5. CASE messageLoad # NoLoad
    <2>1. messageLoad' = messageLoad
      BY <1>1, <1>5 DEF Request
    <2>2. PageIsOrdered'
      BY <2>1 DEF MessagesInv, PageIsOrdered
    <2>3. drops # 0
      BY <1>1, <1>5 DEF MessagesInv, FirstLoads
    <2> QED BY <1>1, <1>2, <1>3, <2>2, <2>3 DEF MessagesInv
  <1> QED BY <1>4, <1>5

LEMMA LoadMoreShows == ASSUME TypeInv, MessagesInv, LoadMoreMessages PROVE MessagesInv'
  <1>1. /\ messageCursor # 0 /\ messageLoad = NoLoad
        /\ messageLoad' = Request(messageLoad, FALSE, messageCursor)
        /\ UNCHANGED <<log, down, link, messages, messageCursor, drops>>
    BY DEF LoadMoreMessages, server
  <1>2. FramesAreLatest' /\ Carried("message")' = Carried("message")
    BY <1>1, StillFrames DEF MessagesInv
  <1>3. NoMessageTwice'
    BY <1>1 DEF MessagesInv, NoMessageTwice
  <1>4. messageLoad' = [step |-> "sent", initial |-> FALSE, before |-> messageCursor]
    BY <1>1 DEF Request
  <1>5. /\ messageLoad'.step = "sent" /\ messageLoad'.initial = FALSE
        /\ messageLoad'.before = messageCursor
    BY <1>4, SentMessages
  <1>6. PageIsOrdered'
    BY <1>5 DEF PageIsOrdered
  <1>7. drops = 0 => FirstShown /\ FirstLoads /\ link = "open"
    BY <1>1 DEF MessagesInv, FirstLoads, TypeInv, LinkIsTyped
  <1>8. drops = 0 => FirstShown' /\ FirstLoads'
    BY <1>1, <1>2, <1>5, <1>7, LoadStarts
  <1> QED BY <1>1, <1>2, <1>3, <1>6, <1>8 DEF MessagesInv

(* A first page has whatever is under way: less than a page of messages is newer. *)
LEMMA FirstPageHasFrames ==
  ASSUME TypeInv, FramesAreLatest, NEW m \in Carried("message")
  PROVE  m \in Conversation /\ Cardinality(Newer(Conversation, m)) < PageSize
  <1>1. Carried("message") \subseteq Conversation /\ \A i \in Conversation : i \in Nat
    BY MessageFacts
  <1>2. Newer(Conversation, m) \subseteq Carried("message") /\ m \notin Newer(Conversation, m)
    BY <1>1 DEF FramesAreLatest, Newer
  <1>3. IsFiniteSet(Carried("message")) /\ Cardinality(Carried("message")) \in Nat
    BY CarriedIsFinite DEF TypeInv
  <1>4. /\ Cardinality(Newer(Conversation, m)) \in Nat
        /\ Cardinality(Newer(Conversation, m)) < Cardinality(Carried("message"))
    <2>1. Newer(Conversation, m) # Carried("message")
      BY <1>2
    <2> DEFINE A == Newer(Conversation, m)
               B == Carried("message")
    <2>2. A \in SUBSET B /\ A # B /\ IsFiniteSet(B) /\ Cardinality(B) \in Nat
      BY <1>2, <1>3, <2>1
    <2> HIDE DEF A, B
    <2>3. IsFiniteSet(A) /\ Cardinality(A) <= Cardinality(B) /\ (Cardinality(A) = Cardinality(B) => A = B)
      BY <2>2, FS_Subset
    <2>4. Cardinality(A) \in Nat
      BY <2>3, FS_CardinalityType
    <2> QED BY <2>2, <2>3, <2>4 DEF A, B
  <1>5. Cardinality(Carried("message")) <= PageSize /\ PageSize \in Nat
    BY ObserverAssumption DEF FramesAreLatest
  <1> QED BY <1>1, <1>3, <1>4, <1>5

LEMMA AnswerShows == ASSUME TypeInv, MessagesInv, AnswerMessages PROVE MessagesInv'
  <1>1. /\ messageLoad.step = "sent"
        /\ messageLoad' = [step |-> "answered", initial |-> messageLoad.initial,
                           page |-> PageMessages(messageLoad.before)]
        /\ UNCHANGED <<log, down, link, messages, messageCursor, drops>>
    BY DEF AnswerMessages, server
  <1>2. FramesAreLatest' /\ Carried("message")' = Carried("message")
    BY <1>1, StillFrames DEF MessagesInv
  <1>3. NoMessageTwice'
    BY <1>1 DEF MessagesInv, NoMessageTwice
  <1>4. PICK before \in Nat, initial \in BOOLEAN :
          before = messageLoad.before /\ initial = messageLoad.initial
    BY <1>1 DEF TypeInv, MessageLoadIsTyped, MessageLoads, NoLoad
  <1>5. PICK items \in Seq(Nat), next \in 0..Len(log) :
          /\ PageMessages(before) = [items |-> items, next |-> next]
          /\ Descending(items) /\ ToSet(items) \subseteq Conversation
          /\ \A i \in ToSet(items) : i >= next /\ (before = 0 \/ i < before)
          /\ next = 0 \/ next \in ToSet(items)
          /\ \A i \in Conversation :
               /\ before = 0
               /\ Cardinality(Newer(Conversation, i)) < PageSize
               => i \in ToSet(items)
    BY PageMessagesFacts DEF TypeInv
  <1>6. /\ messageLoad'.step = "answered" /\ messageLoad'.initial = initial
        /\ messageLoad'.page.items = items /\ messageLoad'.page.next = next
    BY <1>1, <1>4, <1>5
  <1>7. PageIsOrdered'
    BY <1>5, <1>6 DEF PageIsOrdered, Descending
  <1>8. ASSUME drops = 0 PROVE FirstShown' /\ FirstLoads'
    <2>1. FirstShown /\ FirstLoads
      BY <1>8 DEF MessagesInv
    <2>2. FirstShown'
      BY <1>1, <1>2, <2>1 DEF FirstShown
    <2>3. /\ before = IF initial THEN 0 ELSE messageCursor
          /\ initial => messageCursor = 0 /\ \A m \in Carried("message") : Above(m, ToSet(messages))
          /\ ~initial => messageCursor # 0
          /\ link # "closed" /\ link # "connecting"
      <3>1. messageLoad # NoLoad
        BY <1>1 DEF NoLoad
      <3> QED BY <1>1, <1>4, <2>1, <3>1 DEF FirstLoads
    <2>4. initial => \A m \in Carried("message") : m \in ToSet(items) /\ m >= next
      <3> SUFFICES ASSUME initial, NEW m \in Carried("message") PROVE m \in ToSet(items)
        BY <1>5
      <3> QED BY <1>5, <2>3, FirstPageHasFrames DEF MessagesInv
    <2>5. ~initial => next <= messageCursor /\ \A i \in ToSet(items) : i < messageCursor
      <3>1. messageCursor \in Nat /\ Len(log) \in Nat /\ \A i \in Conversation : i \in Nat
        BY MessageFacts
      <3>2. ~initial => \A i \in ToSet(items) : i < messageCursor
        BY <1>5, <2>3
      <3> QED BY <1>5, <3>1, <3>2
    <2>6. FirstLoads'
      BY <1>1, <1>2, <1>6, <2>3, <2>4, <2>5 DEF FirstLoads
    <2> QED BY <2>2, <2>6
  <1> QED BY <1>1, <1>2, <1>3, <1>7, <1>8 DEF MessagesInv

(* Two sequences of messages in one. *)
LEMMA OrderedConcatenated ==
  ASSUME NEW s \in Seq(Nat), NEW t \in Seq(Nat)
  PROVE  /\ ToSet(s \o t) = ToSet(s) \union ToSet(t)
         /\ Unrepeated(s) /\ Unrepeated(t) /\ ToSet(s) \intersect ToSet(t) = {} => Unrepeated(s \o t)
         /\ Ascending(s) /\ Ascending(t) /\ (\A i \in ToSet(s), j \in ToSet(t) : i < j)
              => Ascending(s \o t)
  <1> DEFINE S == Nat
             c == s \o t
  <1>1. s \in Seq(S) /\ t \in Seq(S)
    OBVIOUS
  <1> HIDE DEF S
  <1>2. /\ DOMAIN s = 1..Len(s) /\ DOMAIN t = 1..Len(t) /\ Len(s) \in Nat /\ Len(t) \in Nat
        /\ DOMAIN c = 1..(Len(s) + Len(t))
        /\ \A k \in DOMAIN s : k \in DOMAIN c /\ c[k] = s[k]
        /\ \A k \in DOMAIN t : Len(s) + k \in DOMAIN c /\ c[Len(s) + k] = t[k]
        /\ \A i \in DOMAIN c : \/ i \in DOMAIN s /\ c[i] = s[i]
                               \/ /\ i > Len(s) /\ i - Len(s) \in DOMAIN t
                                  /\ c[i] = t[i - Len(s)]
    <2>1. /\ DOMAIN s = 1..Len(s) /\ DOMAIN t = 1..Len(t) /\ Len(s) \in Nat /\ Len(t) \in Nat
          /\ DOMAIN c = 1..(Len(s) + Len(t))
      BY <1>1, Concatenated
    <2>2. \A k \in DOMAIN s : k \in DOMAIN c /\ c[k] = s[k]
      BY <1>1, Concatenated
    <2>3. \A k \in DOMAIN t : Len(s) + k \in DOMAIN c /\ c[Len(s) + k] = t[k]
      BY <1>1, Concatenated
    <2>4. \A i \in DOMAIN c : \/ i \in DOMAIN s /\ c[i] = s[i]
                              \/ /\ i > Len(s) /\ i - Len(s) \in DOMAIN t
                                 /\ c[i] = t[i - Len(s)]
      BY <1>1, Concatenated
    <2> QED BY <2>1, <2>2, <2>3, <2>4
  <1> HIDE DEF c
  <1>3. \A k \in DOMAIN s : s[k] \in ToSet(s)
    BY DEF ToSet
  <1>4. \A k \in DOMAIN t : t[k] \in ToSet(t)
    BY DEF ToSet
  <1>5. ToSet(c) = ToSet(s) \union ToSet(t)
    <2>1. ToSet(s) \subseteq ToSet(c) /\ ToSet(t) \subseteq ToSet(c)
      BY <1>2 DEF ToSet
    <2>2. \A i \in DOMAIN c : c[i] \in ToSet(s) \/ c[i] \in ToSet(t)
      BY <1>2, <1>3, <1>4
    <2>3. ToSet(c) \subseteq ToSet(s) \union ToSet(t)
      BY <2>2 DEF ToSet
    <2> QED BY <2>1, <2>3
  <1>6. ASSUME NEW i \in DOMAIN c, NEW j \in DOMAIN c, i < j
        PROVE  \/ i \in DOMAIN s /\ j \in DOMAIN s /\ c[i] = s[i] /\ c[j] = s[j]
               \/ /\ c[i] \in ToSet(s) /\ c[j] \in ToSet(t)
               \/ /\ i - Len(s) \in DOMAIN t /\ j - Len(s) \in DOMAIN t /\ i - Len(s) < j - Len(s)
                  /\ c[i] = t[i - Len(s)] /\ c[j] = t[j - Len(s)]
    BY <1>2, <1>3, <1>4, <1>6
  <1>7. Unrepeated(s) /\ Unrepeated(t) /\ ToSet(s) \intersect ToSet(t) = {} => Unrepeated(c)
    BY <1>6 DEF Unrepeated
  <1>8. Ascending(s) /\ Ascending(t) /\ (\A i \in ToSet(s), j \in ToSet(t) : i < j) => Ascending(c)
    BY <1>6 DEF Ascending
  <1> QED BY <1>5, <1>7, <1>8 DEF c

LEMMA AscendingUnrepeated ==
  ASSUME NEW s \in Seq(Nat), Ascending(s)
  PROVE  Unrepeated(s)
  <1>1. \A k \in DOMAIN s : s[k] \in Nat
    BY LenProperties
  <1> QED BY <1>1 DEF Ascending, Unrepeated

(* A page arrives: the first in place of what is shown, another before it. *)
LEMMA ShowMessagesShows == ASSUME TypeInv, MessagesInv, ShowMessages PROVE MessagesInv'
  <1> DEFINE items   == messageLoad.page.items
             next    == messageLoad.page.next
             initial == messageLoad.initial
             fresh   == Fresh(items)
  <1>1. /\ messageLoad.step = "answered"
        /\ messageCursor' = next
        /\ messages' = MessagesPage(items, initial)
        /\ messageLoad' = NoLoad
        /\ UNCHANGED <<log, down, link, drops>>
    BY DEF ShowMessages, server
  <1>2. FramesAreLatest' /\ Carried("message")' = Carried("message")
    BY <1>1, StillFrames DEF MessagesInv
  <1>3. PageIsOrdered'
    BY <1>1 DEF PageIsOrdered, NoLoad
  <1>4. /\ messages \in Seq(Nat) /\ items \in Seq(Nat) /\ next \in Nat
        /\ ToSet(messages) \subseteq Nat /\ ToSet(items) \subseteq Nat /\ messageCursor \in Nat
    BY <1>1, MessageFacts
  <1>5. Descending(items) /\ \A i \in ToSet(items) : i >= next
    BY <1>1 DEF MessagesInv, PageIsOrdered
  <1>6. /\ fresh \in Seq(Nat) /\ ToSet(fresh) = ToSet(items) \ ToSet(messages)
        /\ Ascending(fresh) /\ Unrepeated(fresh)
    <2>1. fresh \in Seq(Nat) /\ ToSet(fresh) = ToSet(items) \ ToSet(messages) /\ Ascending(fresh)
      BY <1>4, <1>5, FreshFacts
    <2> QED BY <2>1, AscendingUnrepeated
  <1>7. (initial => messages' = fresh) /\ (~initial => messages' = fresh \o messages)
    BY <1>1, <1>4, MessagesPageFacts
  <1>8. Unrepeated(messages) /\ (drops = 0 => Ascending(messages))
    BY DEF MessagesInv, NoMessageTwice, Unrepeated, Ascending
  <1>9. drops = 0 => /\ initial => \A m \in Carried("message") :
                          /\ Above(m, ToSet(messages))
                          /\ m >= next /\ (m \in ToSet(items) \/ Above(m, ToSet(items)))
                     /\ ~initial => next <= messageCursor /\ \A i \in ToSet(items) : i < messageCursor
                     /\ \A i \in ToSet(messages) : i >= messageCursor
                     /\ \A m \in Carried("message") :
                          m >= messageCursor /\ (m \in ToSet(messages) \/ Above(m, ToSet(messages)))
                     /\ link # "closed" /\ link # "connecting"
    <2>1. messageLoad # NoLoad
      BY <1>1 DEF NoLoad
    <2> QED BY <1>1, <2>1 DEF MessagesInv, FirstShown, FirstLoads
  <1>10. Carried("message") \subseteq Nat
    BY MessageFacts
  <1> HIDE DEF items, next, initial, fresh
  <1>11. CASE initial
    <2>1. messages' = fresh
      BY <1>7, <1>11
    <2>2. NoMessageTwice'
      BY <1>1, <1>6, <2>1 DEF NoMessageTwice, Unrepeated, Ascending
    <2>3. ASSUME drops = 0 PROVE FirstShown' /\ FirstLoads'
      <3>1. \A m \in ToSet(fresh) : m >= next
        BY <1>5, <1>6
      <3>2. ASSUME NEW m \in Carried("message")
            PROVE  m >= next /\ (m \in ToSet(fresh) \/ Above(m, ToSet(fresh)))
        <4>1. /\ m >= next /\ (m \in ToSet(items) \/ Above(m, ToSet(items)))
              /\ Above(m, ToSet(messages))
          BY <1>9, <1>11, <2>3, <3>2
        <4>2. m \notin ToSet(messages)
          BY <1>10, <4>1 DEF Above
        <4> QED BY <1>6, <4>1, <4>2 DEF Above
      <3>3. FirstShown'
        BY <1>1, <1>2, <2>1, <3>1, <3>2 DEF FirstShown
      <3>4. FirstLoads'
        BY <1>1, <1>9, <2>3 DEF FirstLoads, NoLoad
      <3> QED BY <3>3, <3>4
    <2> QED BY <1>1, <1>2, <1>3, <2>2, <2>3 DEF MessagesInv
  <1>12. CASE ~initial
    <2>1. messages' = fresh \o messages
      BY <1>7, <1>12
    <2>2. /\ ToSet(messages') = ToSet(fresh) \union ToSet(messages)
          /\ Unrepeated(messages')
          /\ (\A i \in ToSet(fresh), j \in ToSet(messages) : i < j) /\ Ascending(messages)
               => Ascending(messages')
      <3>1. ToSet(fresh) \intersect ToSet(messages) = {}
        BY <1>6
      <3> QED BY <1>4, <1>6, <1>8, <2>1, <3>1, OrderedConcatenated
    <2>3. drops = 0 => Ascending(messages')
      <3>1. drops = 0 => \A i \in ToSet(fresh), j \in ToSet(messages) : i < j
        BY <1>4, <1>6, <1>9, <1>12
      <3> QED BY <1>8, <2>2, <3>1
    <2>4. NoMessageTwice'
      BY <1>1, <2>2, <2>3 DEF NoMessageTwice, Unrepeated, Ascending
    <2>5. ASSUME drops = 0 PROVE FirstShown' /\ FirstLoads'
      <3>1. \A m \in ToSet(messages') : m >= next
        BY <1>4, <1>5, <1>6, <1>9, <1>12, <2>2, <2>5
      <3>2. ASSUME NEW m \in Carried("message")
            PROVE  m >= next /\ (m \in ToSet(messages') \/ Above(m, ToSet(messages')))
        <4>1. /\ m >= messageCursor /\ (m \in ToSet(messages) \/ Above(m, ToSet(messages)))
              /\ next <= messageCursor /\ \A i \in ToSet(fresh) : i < messageCursor
              /\ m \in Nat
          BY <1>6, <1>9, <1>10, <1>12, <2>5, <3>2
        <4>2. Above(m, ToSet(fresh))
          BY <1>4, <1>6, <4>1 DEF Above
        <4>3. m >= next
          BY <1>4, <4>1
        <4> QED BY <2>2, <4>1, <4>2, <4>3 DEF Above
      <3>3. FirstShown'
        BY <1>1, <1>2, <3>1, <3>2 DEF FirstShown
      <3>4. FirstLoads'
        BY <1>1, <1>9, <2>5 DEF FirstLoads, NoLoad
      <3> QED BY <3>3, <3>4
    <2> QED BY <1>1, <1>2, <1>3, <2>4, <2>5 DEF MessagesInv
  <1> QED BY <1>11, <1>12

LEMMA LoadFailsShows == ASSUME TypeInv, MessagesInv, LoadFails PROVE MessagesInv'
  <1>1. /\ UNCHANGED <<log, down, link, messages, messageCursor, drops>>
        /\ messageLoad' \in {messageLoad, NoLoad}
    BY DEF LoadFails, server
  <1>2. FramesAreLatest' /\ Carried("message")' = Carried("message")
    BY <1>1, StillFrames DEF MessagesInv
  <1>3. CASE messageLoad' = messageLoad
    BY <1>1, <1>2, <1>3, QuietShows
  <1>4. CASE messageLoad' = NoLoad
    <2>1. messageLoad'.step = "none"
      BY <1>4 DEF NoLoad
    <2>2. NoMessageTwice' /\ PageIsOrdered'
      BY <1>1, <2>1 DEF MessagesInv, NoMessageTwice, PageIsOrdered
    <2>3. drops = 0 => FirstShown' /\ FirstLoads'
      BY <1>1, <1>2, <1>4, <2>1 DEF MessagesInv, FirstShown, FirstLoads
    <2> QED BY <1>1, <1>2, <2>2, <2>3 DEF MessagesInv
  <1> QED BY <1>1, <1>3, <1>4

LEMMA NextShows == ASSUME TypeInv, MessagesInv, [Next]_vars PROVE MessagesInv'
  <1>1. ASSUME UNCHANGED <<log, down, messages, messageCursor, messageLoad, link, drops>>
        PROVE  MessagesInv'
    <2>1. FramesAreLatest' /\ Carried("message")' = Carried("message")
      BY <1>1, StillFrames DEF MessagesInv
    <2> QED BY <1>1, <2>1, QuietShows
  <1>2. FramesAreTyped'
    BY NextTypes DEF TypeInv
  <1>3. CASE Serve
    <2>1. UNCHANGED <<link, view, drops>> /\ Cardinality(Coming("message"))' <= PageSize
      BY <1>3 DEF Serve
    <2>2. \/ UNCHANGED <<log, down>>
          \/ Publish(Reply) \/ Publish(Other) \/ Flush
      BY <1>3 DEF Serve, Work, Tick, CreateTask, UpdateTask, Consume, PublishReply, PublishOther
    <2>3. Reply \in Int /\ Other \in Int
      BY DEF Reply, Other
    <2>4. UNCHANGED <<log, down>> => MessagesInv'
      BY <1>1, <2>1 DEF view, lists
    <2> QED BY <1>2, <2>1, <2>2, <2>3, <2>4, PublishShows, FlushShows
  <1>4. CASE OnPrincipalMessage
    <2>1. PICK e \in 1..MaxTyped : Publish(e)
      BY <1>4, PrincipalMessageFacts
    <2>2. UNCHANGED <<link, view, drops>> /\ Cardinality(Coming("message"))' <= PageSize
      BY <1>4, PrincipalMessageFacts
    <2>3. e \in Int
      BY DashboardAssumption
    <2> QED BY <1>2, <2>1, <2>2, <2>3, PublishShows
  <1>5. CASE LoadMoreTasks \/ AnswerTasks \/ ShowTasks \/ Submit \/ PrincipalMessageFails \/ UNCHANGED vars
    BY <1>1, <1>5 DEF LoadMoreTasks, AnswerTasks, ShowTasks, Submit, PrincipalMessageFails, server,
                      view, lists, vars
  <1> QED BY <1>3, <1>4, <1>5, ConnectShows, OnOpenShows, OnMessageShows, OnCloseShows, ReconnectShows,
             LoadMoreShows, AnswerShows, ShowMessagesShows, LoadFailsShows
          DEF Next

LEMMA StartsShown == ASSUME Init PROVE MessagesInv
  <1>1. /\ down = <<>> /\ messages = <<>> /\ messageCursor = 0 /\ messageLoad = NoLoad
        /\ link = "connecting"
    BY DEF Init, ObserverInit
  <1>2. Coming("message") = {} /\ Carried("message") = {} /\ ToSet(messages) = {}
    BY <1>1 DEF Coming, Carried, ToSet
  <1>3. Cardinality(Carried("message")) <= PageSize
    BY <1>2, FS_EmptySet, ObserverAssumption
  <1> QED BY <1>1, <1>2, <1>3
          DEF MessagesInv, NoMessageTwice, FramesAreLatest, InOrder, PageIsOrdered, FirstShown,
              FirstLoads, NoLoad

(* No message is shown twice, and on the first connection the conversation is
   oldest first, whichever of its pages and its frames come first
   (use-xevos-stream.ts appendMessage, messagesPage), for any number of messages,
   pages, failures and connections and any size of a page. *)
THEOREM MessagesAreShownOnce == Spec => []NoMessageTwice
  <1>1. Init => MessagesInv
    BY StartsShown
  <1>2. TypeInv /\ MessagesInv /\ [Next]_vars => MessagesInv'
    BY NextShows
  <1>3. MessagesInv => NoMessageTwice
    BY DEF MessagesInv
  <1> QED BY <1>1, <1>2, <1>3, Typing, PTL DEF Spec

-----------------------------------------------------------------------------
(* The organization shown *)

(* Unless a flush is scheduled, an org frame under way, and those behind it, tell
   of every event; or none is under way, and the last that came did.  A frame is
   built before some events and after others, hence not all of those under way. *)
OrgIsComing ==
  joined /\ ~timer =>
    \/ Coming("org") = {} /\ org.upTo = Len(log)
    \/ \E k \in Coming("org") : \A j \in Coming("org") : j >= k => down[j].org.upTo = Len(log)

LEMMA OrgFrameTellsAll == OrgFrame.kind = "org" /\ OrgFrame.org.upTo = Len(log)
  BY DEF OrgFrame, OrgState

(* A flush tells of every event published by now. *)
LEMMA FlushTells ==
  ASSUME TypeInv, Flush
  PROVE  OrgIsComing'
  <1>1. UNCHANGED <<log, joined>> /\ ServerTypeOK /\ FramesAreTyped
    BY DEF Flush, TypeInv
  <1>2. PICK frames \in Seq(FrameSet) :
          /\ down' = IF joined THEN down \o frames ELSE down
          /\ \A k \in DOMAIN frames : frames[k].kind = "org" => frames[k] = OrgFrame
          /\ 1 \in DOMAIN frames /\ frames[1] = OrgFrame
    BY <1>1, FlushFrames
  <1> SUFFICES ASSUME joined
               PROVE  \E k \in Coming("org")' : \A j \in Coming("org")' :
                        j >= k => down'[j].org.upTo = Len(log)
    BY <1>1 DEF OrgIsComing
  <1>3. down' = down \o frames /\ down \in Seq(FrameSet) /\ Len(down) \in Nat
    BY <1>1, <1>2, LenProperties DEF FramesAreTyped
  <1>4. /\ \A i \in Coming("org") : i <= Len(down)
        /\ \A i \in Coming("org")' :
             \/ i \in Coming("org")
             \/ /\ i - Len(down) \in DOMAIN frames
                /\ frames[i - Len(down)].kind = "org" /\ down'[i] = frames[i - Len(down)]
        /\ Len(down) + 1 \in Coming("org")'
    <2>1. PICK kind : kind = "org"
      OBVIOUS
    <2>2. /\ \A i \in Coming(kind) : i <= Len(down)
          /\ \A i \in Coming(kind)' :
               \/ i \in Coming(kind)
               \/ /\ i - Len(down) \in DOMAIN frames
                  /\ frames[i - Len(down)].kind = kind /\ down'[i] = frames[i - Len(down)]
          /\ \A k \in DOMAIN frames : frames[k].kind = kind => Len(down) + k \in Coming(kind)'
      BY <1>3, FramesAppended
    <2> QED BY <1>2, <2>1, <2>2, OrgFrameTellsAll
  <1>5. ASSUME NEW j \in Coming("org")', j >= Len(down) + 1
        PROVE  down'[j].org.upTo = Len(log)
    <2>1. j \notin Coming("org")
      <3>1. j \in Coming("org") => j \in Nat /\ j <= Len(down)
        BY <1>3, <1>4, LenProperties DEF Coming
      <3> QED BY <1>3, <1>5, <3>1
    <2>2. down'[j] = OrgFrame
      BY <1>2, <1>4, <2>1
    <2> QED BY <2>2, OrgFrameTellsAll
  <1> QED BY <1>4, <1>5

(* The first frame arrives: the one that tells of every event, or one before. *)
LEMMA OnMessageTells == ASSUME TypeInv, OrgIsComing, OnMessage PROVE OrgIsComing'
  <1>1. /\ down # <<>> /\ down' = Tail(down) /\ UNCHANGED <<log, joined, timer>>
        /\ Head(down).kind = "org" => org' = Head(down).org
        /\ Head(down).kind # "org" => org' = org
    <2>1. Head(down) \in FrameSet
      BY TailFacts DEF TypeInv, OnMessage
    <2> QED BY <2>1 DEF OnMessage, FrameSet
  <1>2. /\ Head(down) = down[1] /\ 1 \in DOMAIN down
        /\ \A k \in DOMAIN down' : k + 1 \in DOMAIN down /\ k >= 1 /\ down'[k] = down[k + 1]
        /\ \A k \in DOMAIN down : k \in Nat /\ (k = 1 \/ (k > 1 /\ k - 1 \in DOMAIN down' /\ down'[k - 1] = down[k]))
        /\ DOMAIN down' \subseteq Nat
    <2>1. down' \in Seq(FrameSet)
      BY <1>1, TailFacts DEF TypeInv
    <2>2. DOMAIN down' \subseteq Nat
      BY <2>1, LenProperties
    <2> QED BY <1>1, <2>2, TailFacts DEF TypeInv
  <1>3. /\ \A k \in Coming("org")' : k \in Nat /\ k + 1 \in Coming("org") /\ down'[k] = down[k + 1]
        /\ \A k \in Coming("org") : k \in Nat /\ (k = 1 \/ (k > 1 /\ k - 1 \in Coming("org")' /\ down'[k - 1] = down[k]))
        /\ 1 \in Coming("org") <=> Head(down).kind = "org"
    BY <1>2 DEF Coming
  <1> SUFFICES ASSUME joined, ~timer
               PROVE  \/ Coming("org")' = {} /\ org'.upTo = Len(log)
                      \/ \E k \in Coming("org")' : \A j \in Coming("org")' :
                           j >= k => down'[j].org.upTo = Len(log)
    BY <1>1 DEF OrgIsComing
  <1>4. CASE Coming("org") = {}
    BY <1>1, <1>3, <1>4 DEF OrgIsComing
  <1>5. CASE Coming("org") # {}
    <2>1. PICK k \in Coming("org") : \A j \in Coming("org") : j >= k => down[j].org.upTo = Len(log)
      BY <1>5 DEF OrgIsComing
    <2>2. ASSUME NEW j \in Coming("org")', j + 1 >= k PROVE down'[j].org.upTo = Len(log)
      BY <1>3, <2>1, <2>2
    <2>3. CASE k = 1
      <3>1. \A j \in Coming("org")' : down'[j].org.upTo = Len(log)
        BY <1>3, <2>2, <2>3
      <3>2. org'.upTo = Len(log)
        BY <1>1, <1>2, <1>3, <2>1, <2>3
      <3> QED BY <3>1, <3>2
    <2>4. CASE k > 1
      <3>1. k \in Nat /\ k - 1 \in Coming("org")'
        BY <1>3, <2>4
      <3>2. ASSUME NEW j \in Coming("org")', j >= k - 1 PROVE down'[j].org.upTo = Len(log)
        BY <1>3, <2>2, <3>1, <3>2
      <3> QED BY <3>1, <3>2
    <2> QED BY <1>3, <2>3, <2>4
  <1> QED BY <1>4, <1>5

(* A new connection is seeded. *)
LEMMA ConnectTells == ASSUME Connect PROVE OrgIsComing'
  <1>1. down' = <<OrgFrame>> /\ log' = log
    BY DEF Connect, Accept
  <1>2. 1 \in Coming("org")' /\ \A j \in Coming("org")' : down'[j] = OrgFrame
    BY <1>1, OrgFrameTellsAll DEF Coming
  <1>3. \A j \in Coming("org")' : down'[j].org.upTo = Len(log)
    BY <1>2, OrgFrameTellsAll
  <1> QED BY <1>1, <1>2, <1>3 DEF OrgIsComing

LEMMA NextTells == ASSUME TypeInv, OrgIsComing, [Next]_vars PROVE OrgIsComing'
  <1>1. ASSUME UNCHANGED <<log, timer, joined, down, org>> PROVE OrgIsComing'
    BY <1>1 DEF OrgIsComing, Coming
  <1>2. ASSUME NEW e, Publish(e) PROVE OrgIsComing'
    BY <1>2 DEF Publish, ScheduleFlush, OrgIsComing
  <1>3. CASE Serve
    <2>1. UNCHANGED org
      BY <1>3 DEF Serve, view
    <2>2. UNCHANGED <<log, timer, joined, down>> \/ Publish(Reply) \/ Publish(Other) \/ Flush
      BY <1>3 DEF Serve, Work, Tick, CreateTask, UpdateTask, Consume, PublishReply, PublishOther
    <2> QED BY <1>1, <1>2, <2>1, <2>2, FlushTells
  <1>4. CASE OnPrincipalMessage
    BY <1>2, <1>4 DEF OnPrincipalMessage
  <1>5. CASE OnClose
    BY <1>5 DEF OnClose, Forget, OrgIsComing
  <1>6. CASE \/ OnOpen \/ Reconnect \/ LoadMoreTasks \/ LoadMoreMessages \/ AnswerTasks
             \/ AnswerMessages \/ ShowTasks \/ ShowMessages \/ LoadFails \/ Submit
             \/ PrincipalMessageFails \/ UNCHANGED vars
    BY <1>1, <1>6
    DEF OnOpen, Reconnect, LoadMoreTasks, LoadMoreMessages, AnswerTasks, AnswerMessages, ShowTasks,
        ShowMessages, LoadFails, Submit, PrincipalMessageFails, server, view, vars
  <1> QED BY <1>3, <1>4, <1>5, <1>6, OnMessageTells, ConnectTells DEF Next

(* At rest the tab shows the organization as of the last event (ws-server.ts flush
   and its onConnection, use-xevos-stream.ts), for any number of connections lost and
   of flushes broadcast while the tab was away. *)
THEOREM OrgIsToldAtRest == Spec => []OrgIsTold
  <1>1. Init => OrgIsComing
    BY DEF Init, ObserverInit, OrgIsComing
  <1>2. TypeInv /\ OrgIsComing /\ [Next]_vars => OrgIsComing'
    BY NextTells
  <1>3. TypeInv /\ OrgIsComing => OrgIsTold
    <2>1. down = <<>> => Coming("org") = {}
      BY DEF Coming
    <2> QED BY <2>1 DEF TypeInv, LinkIsTyped, OrgIsComing, OrgIsTold
  <1> QED BY <1>1, <1>2, <1>3, Typing, PTL DEF Spec

=============================================================================
