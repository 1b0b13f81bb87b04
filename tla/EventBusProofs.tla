--------------------------- MODULE EventBusProofs ---------------------------
(* Proofs about EventBus: the inductive invariant IInv, and from it the safety
   properties that MCEventBus.cfg checks on a small instance. *)
EXTENDS EventBus, SequenceTheorems, TLAPS

-----------------------------------------------------------------------------
(* Facts about the operators the actions are built from. *)

InboxRow == [target : Endpoints, event : Nat, status : {"pending", "consumed"}]

(* Acknowledging a row changes the status of that row and nothing else. *)
LEMMA AckFacts ==
  ASSUME TypeOK, NEW e \in Endpoints, inFlight[e] \in 1..Len(inbox), Ack(e)
  PROVE  /\ inbox' \in Seq(InboxRow)
         /\ Len(inbox') = Len(inbox)
         /\ \A r \in 1..Len(inbox) :
              /\ inbox'[r].target = inbox[r].target
              /\ inbox'[r].event = inbox[r].event
              /\ inbox'[r].status = IF r = inFlight[e] THEN "consumed"
                                    ELSE inbox[r].status
  <1>1. inbox \in Seq(InboxRow)
    BY DEF TypeOK, InboxRow
  <1> DEFINE row == [inbox[inFlight[e]] EXCEPT !.status = "consumed"]
  <1>2. inbox[inFlight[e]] \in InboxRow
    BY <1>1
  <1>3. row \in InboxRow /\ row.status = "consumed"
        /\ row.target = inbox[inFlight[e]].target /\ row.event = inbox[inFlight[e]].event
    BY <1>2 DEF InboxRow
  <1>4. inbox' = [inbox EXCEPT ![inFlight[e]] = row]
    BY <1>1, <1>2 DEF Ack
  <1>5. inbox' \in Seq(InboxRow) /\ Len(inbox') = Len(inbox)
        /\ \A r \in 1..Len(inbox) : inbox'[r] = IF r = inFlight[e] THEN row ELSE inbox[r]
    <2> HIDE DEF row
    <2> QED BY <1>1, <1>3, <1>4, ExceptSeq
  <1> QED BY <1>3, <1>5

(* The value of maxSeq() is a number. *)
LEMMA MaxSeqOfNumberedLog ==
  ASSUME TypeOK, \A i \in 1..Len(log) : log[i].seq = i
  PROVE  MaxSeq = Len(log)
  <1>1. CASE log = <<>>
    BY <1>1 DEF MaxSeq
  <1>2. CASE log # <<>>
    <2>1. Len(log) \in Nat /\ Len(log) > 0
      BY <1>2, EmptySeq DEF TypeOK
    <2> DEFINE S == {log[i].seq : i \in 1..Len(log)}
               P(n) == \A i \in 1..Len(log) : log[i].seq <= n
    <2>2. Len(log) \in S /\ P(Len(log))
      BY <2>1
    <2>3. \A n \in S : P(n) => n = Len(log)
      BY <2>1
    <2>4. MaxSeq = CHOOSE n \in S : P(n)
      BY <1>2 DEF MaxSeq
    <2>5. MaxSeq \in S /\ P(MaxSeq)
      <3> HIDE DEF S, P
      <3> QED BY <2>2, <2>4
    <2> QED BY <2>3, <2>5
  <1> QED BY <1>1, <1>2

(* push keeps the mailbox variables typed, and touches one endpoint only. *)
LEMMA PushFacts ==
  ASSUME TypeOK, NEW e \in Endpoints, NEW r \in Nat, Push(e, r)
  PROVE  /\ queue' \in [Endpoints -> Seq(Nat)]
         /\ waiter' \in [Endpoints -> BOOLEAN]
         /\ inFlight' \in [Endpoints -> Nat]
         /\ done' = done
         /\ \A d \in Endpoints \ {e} :
              queue'[d] = queue[d] /\ waiter'[d] = waiter[d] /\ inFlight'[d] = inFlight[d]
         /\ waiter[e] => queue'[e] = queue[e] /\ ~waiter'[e] /\ inFlight'[e] = r
         /\ ~waiter[e] => /\ inFlight'[e] = inFlight[e] /\ ~waiter'[e]
                          /\ Len(queue'[e]) = Len(queue[e]) + 1
                          /\ \A i \in 1..Len(queue'[e]) :
                               queue'[e][i] = IF i = Len(queue[e]) + 1 THEN r
                                              ELSE queue[e][i]
  <1>1. CASE waiter[e]
    <2>1. /\ queue' = queue /\ done' = done
          /\ waiter' = [waiter EXCEPT ![e] = FALSE]
          /\ inFlight' = [inFlight EXCEPT ![e] = r]
      BY <1>1 DEF Push
    <2>2. /\ waiter' \in [Endpoints -> BOOLEAN] /\ ~waiter'[e]
          /\ \A d \in Endpoints \ {e} : waiter'[d] = waiter[d]
      BY <2>1 DEF TypeOK
    <2>3. /\ inFlight' \in [Endpoints -> Nat] /\ inFlight'[e] = r
          /\ \A d \in Endpoints \ {e} : inFlight'[d] = inFlight[d]
      BY <2>1 DEF TypeOK
    <2> QED BY <1>1, <2>1, <2>2, <2>3 DEF TypeOK
  <1>2. CASE ~waiter[e]
    <2>1. queue[e] \in Seq(Nat)
      BY DEF TypeOK
    <2>2. queue' = [queue EXCEPT ![e] = Append(queue[e], r)]
          /\ UNCHANGED <<waiter, inFlight, done>>
      BY <1>2 DEF Push
    <2>3. queue'[e] = Append(queue[e], r)
      BY <2>2 DEF TypeOK
    <2>4. Append(queue[e], r) \in Seq(Nat)
          /\ Len(Append(queue[e], r)) = Len(queue[e]) + 1
          /\ \A i \in 1..Len(queue[e]) + 1 :
               Append(queue[e], r)[i] = IF i = Len(queue[e]) + 1 THEN r ELSE queue[e][i]
      BY <2>1, AppendProperties
    <2> QED BY <1>2, <2>2, <2>3, <2>4 DEF TypeOK
  <1> QED BY <1>1, <1>2

-----------------------------------------------------------------------------
(* What TypeOK says of the elements of the sequences. *)
LEMMA ElementFacts ==
  ASSUME TypeOK
  PROVE  /\ Len(log) \in Nat /\ Len(inbox) \in Nat /\ Len(handled) \in Nat
         /\ \A i \in 1..Len(log) : log[i].seq \in Nat
         /\ \A r \in 1..Len(inbox) : /\ inbox[r].target \in Endpoints
                                     /\ inbox[r].status \in {"pending", "consumed"}
         /\ \A r \in 1..Len(handled) : handled[r] \in Nat
         /\ \A e \in Endpoints : /\ queue[e] \in Seq(Nat) /\ Len(queue[e]) \in Nat
                                 /\ inFlight[e] \in Nat /\ joined[e] \in Nat
                                 /\ \A i \in 1..Len(queue[e]) : queue[e][i] \in Nat
  <1>1. /\ log \in Seq([seq : Nat, target : Endpoints])
        /\ inbox \in Seq(InboxRow)
        /\ handled \in Seq(Nat)
        /\ \A e \in Endpoints : queue[e] \in Seq(Nat) /\ inFlight[e] \in Nat /\ joined[e] \in Nat
    BY DEF TypeOK, InboxRow
  <1>2. \A i \in 1..Len(log) : log[i] \in [seq : Nat, target : Endpoints]
    BY <1>1, ElementOfSeq
  <1>3. \A r \in 1..Len(inbox) : inbox[r] \in InboxRow
    BY <1>1, ElementOfSeq
  <1>4. \A r \in 1..Len(handled) : handled[r] \in Nat
    BY <1>1, ElementOfSeq
  <1>5. \A e \in Endpoints : \A i \in 1..Len(queue[e]) : queue[e][i] \in Nat
    BY <1>1, ElementOfSeq
  <1> QED BY <1>1, <1>2, <1>3, <1>4, <1>5, LenProperties DEF InboxRow

(* The invariant holds initially, and each action preserves it. *)

LEMMA IInvInit == Init => IInv
  <1> SUFFICES ASSUME Init PROVE IInv
    OBVIOUS
  <1> USE DEF Init, ProcessDead
  <1>1. TypeOK
    BY EndpointsAssumption, EmptySeq DEF TypeOK, NoEvent, NoRow, Endpoints, Statuses
  <1>2. Len(log) = 0 /\ Len(inbox) = 0
    BY EmptySeq
  <1>3. LogIsNumbered /\ ConsumersMatchMailboxes /\ RowsAreHeld /\ InFlightComesFirst
        /\ HandledAfterEarlierConsumed
    BY <1>2 DEF LogIsNumbered, ConsumersMatchMailboxes, RowsAreHeld, InFlightComesFirst,
                HandledAfterEarlierConsumed, NoRow
  <1>4. SlotsAreOrderedRows /\ HandlingsAreCounted
    BY <1>2 DEF SlotsAreOrderedRows, SlotsInOrder, HandlingsAreCounted, NoRow
  <1> QED BY <1>1, <1>3, <1>4 DEF IInv, NoEvent

(* A pending row stays one when the inbox only grows. *)
LEMMA PendingRowStays ==
  ASSUME NEW q, NEW d, PendingRowOf(q, d),
         \A p \in 1..Len(inbox) : p \in 1..Len(inbox') /\ inbox'[p] = inbox[p]
  PROVE  PendingRowOf(q, d)'
  BY DEF PendingRowOf

(* An untouched mailbox keeps its slots in order while the inbox only grows. *)
LEMMA SlotsStayInOrder ==
  ASSUME NEW d \in Endpoints, SlotsInOrder(d),
         queue'[d] = queue[d], inFlight'[d] = inFlight[d],
         \A p \in 1..Len(inbox) : p \in 1..Len(inbox') /\ inbox'[p] = inbox[p]
  PROVE  SlotsInOrder(d)'
  BY DEF SlotsInOrder, PendingRowOf

(* A push to the mailbox of a live endpoint: the slots stay in order when the row
   is newer than every slot, nothing that was held is let go, the row is held. *)
LEMMA PushStep ==
  ASSUME IInv, NEW e \in Endpoints, NEW r \in Nat \ {NoRow}, Push(e, r),
         e \in subscribed, SlotsBelow(e, r),
         \A q \in 1..Len(inbox) : q \in 1..Len(inbox') /\ inbox'[q] = inbox[q],
         PendingRowOf(r, e)'
  PROVE  /\ \A d \in Endpoints : SlotsInOrder(d)' /\ Held(d) \ {NoRow} \subseteq Held(d)'
         /\ SlotsBelow(e, r + 1)'
         /\ r \in Held(e)'
         /\ inFlight'[e] # NoRow /\ ~waiter'[e]
         /\ waiter[e] => Held(e) = {NoRow} /\ queue'[e] = <<>> /\ inFlight'[e] = r
  <1>1. /\ TypeOK
        /\ \A d \in Endpoints : Len(queue[d]) \in Nat /\ inFlight[d] \in Nat
                             /\ \A i \in 1..Len(queue[d]) : queue[d][i] \in Nat
    BY ElementFacts DEF TypeOK, IInv
  <1>2. \A d \in Endpoints : SlotsInOrder(d)
    BY DEF IInv, SlotsAreOrderedRows
  <1>3. ASSUME NEW d \in Endpoints \ {e}
        PROVE  SlotsInOrder(d)' /\ Held(d) \ {NoRow} \subseteq Held(d)'
    <2>1. queue'[d] = queue[d] /\ inFlight'[d] = inFlight[d]
      BY <1>1, PushFacts
    <2> QED BY <1>2, <2>1, SlotsStayInOrder DEF Held
  <1>4. CASE waiter[e]
    <2>1. queue[e] = <<>> /\ inFlight[e] = NoRow /\ queue'[e] = <<>>
          /\ ~waiter'[e] /\ inFlight'[e] = r
      BY <1>1, <1>4, PushFacts DEF ConsumersMatchMailboxes, IInv
    <2>2. Len(queue[e]) = 0 /\ Len(queue'[e]) = 0
      BY <2>1, EmptySeq
    <2>3. Held(e) = {NoRow} /\ r \in Held(e)'
      BY <2>1, <2>2 DEF Held
    <2>4. SlotsInOrder(e)' /\ SlotsBelow(e, r + 1)'
      BY <2>1, <2>2 DEF SlotsInOrder, SlotsBelow
    <2>5. r # NoRow
      OBVIOUS
    <2> QED BY <1>3, <2>1, <2>3, <2>4, <2>5
  <1>5. CASE ~waiter[e]
    <2>1. /\ inFlight'[e] = inFlight[e] /\ ~waiter'[e]
          /\ Len(queue'[e]) = Len(queue[e]) + 1
          /\ \A i \in 1..Len(queue'[e]) :
               queue'[e][i] = IF i = Len(queue[e]) + 1 THEN r ELSE queue[e][i]
      BY <1>1, <1>5, PushFacts
    <2>2. inFlight[e] # NoRow
      BY <1>5 DEF ConsumersMatchMailboxes, IInv
    <2>3. PendingRowOf(inFlight[e], e)'
      BY <1>2, <2>2, <2>1, PendingRowStays DEF SlotsInOrder, PendingRowOf
    <2>4. ASSUME NEW i \in 1..Len(queue'[e])
          PROVE  PendingRowOf(queue[e][i], e)' /\ inFlight'[e] < queue'[e][i] /\ queue'[e][i] < r + 1
      <3>1. CASE i = Len(queue[e]) + 1
        <4>1. queue'[e][i] = r /\ inFlight[e] < r
          BY <3>1, <2>1 DEF SlotsBelow
        <4> QED BY <4>1, <2>1, <1>1 DEF PendingRowOf
      <3>2. CASE i # Len(queue[e]) + 1
        <4>1. i \in 1..Len(queue[e]) /\ queue'[e][i] = queue[e][i]
          BY <3>2, <1>1, <2>1
        <4>2. PendingRowOf(queue[e][i], e) /\ inFlight[e] < queue[e][i] /\ queue[e][i] < r
              /\ queue[e][i] \in Nat
          BY <4>1, <1>1, <1>2 DEF SlotsInOrder, SlotsBelow
        <4> QED BY <4>1, <4>2, <2>1 DEF PendingRowOf
      <3> QED BY <3>1, <3>2
    <2>5. ASSUME NEW i \in 1..Len(queue'[e]), NEW j \in 1..Len(queue'[e]), i < j
          PROVE  queue'[e][i] < queue'[e][j]
      <3>1. i \in 1..Len(queue[e]) /\ queue'[e][i] = queue[e][i] /\ queue[e][i] < r
        BY <2>5, <1>1, <2>1 DEF SlotsBelow
      <3>2. CASE j = Len(queue[e]) + 1
        BY <3>1, <3>2, <2>1
      <3>3. CASE j # Len(queue[e]) + 1
        <4>1. j \in 1..Len(queue[e])
          BY <3>3, <1>1, <2>1
        <4>2. queue'[e][j] = queue[e][j]
          BY <3>3, <2>1
        <4> QED BY <3>1, <4>1, <4>2, <2>5, <1>2 DEF SlotsInOrder
      <3> QED BY <3>2, <3>3
    <2>6. Held(e) \subseteq Held(e)' /\ r \in Held(e)'
      <3>1. \A i \in 1..Len(queue[e]) : i \in 1..Len(queue'[e]) /\ queue'[e][i] = queue[e][i]
        BY <1>1, <2>1
      <3>2. Len(queue[e]) + 1 \in 1..Len(queue'[e]) /\ queue'[e][Len(queue[e]) + 1] = r
        BY <1>1, <2>1
      <3> QED BY <2>1, <3>1, <3>2 DEF Held
    <2>7. SlotsInOrder(e)'
      BY <2>3, <2>4, <2>5 DEF SlotsInOrder
    <2>8. SlotsBelow(e, r + 1)'
      <3>1. inFlight'[e] < r + 1
        BY <1>1, <2>1 DEF SlotsBelow
      <3> QED BY <2>4, <3>1 DEF SlotsBelow
    <2> QED BY <1>3, <1>5, <2>1, <2>2, <2>6, <2>7, <2>8
  <1> QED BY <1>4, <1>5

(* A boot subscribes empty mailboxes and notes whose backlog it passes over. *)
LEMMA BootStep ==
  ASSUME IInv, Boot
  PROVE  IInv'
  <1> USE DEF IInv, Boot, durable
  <1>1. MaxSeq = Len(log)
    BY MaxSeqOfNumberedLog DEF LogIsNumbered
  <1>2. Len(log) \in Nat /\ Len(inbox) \in Nat
    BY DEF TypeOK
  <1>3. TypeOK'
    BY <1>1, <1>2, EmptySeq DEF TypeOK, Launched, NoRow, Endpoints
  <1>4. \A e \in Endpoints : /\ queue'[e] = <<>> /\ Len(queue'[e]) = 0
                             /\ waiter'[e] = (e \in Launched)
                             /\ inFlight'[e] = NoRow /\ ~done'[e] /\ joined'[e] = 0
    BY EmptySeq
  <1>5. LogIsNumbered'
    BY <1>1 DEF LogIsNumbered
  <1>6. ConsumersMatchMailboxes'
    <2>1. \A a \in Agents \cap subscribed' : roster'[a] \in {"active", "suspended"}
      BY EndpointsAssumption DEF Launched
    <2>2. \A e \in Endpoints : joined'[e] <= Len(inbox')
      BY <1>2, <1>4
    <2> QED BY <1>4, <2>1, <2>2 DEF ConsumersMatchMailboxes
  <1>7. SlotsAreOrderedRows'
    BY <1>4 DEF SlotsAreOrderedRows, SlotsInOrder, SlotsBelow, NoRow, TypeOK
  <1>8. RowsAreHeld'
    <2> SUFFICES ASSUME NEW r \in 1..Len(inbox)
                 PROVE  LET e == inbox[r].target
                        IN  /\ Pending(r) /\ e \notin subscribed' => e \in gap'
                            /\ joined'[e] = 0
      BY <1>2 DEF RowsAreHeld, Pending
    <2>1. inbox[r].target \in Endpoints
      BY ElementFacts
    <2> QED BY <1>4, <2>1 DEF Pending
  <1>9. HandlingsAreCounted'
    BY <1>4 DEF HandlingsAreCounted
  <1>10. InFlightComesFirst' /\ HandledAfterEarlierConsumed'
    BY <1>4 DEF InFlightComesFirst, HandledAfterEarlierConsumed
  <1> QED BY <1>3, <1>5, <1>6, <1>7, <1>8, <1>9, <1>10

(* One row of the recovery: pushed if it is pending and its endpoint is live. *)
LEMMA RecoverRowStep ==
  ASSUME IInv, RecoverRow
  PROVE  IInv'
  <1> USE DEF IInv
  <1>1. /\ recoverAt \in 1..Len(inbox) /\ recoverAt' = recoverAt + 1
        /\ UNCHANGED <<log, inbox, roster, phase, seq, publishing, subscribed,
                       handled, joined, gap, crashes>>
        /\ phase = "recovering" /\ TypeOK
    <2>1. TypeOK /\ Len(inbox) \in Nat
      BY ElementFacts
    <2>2. recoverAt \in Nat
      BY DEF TypeOK
    <2> QED BY <2>1, <2>2 DEF RecoverRow, durable, history
  <1> PICK r \in 1..Len(inbox) : r = recoverAt
    BY <1>1
  <1> PICK e \in Endpoints : e = inbox[r].target
    BY <1>1, ElementFacts
  <1> r \in Nat
    BY <1>1, ElementFacts
  <1>2. TypeOK'
    <2>1. recoverAt' \in Nat
      BY <1>1
    <2>2. CASE UNCHANGED mailbox
      BY <1>1, <2>1, <2>2 DEF TypeOK, mailbox
    <2>3. CASE Push(e, r)
      BY <1>1, <2>1, <2>3, PushFacts DEF TypeOK
    <2> QED BY <2>2, <2>3 DEF RecoverRow
  <1>3. LogIsNumbered' /\ HandledAfterEarlierConsumed'
    BY <1>1 DEF LogIsNumbered, HandledAfterEarlierConsumed
  <1>4. \A d \in Endpoints : SlotsBelow(d, r) /\ SlotsInOrder(d)
    BY <1>1 DEF SlotsAreOrderedRows
  <1>5. CASE ~(Pending(r) /\ e \in subscribed)
    <2>1. UNCHANGED mailbox
      BY <1>5 DEF RecoverRow
    <2>2. ConsumersMatchMailboxes' /\ InFlightComesFirst' /\ HandlingsAreCounted'
      BY <1>1, <2>1 DEF ConsumersMatchMailboxes, InFlightComesFirst, HandlingsAreCounted, mailbox
    <2>3. ASSUME NEW d \in Endpoints PROVE SlotsInOrder(d)' /\ SlotsBelow(d, recoverAt)'
      <3>1. SlotsInOrder(d)'
        BY <1>1, <1>4, <2>1 DEF SlotsInOrder, PendingRowOf, mailbox
      <3>2. SlotsBelow(d, recoverAt)'
        BY <1>1, <1>4, <2>1, ElementFacts DEF SlotsBelow, mailbox
      <3> QED BY <3>1, <3>2
    <2>4. RowsAreHeld'
      <3>1. \A q \in 1..Len(inbox) : q < r + 1 => q < r \/ q = r
        BY <1>1, ElementFacts
      <3> QED BY <1>1, <1>5, <2>1, <3>1 DEF RowsAreHeld, Held, Pending, mailbox
    <2> QED BY <1>1, <1>2, <1>3, <2>2, <2>3, <2>4 DEF SlotsAreOrderedRows
  <1>6. CASE Pending(r) /\ e \in subscribed
    <2>1. Push(e, r) /\ PendingRowOf(r, e)'
      BY <1>1, <1>6 DEF RecoverRow, Pending, PendingRowOf
    <2>2. /\ \A d \in Endpoints : SlotsInOrder(d)' /\ Held(d) \ {NoRow} \subseteq Held(d)'
          /\ SlotsBelow(e, r + 1)'
          /\ r \in Held(e)'
          /\ inFlight'[e] # NoRow /\ ~waiter'[e]
          /\ waiter[e] => Held(e) = {NoRow} /\ queue'[e] = <<>> /\ inFlight'[e] = r
      <3>1. r \in Nat \ {NoRow}
        BY ElementFacts DEF NoRow
      <3>2. \A q \in 1..Len(inbox) : q \in 1..Len(inbox') /\ inbox'[q] = inbox[q]
        BY <1>1
      <3> QED BY <1>4, <1>6, <2>1, <3>1, <3>2, PushStep
    <2>3. /\ done' = done
          /\ \A d \in Endpoints \ {e} :
              queue'[d] = queue[d] /\ waiter'[d] = waiter[d] /\ inFlight'[d] = inFlight[d]
          /\ ~waiter[e] => inFlight'[e] = inFlight[e]
      BY <1>1, <2>1, PushFacts
    <2>4. ConsumersMatchMailboxes'
      BY <1>1, <1>6, <2>2, <2>3 DEF ConsumersMatchMailboxes
    <2>5. ASSUME NEW d \in Endpoints PROVE SlotsBelow(d, r + 1)'
      <3>1. CASE d # e
        <4>1. queue'[d] = queue[d] /\ inFlight'[d] = inFlight[d]
          BY <2>3, <3>1
        <4>2. inFlight[d] \in Nat /\ \A i \in 1..Len(queue[d]) : queue[d][i] \in Nat
          BY <1>1, ElementFacts
        <4>3. r \in Nat
          BY ElementFacts
        <4>4. inFlight[d] < r /\ \A i \in 1..Len(queue[d]) : queue[d][i] < r
          BY <1>4 DEF SlotsBelow
        <4>5. inFlight[d] < r + 1
          BY <4>2, <4>3, <4>4
        <4>6. \A i \in 1..Len(queue[d]) : queue[d][i] < r + 1
          BY <4>2, <4>3, <4>4
        <4> QED BY <4>1, <4>5, <4>6 DEF SlotsBelow
      <3> QED BY <2>2, <3>1
    <2>6. SlotsAreOrderedRows'
      BY <1>1, <2>2, <2>5 DEF SlotsAreOrderedRows, SlotsBelow
    <2>7. RowsAreHeld'
      <3> SUFFICES ASSUME NEW q \in 1..Len(inbox), Pending(q), inbox[q].target \in subscribed,
                          q > joined[inbox[q].target], q < r + 1
                   PROVE  q \in Held(inbox[q].target)'
        BY <1>1 DEF RowsAreHeld, Pending, Held
      <3> PICK d \in Endpoints : d = inbox[q].target
        BY <1>1, ElementFacts
      <3>1. q # NoRow /\ (q < r \/ q = r)
        BY <1>1, ElementFacts DEF NoRow
      <3>2. CASE q < r
        <4>1. q \in Held(d)
          BY <1>1, <3>2 DEF RowsAreHeld
        <4>2. q \in Held(d)'
          BY <2>2, <3>1, <4>1
        <4> QED BY <1>1, <4>2 DEF Held
      <3>3. CASE q = r
        BY <1>1, <2>2, <3>3 DEF Held
      <3> QED BY <3>1, <3>2, <3>3
    <2>8. HandlingsAreCounted'
      <3>1. \A q \in 1..Len(inbox) : handled[q] <= crashes
        BY <1>1 DEF HandlingsAreCounted
      <3>2. \A d \in Endpoints : /\ inFlight'[d] # NoRow => inFlight'[d] \in 1..Len(inbox)
                                 /\ \A i \in 1..Len(queue'[d]) : queue'[d][i] \in 1..Len(inbox)
        BY <1>1, <2>2 DEF PendingRowOf, SlotsInOrder
      <3>3. \A d \in Endpoints : ~done[d]
        BY <1>1 DEF ConsumersMatchMailboxes
      <3> QED BY <1>1, <2>3, <3>1, <3>2, <3>3 DEF HandlingsAreCounted
    <2>9. InFlightComesFirst'
      <3> SUFFICES ASSUME NEW d \in Endpoints \ gap, NEW q \in 1..Len(inbox),
                          inFlight'[d] # NoRow, q < inFlight'[d], inbox[q].target = d
                   PROVE  inbox[q].status = "consumed"
        BY <1>1 DEF InFlightComesFirst
      <3>1. CASE d = e /\ waiter[e]
        <4>1. q < r /\ q # NoRow /\ Held(e) = {NoRow}
          BY <2>2, <3>1, ElementFacts DEF NoRow
        <4>2. q > joined[d]
          BY <1>1, <4>1, ElementFacts DEF RowsAreHeld, NoRow
        <4>3. ~Pending(q)
          BY <1>1, <1>6, <3>1, <4>1, <4>2 DEF RowsAreHeld
        <4>4. inbox[q].status \in {"pending", "consumed"}
          BY <1>1, ElementFacts
        <4> QED BY <4>3, <4>4 DEF Pending
      <3>2. CASE ~(d = e /\ waiter[e])
        BY <2>3, <3>2 DEF InFlightComesFirst
      <3> QED BY <3>1, <3>2
    <2> QED BY <1>1, <1>2, <1>3, <2>4, <2>6, <2>7, <2>8, <2>9
  <1> QED BY <1>5, <1>6

(* The end of recovery: the cursor has passed every row. *)
LEMMA RecoverEndStep ==
  ASSUME IInv, RecoverEnd
  PROVE  IInv'
  <1> USE DEF IInv, RecoverEnd, durable, mailbox, history
  <1>1. TypeOK'
    BY DEF TypeOK
  <1>2. LogIsNumbered' /\ ConsumersMatchMailboxes' /\ SlotsAreOrderedRows'
    BY DEF LogIsNumbered, ConsumersMatchMailboxes, SlotsAreOrderedRows, SlotsInOrder, SlotsBelow, PendingRowOf
  <1>3. RowsAreHeld'
    <2>1. \A r \in 1..Len(inbox) : r < recoverAt
      BY ElementFacts DEF TypeOK
    <2> QED BY <2>1 DEF RowsAreHeld, Pending, Held
  <1>4. HandlingsAreCounted' /\ InFlightComesFirst' /\ HandledAfterEarlierConsumed'
    BY DEF HandlingsAreCounted, InFlightComesFirst, HandledAfterEarlierConsumed
  <1> QED BY <1>1, <1>2, <1>3, <1>4

(* A crash empties every mailbox and raises the bound on repetitions. *)
LEMMA CrashStep ==
  ASSUME IInv, Crash
  PROVE  IInv'
  <1> USE DEF IInv, Crash, durable, history
  <1>1. TypeOK'
    BY EmptySeq, EndpointsAssumption DEF TypeOK, NoEvent, NoRow, Endpoints
  <1>2. \A e \in Endpoints : /\ queue'[e] = <<>> /\ Len(queue'[e]) = 0 /\ ~waiter'[e]
                             /\ inFlight'[e] = NoRow /\ ~done'[e]
    BY EmptySeq
  <1>3. LogIsNumbered' /\ ConsumersMatchMailboxes' /\ SlotsAreOrderedRows' /\ RowsAreHeld'
    BY <1>2 DEF LogIsNumbered, ConsumersMatchMailboxes, SlotsAreOrderedRows, SlotsInOrder, RowsAreHeld, NoRow
  <1>4. HandlingsAreCounted'
    <2>1. Len(handled) = Len(inbox) /\ \A r \in 1..Len(inbox) : handled[r] \in Nat
      BY ElementFacts DEF HandlingsAreCounted
    <2>2. crashes \in Nat
      BY DEF TypeOK
    <2>3. \A r \in 1..Len(inbox) : handled[r] <= crashes + 1 /\ handled[r] <= crashes' + 1
      BY <2>1, <2>2 DEF HandlingsAreCounted
    <2> QED BY <1>2, <2>1, <2>2, <2>3 DEF HandlingsAreCounted
  <1>5. InFlightComesFirst' /\ HandledAfterEarlierConsumed'
    BY <1>2 DEF InFlightComesFirst, HandledAfterEarlierConsumed
  <1> QED BY <1>1, <1>3, <1>4, <1>5

(* Appending to the log keeps it numbered. *)
LEMMA PublishAppendStep ==
  ASSUME IInv, NEW t \in Endpoints, PublishAppend(t)
  PROVE  IInv'
  <1> USE DEF IInv, PublishAppend, mailbox, history, Idle
  <1>1. log \in Seq([seq : Nat, target : Endpoints]) /\ [seq |-> seq + 1, target |-> t] \in [seq : Nat, target : Endpoints]
    BY DEF TypeOK
  <1>2. /\ log' \in Seq([seq : Nat, target : Endpoints])
        /\ Len(log') = Len(log) + 1
        /\ \A i \in 1..Len(log) + 1 :
             log'[i] = IF i = Len(log) + 1 THEN [seq |-> seq + 1, target |-> t] ELSE log[i]
    BY <1>1, AppendProperties
  <1>3. TypeOK'
    BY <1>2 DEF TypeOK
  <1>4. LogIsNumbered'
    <2>1. Len(log) \in Nat /\ seq = Len(log) /\ \A i \in 1..Len(log) : log[i].seq = i
      BY ElementFacts DEF LogIsNumbered
    <2>2. \A i \in 1..Len(log') : log'[i].seq = i
      BY <1>2, <2>1
    <2> QED BY <1>2, <2>1, <2>2 DEF LogIsNumbered
  <1>5. ConsumersMatchMailboxes' /\ SlotsAreOrderedRows'
    BY DEF ConsumersMatchMailboxes, SlotsAreOrderedRows, SlotsInOrder, SlotsBelow, PendingRowOf
  <1>6. RowsAreHeld'
    BY DEF RowsAreHeld, Pending, Held
  <1>7. HandlingsAreCounted' /\ InFlightComesFirst' /\ HandledAfterEarlierConsumed'
    BY DEF HandlingsAreCounted, InFlightComesFirst, HandledAfterEarlierConsumed
  <1> QED BY <1>3, <1>4, <1>5, <1>6, <1>7

(* An event without a mailbox leaves the bus as it was. *)
LEMMA DiscardStep ==
  ASSUME IInv, Discard
  PROVE  IInv'
  <1> USE DEF IInv, Discard, durable, mailbox, history
  <1>1. TypeOK'
    BY EndpointsAssumption DEF TypeOK, NoEvent, Endpoints
  <1>2. LogIsNumbered' /\ ConsumersMatchMailboxes' /\ SlotsAreOrderedRows'
    BY DEF LogIsNumbered, ConsumersMatchMailboxes, SlotsAreOrderedRows, SlotsInOrder, SlotsBelow, PendingRowOf
  <1>3. RowsAreHeld'
    BY DEF RowsAreHeld, Pending, Held
  <1>4. HandlingsAreCounted' /\ InFlightComesFirst' /\ HandledAfterEarlierConsumed'
    BY DEF HandlingsAreCounted, InFlightComesFirst, HandledAfterEarlierConsumed
  <1> QED BY <1>1, <1>2, <1>3, <1>4

(* A delivery: the new row is newer than every slot, and its mailbox holds it. *)
LEMMA DeliverStep ==
  ASSUME IInv, Deliver
  PROVE  IInv'
  <1> USE DEF IInv
  <1> PICK e \in Endpoints : e = publishing.target
    BY DEF TypeOK
  <1> PICK r \in Nat : r = Len(inbox) + 1
    BY ElementFacts
  <1> DEFINE row == [target |-> e, event |-> publishing.seq, status |-> "pending"]
  <1>1. /\ TypeOK /\ phase = "running" /\ e \in subscribed /\ Push(e, r)
        /\ inbox' = Append(inbox, row) /\ handled' = Append(handled, 0) /\ publishing' = NoEvent
        /\ UNCHANGED <<log, roster, phase, seq, recoverAt, subscribed, joined, gap, crashes>>
    BY DEF Deliver
  <1>2. /\ inbox' \in Seq(InboxRow) /\ Len(inbox') = r
        /\ inbox'[r] = row
        /\ \A q \in 1..Len(inbox) : q \in 1..Len(inbox') /\ inbox'[q] = inbox[q]
        /\ \A q \in 1..Len(inbox') : q = r \/ q \in 1..Len(inbox)
    <2>1. inbox \in Seq(InboxRow) /\ row \in InboxRow /\ Len(inbox) \in Nat
      BY ElementFacts DEF TypeOK, InboxRow
    <2> HIDE DEF row
    <2>2. /\ Append(inbox, row) \in Seq(InboxRow)
          /\ Len(Append(inbox, row)) = Len(inbox) + 1
          /\ \A i \in 1..Len(inbox) + 1 :
               Append(inbox, row)[i] = IF i = Len(inbox) + 1 THEN row ELSE inbox[i]
      BY <2>1, AppendProperties
    <2> QED BY <1>1, <2>1, <2>2
  <1>3. /\ handled' \in Seq(Nat) /\ Len(handled') = Len(inbox')
        /\ handled'[r] = 0 /\ \A q \in 1..Len(inbox) : handled'[q] = handled[q]
    <2>1. handled \in Seq(Nat) /\ Len(handled) = Len(inbox) /\ Len(inbox) \in Nat
      BY ElementFacts DEF TypeOK, HandlingsAreCounted
    <2>2. /\ Append(handled, 0) \in Seq(Nat)
          /\ Len(Append(handled, 0)) = Len(handled) + 1
          /\ \A i \in 1..Len(handled) + 1 :
               Append(handled, 0)[i] = IF i = Len(handled) + 1 THEN 0 ELSE handled[i]
      BY <2>1, AppendProperties
    <2> QED BY <1>1, <1>2, <2>1, <2>2
  <1>4. TypeOK'
    <2>1. /\ queue' \in [Endpoints -> Seq(Nat)] /\ waiter' \in [Endpoints -> BOOLEAN]
          /\ inFlight' \in [Endpoints -> Nat] /\ done' = done
      BY <1>1, PushFacts
    <2> QED BY <1>1, <1>2, <1>3, <2>1, EndpointsAssumption
            DEF TypeOK, InboxRow, NoEvent, Endpoints
  <1>5. /\ r # NoRow /\ r \in Nat \ {NoRow}
        /\ \A d \in Endpoints : SlotsInOrder(d) /\ SlotsBelow(d, r)
    <2>1. \A d \in Endpoints : SlotsInOrder(d)
      BY DEF SlotsAreOrderedRows
    <2>2. \A q \in 1..Len(inbox) : q < r /\ 0 < r
      BY ElementFacts
    <2>3. 0 < r
      BY ElementFacts
    <2> QED BY <2>1, <2>2, <2>3 DEF SlotsInOrder, SlotsBelow, PendingRowOf, NoRow
  <1>6. PendingRowOf(r, e)'
    BY <1>2, <1>5, ElementFacts DEF PendingRowOf, NoRow
  <1>7. /\ \A d \in Endpoints : SlotsInOrder(d)' /\ Held(d) \ {NoRow} \subseteq Held(d)'
        /\ r \in Held(e)'
        /\ inFlight'[e] # NoRow /\ ~waiter'[e]
        /\ waiter[e] => Held(e) = {NoRow} /\ queue'[e] = <<>> /\ inFlight'[e] = r
    BY <1>1, <1>2, <1>5, <1>6, PushStep
  <1>8. /\ done' = done
        /\ \A d \in Endpoints \ {e} :
            queue'[d] = queue[d] /\ waiter'[d] = waiter[d] /\ inFlight'[d] = inFlight[d]
        /\ waiter[e] => Len(queue'[e]) = 0
        /\ ~waiter[e] => /\ inFlight'[e] = inFlight[e]
                         /\ \A i \in 1..Len(queue'[e]) :
                              queue'[e][i] = r
                              \/ (i \in 1..Len(queue[e]) /\ queue'[e][i] = queue[e][i])
    <2>1. Len(queue[e]) \in Nat
      BY ElementFacts
    <2>2. waiter[e] => Len(queue'[e]) = 0
      BY <1>7, EmptySeq
    <2>3. /\ done' = done
          /\ \A d \in Endpoints \ {e} :
              queue'[d] = queue[d] /\ waiter'[d] = waiter[d] /\ inFlight'[d] = inFlight[d]
          /\ ~waiter[e] => /\ inFlight'[e] = inFlight[e]
                           /\ Len(queue'[e]) = Len(queue[e]) + 1
                           /\ \A i \in 1..Len(queue'[e]) :
                                queue'[e][i] = IF i = Len(queue[e]) + 1 THEN r ELSE queue[e][i]
      BY <1>1, PushFacts
    <2>4. ASSUME ~waiter[e], NEW i \in 1..Len(queue'[e]), queue'[e][i] # r
          PROVE  i \in 1..Len(queue[e]) /\ queue'[e][i] = queue[e][i]
      <3>1. i # Len(queue[e]) + 1
        BY <2>3, <2>4
      <3> QED BY <2>1, <2>3, <2>4, <3>1
    <2> QED BY <2>2, <2>3, <2>4
  <1>9. LogIsNumbered' /\ SlotsAreOrderedRows'
    BY <1>1, <1>7 DEF LogIsNumbered, SlotsAreOrderedRows
  <1>10. ConsumersMatchMailboxes'
    <2>1. \A d \in Endpoints : joined[d] <= Len(inbox')
      BY <1>2, ElementFacts DEF ConsumersMatchMailboxes
    <2> QED BY <1>1, <1>7, <1>8, <2>1 DEF ConsumersMatchMailboxes
  <1>11. RowsAreHeld'
    <2> SUFFICES ASSUME NEW q \in 1..Len(inbox'), NEW d \in Endpoints, d = inbox'[q].target,
                        inbox'[q].status = "pending"
                 PROVE  /\ d \in subscribed /\ q > joined[d] => q \in Held(d)'
                        /\ d \in subscribed /\ q <= joined[d] => d \in gap
                        /\ d \notin subscribed
                             => d \in gap \/ (d \in Agents /\ roster[d] = "deleted")
      <3>1. \A q \in 1..Len(inbox') : inbox'[q].target \in Endpoints
        <4>1. \A q \in 1..Len(inbox') : inbox'[q] \in InboxRow
          BY <1>2, ElementOfSeq
        <4> QED BY <4>1 DEF InboxRow
      <3> QED BY <1>1, <3>1, SMTT(60) DEF RowsAreHeld, Pending, Held
    <2>1. CASE q = r
      <3>1. d = e /\ joined[d] <= Len(inbox) /\ Len(inbox) \in Nat /\ joined[d] \in Nat
        BY <1>2, <2>1, ElementFacts DEF ConsumersMatchMailboxes
      <3>2. ~(q <= joined[d])
        BY <2>1, <3>1
      <3> QED BY <1>1, <1>7, <2>1, <3>1, <3>2
    <2>2. CASE q \in 1..Len(inbox)
      <3>1. inbox[q].target = d /\ Pending(q) /\ q # NoRow
        BY <1>2, <2>2, ElementFacts DEF Pending, NoRow
      <3>2. d \in subscribed /\ q > joined[d] => q \in Held(d)
        BY <1>1, <2>2, <3>1 DEF RowsAreHeld
      <3> QED BY <1>1, <1>7, <2>2, <3>1, <3>2 DEF RowsAreHeld
    <2> QED BY <1>2, <2>1, <2>2
  <1>12. HandlingsAreCounted'
    <2>1. /\ \A d \in Endpoints : inFlight[d] # NoRow => inFlight[d] \in 1..Len(inbox)
          /\ \A d \in Endpoints : \A i \in 1..Len(queue[d]) : queue[d][i] \in 1..Len(inbox)
      BY <1>5 DEF SlotsInOrder, PendingRowOf
    <2>2. crashes \in Nat /\ phase = "running"
      BY <1>1 DEF TypeOK
    <2>3. ASSUME NEW q \in 1..Len(inbox')
          PROVE  /\ inbox'[q].status = "consumed" => handled'[q] > 0
                 /\ handled'[q] <= crashes + 1
      BY <1>2, <1>3, <2>2 DEF HandlingsAreCounted
    <2>4. ASSUME NEW d \in Endpoints
          PROVE  /\ done'[d] => handled'[inFlight'[d]] > 0
                 /\ inFlight'[d] # NoRow /\ ~done'[d] => handled'[inFlight'[d]] <= crashes
                 /\ \A i \in 1..Len(queue'[d]) : handled'[queue'[d][i]] <= crashes
      <3>1. /\ done[d] => handled[inFlight[d]] > 0 /\ inFlight[d] # NoRow
            /\ inFlight[d] # NoRow /\ ~done[d] => handled[inFlight[d]] <= crashes
            /\ \A i \in 1..Len(queue[d]) : handled[queue[d][i]] <= crashes
            /\ waiter[d] => ~done[d]
        BY DEF HandlingsAreCounted, ConsumersMatchMailboxes
      <3>2. CASE d # e
        <4>1. queue'[d] = queue[d] /\ inFlight'[d] = inFlight[d] /\ done'[d] = done[d]
          BY <1>8, <3>2
        <4> QED BY <1>3, <2>1, <3>1, <4>1
      <3>3. CASE d = e /\ waiter[e]
        BY <1>3, <1>7, <1>8, <2>2, <3>1, <3>3
      <3>4. CASE d = e /\ ~waiter[e]
        <4>1. inFlight'[e] = inFlight[e] /\ done'[e] = done[e]
          BY <1>8, <3>4
        <4>2. \A i \in 1..Len(queue'[e]) : handled'[queue'[e][i]] <= crashes
          <5> SUFFICES ASSUME NEW i \in 1..Len(queue'[e])
                       PROVE  handled'[queue'[e][i]] <= crashes
            OBVIOUS
          <5>1. CASE queue'[e][i] = r
            BY <1>3, <2>2, <5>1
          <5>2. CASE i \in 1..Len(queue[e]) /\ queue'[e][i] = queue[e][i]
            BY <1>3, <2>1, <3>1, <3>4, <5>2
          <5> QED BY <1>8, <3>4, <5>1, <5>2
        <4> QED BY <1>3, <2>1, <3>1, <3>4, <4>1, <4>2
      <3> QED BY <3>2, <3>3, <3>4
    <2> QED BY <1>1, <1>3, <2>2, <2>3, <2>4 DEF HandlingsAreCounted
  <1>13. InFlightComesFirst'
    <2> SUFFICES ASSUME NEW d \in Endpoints \ gap, NEW q \in 1..Len(inbox),
                        inFlight'[d] # NoRow, q < inFlight'[d], inbox[q].target = d
                 PROVE  inbox[q].status = "consumed"
      <3>1. \A d \in Endpoints \ gap : \A q \in 1..Len(inbox') :
              inFlight'[d] # NoRow /\ q < inFlight'[d] => q \in 1..Len(inbox)
        <4>1. \A d \in Endpoints : inFlight'[d] # NoRow => inFlight'[d] \in 1..Len(inbox')
          BY <1>7 DEF SlotsInOrder, PendingRowOf
        <4> QED BY <1>2, <4>1, ElementFacts
      <3> QED BY <1>1, <1>2, <3>1 DEF InFlightComesFirst
    <2>1. CASE d = e /\ waiter[e]
      <3>1. q \notin Held(e)
        BY <1>7, <2>1, ElementFacts DEF NoRow
      <3>2. joined[d] \in Nat /\ q \in Nat /\ inbox[q].status \in {"pending", "consumed"}
        BY ElementFacts
      <3> QED BY <1>1, <2>1, <3>1, <3>2 DEF RowsAreHeld, Pending
    <2>2. CASE ~(d = e /\ waiter[e])
      BY <1>8, <2>2 DEF InFlightComesFirst
    <2> QED BY <2>1, <2>2
  <1>14. HandledAfterEarlierConsumed'
    <2> SUFFICES ASSUME NEW q \in 1..Len(inbox'), NEW p \in 1..Len(inbox'), q < p,
                        inbox'[q].target = inbox'[p].target, inbox'[p].target \notin gap,
                        handled'[p] > 0
                 PROVE  inbox'[q].status = "consumed"
      BY <1>1 DEF HandledAfterEarlierConsumed
    <2>1. p # r
      BY <1>3
    <2>2. p \in 1..Len(inbox) /\ q \in 1..Len(inbox)
      BY <1>2, <2>1
    <2> QED BY <1>2, <1>3, <2>2 DEF HandledAfterEarlierConsumed
  <1> QED BY <1>1, <1>4, <1>9, <1>10, <1>11, <1>12, <1>13, <1>14

(* A handler returns: one more handling of the row in flight. *)
LEMMA HandlerReturnsStep ==
  ASSUME IInv, NEW e \in Endpoints, HandlerReturns(e)
  PROVE  IInv'
  <1> USE DEF IInv
  <1>1. /\ TypeOK /\ phase = "running" /\ inFlight[e] # NoRow /\ ~done[e]
        /\ done' = [done EXCEPT ![e] = TRUE]
        /\ handled' = [handled EXCEPT ![inFlight[e]] = handled[inFlight[e]] + 1]
        /\ UNCHANGED <<log, inbox, roster, phase, seq, publishing, recoverAt, subscribed,
                       queue, waiter, inFlight, joined, gap, crashes>>
    BY DEF HandlerReturns, Handling, Idle, durable
  <1> PICK r \in 1..Len(inbox) : r = inFlight[e]
    BY <1>1 DEF SlotsAreOrderedRows, SlotsInOrder, PendingRowOf
  <1>2. PendingRowOf(r, e)
    BY <1>1 DEF SlotsAreOrderedRows, SlotsInOrder
  <1>3. /\ handled' \in Seq(Nat) /\ Len(handled') = Len(inbox)
        /\ \A q \in 1..Len(inbox) : handled'[q] = IF q = r THEN handled[r] + 1 ELSE handled[q]
    <2>1. handled \in Seq(Nat) /\ Len(handled) = Len(inbox)
      BY DEF TypeOK, HandlingsAreCounted
    <2>2. handled[r] + 1 \in Nat
      BY <2>1, ElementFacts
    <2> QED BY <1>1, <2>1, <2>2, ExceptSeq
  <1>4. done' \in [Endpoints -> BOOLEAN] /\ done'[e] /\ \A d \in Endpoints \ {e} : done'[d] = done[d]
    BY <1>1 DEF TypeOK
  <1>5. TypeOK'
    BY <1>1, <1>3, <1>4 DEF TypeOK
  <1>6. LogIsNumbered' /\ SlotsAreOrderedRows' /\ RowsAreHeld' /\ InFlightComesFirst'
    BY <1>1 DEF LogIsNumbered, SlotsAreOrderedRows, SlotsInOrder, SlotsBelow, PendingRowOf,
                RowsAreHeld, Held, Pending, InFlightComesFirst
  <1>7. ConsumersMatchMailboxes'
    BY <1>1, <1>4 DEF ConsumersMatchMailboxes
  <1>8. handled[r] \in Nat /\ handled[r] <= crashes /\ crashes \in Nat
    BY <1>1, ElementFacts DEF HandlingsAreCounted, TypeOK
  <1>9. HandlingsAreCounted'
    <2>1. \A q \in 1..Len(inbox) : /\ inbox[q].status = "consumed" => handled'[q] > 0
                                   /\ handled'[q] <= crashes + 1
      BY <1>3, <1>8 DEF HandlingsAreCounted
    <2>2. ASSUME NEW d \in Endpoints
          PROVE  /\ done'[d] => handled'[inFlight[d]] > 0
                 /\ inFlight[d] # NoRow /\ ~done'[d] => handled'[inFlight[d]] <= crashes
                 /\ \A i \in 1..Len(queue[d]) : handled'[queue[d][i]] <= crashes
      <3>1. /\ inFlight[d] # NoRow => PendingRowOf(inFlight[d], d)
            /\ \A i \in 1..Len(queue[d]) : PendingRowOf(queue[d][i], d) /\ inFlight[d] < queue[d][i]
            /\ done[d] => inFlight[d] # NoRow
        BY DEF SlotsAreOrderedRows, SlotsInOrder, ConsumersMatchMailboxes
      <3>2. CASE d = e
        <4>1. \A i \in 1..Len(queue[e]) : queue[e][i] \in 1..Len(inbox) /\ queue[e][i] # r
          BY <3>1, <3>2, ElementFacts DEF PendingRowOf
        <4>2. handled'[r] = handled[r] + 1
          BY <1>3
        <4>3. \A i \in 1..Len(queue[e]) : handled'[queue[e][i]] = handled[queue[e][i]]
          BY <1>3, <4>1
        <4>4. \A i \in 1..Len(queue[e]) : handled[queue[e][i]] <= crashes
          BY DEF HandlingsAreCounted
        <4>5. handled'[inFlight[e]] > 0 /\ done'[e]
          BY <1>4, <1>8, <4>2
        <4>6. \A i \in 1..Len(queue[e]) : handled'[queue[e][i]] <= crashes
          BY <4>3, <4>4
        <4> QED BY <3>2, <4>5, <4>6
      <3>3. CASE d # e
        <4>1. inFlight[d] # NoRow => handled'[inFlight[d]] = handled[inFlight[d]]
          BY <1>2, <1>3, <3>1, <3>3 DEF PendingRowOf
        <4>2. \A i \in 1..Len(queue[d]) : handled'[queue[d][i]] = handled[queue[d][i]]
          BY <1>2, <1>3, <3>1, <3>3 DEF PendingRowOf
        <4>3. /\ done[d] => handled[inFlight[d]] > 0
              /\ inFlight[d] # NoRow /\ ~done[d] => handled[inFlight[d]] <= crashes
              /\ \A i \in 1..Len(queue[d]) : handled[queue[d][i]] <= crashes
          BY DEF HandlingsAreCounted
        <4>4. done'[d] = done[d]
          BY <1>4, <3>3
        <4> QED BY <3>1, <4>1, <4>2, <4>3, <4>4
      <3> QED BY <3>2, <3>3
    <2> QED BY <1>1, <1>3, <2>1, <2>2 DEF HandlingsAreCounted
  <1>10. HandledAfterEarlierConsumed'
    <2> SUFFICES ASSUME NEW q \in 1..Len(inbox), NEW p \in 1..Len(inbox), q < p,
                        inbox[q].target = inbox[p].target, inbox[p].target \notin gap,
                        handled'[p] > 0
                 PROVE  inbox[q].status = "consumed"
      BY <1>1 DEF HandledAfterEarlierConsumed
    <2>1. CASE p = r
      BY <1>1, <1>2, <2>1 DEF InFlightComesFirst, PendingRowOf
    <2>2. CASE p # r
      BY <1>3, <2>2 DEF HandledAfterEarlierConsumed
    <2> QED BY <2>1, <2>2
  <1> QED BY <1>1, <1>5, <1>6, <1>7, <1>9, <1>10

(* takeNext: the acknowledged row was the oldest the mailbox held, so the next
   one handed out is preceded by acknowledged rows only. *)
LEMMA TakeNextStep ==
  ASSUME IInv, NEW e \in Endpoints, TakeNext(e)
  PROVE  IInv'
  <1> USE DEF IInv
  <1>1. /\ TypeOK /\ phase = "running" /\ done[e] /\ e \in subscribed
        /\ done' = [done EXCEPT ![e] = FALSE]
        /\ Ack(e)
        /\ UNCHANGED <<log, roster, phase, seq, publishing, recoverAt, subscribed,
                       handled, joined, gap, crashes>>
    BY DEF TakeNext, Idle, history
  <1> PICK r \in 1..Len(inbox) : r = inFlight[e]
    BY <1>1 DEF SlotsAreOrderedRows, SlotsInOrder, PendingRowOf, ConsumersMatchMailboxes
  <1>2. r # NoRow /\ PendingRowOf(r, e) /\ ~waiter[e] /\ handled[r] > 0
    BY <1>1 DEF SlotsAreOrderedRows, SlotsInOrder, ConsumersMatchMailboxes, HandlingsAreCounted
  <1>3. /\ inbox' \in Seq(InboxRow) /\ Len(inbox') = Len(inbox)
        /\ \A q \in 1..Len(inbox) :
             /\ inbox'[q].target = inbox[q].target
             /\ inbox'[q].event = inbox[q].event
             /\ inbox'[q].status = IF q = r THEN "consumed" ELSE inbox[q].status
    BY <1>1, AckFacts
  <1>4. \A d \in Endpoints \ {e} : queue'[d] = queue[d] /\ inFlight'[d] = inFlight[d]
                                   /\ waiter'[d] = waiter[d] /\ done'[d] = done[d]
    BY <1>1 DEF TakeNext, TypeOK
  <1>5. /\ queue' \in [Endpoints -> Seq(Nat)] /\ inFlight' \in [Endpoints -> Nat]
        /\ waiter' \in [Endpoints -> BOOLEAN] /\ done' \in [Endpoints -> BOOLEAN] /\ ~done'[e]
        /\ \/ /\ queue[e] # <<>> /\ inFlight'[e] = queue[e][1] /\ ~waiter'[e]
              /\ Len(queue'[e]) = Len(queue[e]) - 1
              /\ 1 \in 1..Len(queue[e])
              /\ \A i \in 1..Len(queue'[e]) :
                   i + 1 \in 1..Len(queue[e]) /\ queue'[e][i] = queue[e][i + 1]
           \/ /\ queue[e] = <<>> /\ queue'[e] = <<>> /\ inFlight'[e] = NoRow /\ waiter'[e]
              /\ Len(queue[e]) = 0 /\ Len(queue'[e]) = 0
    <2>1. queue[e] \in Seq(Nat) /\ Len(queue[e]) \in Nat /\ Len(<<>>) = 0
      BY ElementFacts, EmptySeq
    <2>2. done' \in [Endpoints -> BOOLEAN] /\ ~done'[e]
      BY <1>1 DEF TypeOK
    <2>3. CASE queue[e] # <<>>
      <3>1. /\ Head(queue[e]) = queue[e][1] /\ Head(queue[e]) \in Nat
            /\ Tail(queue[e]) \in Seq(Nat) /\ Len(Tail(queue[e])) = Len(queue[e]) - 1
            /\ \A i \in 1..Len(Tail(queue[e])) : Tail(queue[e])[i] = queue[e][i + 1]
            /\ Len(queue[e]) # 0
        BY <2>1, <2>3, HeadTailProperties, EmptySeq
      <3>2. /\ inFlight' = [inFlight EXCEPT ![e] = Head(queue[e])]
            /\ queue' = [queue EXCEPT ![e] = Tail(queue[e])]
            /\ waiter' = waiter
        BY <2>3 DEF TakeNext
      <3>3. inFlight'[e] = queue[e][1] /\ queue'[e] = Tail(queue[e]) /\ ~waiter'[e]
        BY <1>2, <3>1, <3>2 DEF TypeOK
      <3>4. \A i \in 1..Len(queue'[e]) : i + 1 \in 1..Len(queue[e])
        BY <2>1, <3>1, <3>3
      <3>5. 1 \in 1..Len(queue[e])
        BY <2>1, <3>1
      <3> QED BY <2>2, <2>3, <3>1, <3>2, <3>3, <3>4, <3>5 DEF TypeOK
    <2>4. CASE queue[e] = <<>>
      <3>1. /\ inFlight' = [inFlight EXCEPT ![e] = NoRow]
            /\ waiter' = [waiter EXCEPT ![e] = TRUE]
            /\ queue' = queue
        BY <2>4 DEF TakeNext
      <3>2. NoRow \in Nat
        BY DEF NoRow
      <3> QED BY <2>1, <2>2, <2>4, <3>1, <3>2 DEF TypeOK
    <2> QED BY <2>3, <2>4
  <1>6. TypeOK'
    BY <1>1, <1>3, <1>5 DEF TypeOK, InboxRow
  <1>7. \A d \in Endpoints : SlotsInOrder(d)
    BY DEF SlotsAreOrderedRows
  <1>8. ASSUME NEW d \in Endpoints, NEW q \in Nat, PendingRowOf(q, d), q # r
        PROVE  PendingRowOf(q, d)'
    BY <1>3, <1>8 DEF PendingRowOf
  <1>9. SlotsInOrder(e)' /\ Held(e) \ {r} \subseteq Held(e)'
    <2>1. CASE queue[e] = <<>>
      BY <1>5, <2>1 DEF SlotsInOrder, Held
    <2>2. CASE queue[e] # <<>>
      <3>1. \A i \in 1..Len(queue[e]) : /\ queue[e][i] \in Nat /\ queue[e][i] # r
                                        /\ PendingRowOf(queue[e][i], e)
        BY <1>7, ElementFacts DEF SlotsInOrder
      <3>2. \A i \in 1..Len(queue[e]) : /\ queue[e][i] \in 1..Len(inbox')
                                        /\ inbox'[queue[e][i]].target = e
                                        /\ inbox'[queue[e][i]].status = "pending"
        BY <1>3, <3>1 DEF PendingRowOf
      <3>3. SlotsInOrder(e)'
        <4>1. PendingRowOf(inFlight[e], e)'
          BY <1>5, <2>2, <3>2 DEF PendingRowOf
        <4>2. \A i \in 1..Len(queue'[e]) : PendingRowOf(queue[e][i], e)' /\ inFlight'[e] < queue'[e][i]
          <5> SUFFICES ASSUME NEW i \in 1..Len(queue'[e])
                       PROVE  PendingRowOf(queue[e][i], e)' /\ inFlight'[e] < queue'[e][i]
            OBVIOUS
          <5>1. i + 1 \in 1..Len(queue[e]) /\ queue'[e][i] = queue[e][i + 1] /\ 1 < i + 1
                /\ inFlight'[e] = queue[e][1] /\ 1 \in 1..Len(queue[e])
            BY <1>5, <2>2
          <5> QED BY <1>7, <3>2, <5>1 DEF SlotsInOrder, PendingRowOf
        <4>3. \A i, j \in 1..Len(queue'[e]) : i < j => queue'[e][i] < queue'[e][j]
          <5> SUFFICES ASSUME NEW i \in 1..Len(queue'[e]), NEW j \in 1..Len(queue'[e]), i < j
                       PROVE  queue'[e][i] < queue'[e][j]
            OBVIOUS
          <5>1. /\ i + 1 \in 1..Len(queue[e]) /\ queue'[e][i] = queue[e][i + 1]
                /\ j + 1 \in 1..Len(queue[e]) /\ queue'[e][j] = queue[e][j + 1]
                /\ i + 1 < j + 1
            <6>1. \A k \in 1..Len(queue'[e]) :
                    k + 1 \in 1..Len(queue[e]) /\ queue'[e][k] = queue[e][k + 1]
              BY <1>5, <2>2
            <6>2. i \in Nat /\ j \in Nat
              OBVIOUS
            <6> QED BY <6>1, <6>2
          <5> QED BY <1>7, <5>1 DEF SlotsInOrder
        <4> QED BY <4>1, <4>2, <4>3 DEF SlotsInOrder
      <3>4. Held(e) \ {r} \subseteq Held(e)'
        <4> SUFFICES ASSUME NEW k \in 1..Len(queue[e])
                     PROVE  queue[e][k] \in Held(e)'
          BY DEF Held
        <4>1. CASE k = 1
          BY <1>5, <2>2, <4>1 DEF Held
        <4>2. CASE k # 1
          <5>1. k - 1 \in 1..Len(queue'[e]) /\ queue'[e][k - 1] = queue[e][k]
            <6>1. Len(queue[e]) \in Nat /\ Len(queue'[e]) = Len(queue[e]) - 1
              BY <1>5, <2>2, ElementFacts
            <6>2. k - 1 \in 1..Len(queue'[e]) /\ (k - 1) + 1 = k
              BY <4>2, <6>1
            <6> QED BY <1>5, <2>2, <6>2
          <5> QED BY <5>1 DEF Held
        <4> QED BY <4>1, <4>2
      <3> QED BY <3>3, <3>4
    <2> QED BY <2>1, <2>2
  <1>10. ASSUME NEW d \in Endpoints \ {e}
         PROVE  SlotsInOrder(d)' /\ Held(d)' = Held(d)
    <2>1. queue'[d] = queue[d] /\ inFlight'[d] = inFlight[d]
      BY <1>4
    <2>2. \A q : PendingRowOf(q, d) => /\ q \in 1..Len(inbox') /\ inbox'[q].target = d
                                       /\ inbox'[q].status = "pending"
      BY <1>2, <1>3 DEF PendingRowOf
    <2>3. SlotsInOrder(d)'
      <3>1. /\ inFlight'[d] # NoRow => PendingRowOf(inFlight[d], d)
            /\ \A i \in 1..Len(queue'[d]) :
                 PendingRowOf(queue[d][i], d) /\ inFlight'[d] < queue'[d][i]
            /\ \A i, j \in 1..Len(queue'[d]) : i < j => queue'[d][i] < queue'[d][j]
        BY <1>7, <2>1 DEF SlotsInOrder
      <3>2. inFlight'[d] # NoRow => PendingRowOf(inFlight[d], d)'
        BY <2>1, <2>2, <3>1 DEF PendingRowOf
      <3>3. \A i \in 1..Len(queue'[d]) : PendingRowOf(queue[d][i], d)'
        BY <2>1, <2>2, <3>1 DEF PendingRowOf
      <3> QED BY <3>1, <3>2, <3>3 DEF SlotsInOrder
    <2> QED BY <2>1, <2>3 DEF Held
  <1>11. LogIsNumbered' /\ SlotsAreOrderedRows'
    BY <1>1, <1>9, <1>10 DEF LogIsNumbered, SlotsAreOrderedRows
  <1>12. ConsumersMatchMailboxes'
    <2>1. inFlight'[e] # NoRow => queue[e] # <<>> /\ ~waiter'[e]
      BY <1>5
    <2>2. ~waiter'[e] => inFlight'[e] # NoRow
      <3>1. \A i \in 1..Len(queue[e]) : queue[e][i] # NoRow
        BY <1>7, ElementFacts DEF SlotsInOrder, NoRow
      <3> QED BY <1>5, <3>1
    <2>3. ASSUME NEW d \in Endpoints
          PROVE  /\ waiter'[d] => queue'[d] = <<>> /\ inFlight'[d] = NoRow /\ ~done'[d]
                 /\ done'[d] => inFlight'[d] # NoRow
                 /\ d \in subscribed => waiter'[d] \/ inFlight'[d] # NoRow
                 /\ d \notin subscribed => queue'[d] = <<>> /\ ~waiter'[d]
      <3>1. CASE d = e
        BY <1>1, <1>5, <2>1, <2>2, <3>1
      <3>2. CASE d # e
        BY <1>4, <3>2 DEF ConsumersMatchMailboxes
      <3> QED BY <3>1, <3>2
    <2>4. \A a \in Agents \cap subscribed : roster[a] \in {"active", "suspended"}
      BY DEF ConsumersMatchMailboxes
    <2>5. \A d \in Endpoints : joined[d] <= Len(inbox')
      BY <1>3 DEF ConsumersMatchMailboxes
    <2> QED BY <1>1, <2>3, <2>4, <2>5 DEF ConsumersMatchMailboxes
  <1>13. RowsAreHeld'
    <2>1. ASSUME NEW q \in 1..Len(inbox), NEW d \in Endpoints, d = inbox[q].target,
                 inbox'[q].status = "pending"
          PROVE  /\ d \in subscribed /\ q > joined[d] => q \in Held(d)'
                 /\ d \in subscribed /\ q <= joined[d] => d \in gap
                 /\ d \notin subscribed
                      => d \in gap \/ (d \in Agents /\ roster[d] = "deleted")
      <3>1. q # r /\ Pending(q)
        BY <1>3, <2>1 DEF Pending
      <3>2. d \in subscribed /\ q > joined[d] => q \in Held(d)
        BY <1>1, <2>1, <3>1 DEF RowsAreHeld
      <3> QED BY <1>1, <1>9, <1>10, <2>1, <3>1, <3>2 DEF RowsAreHeld
    <2>2. \A q \in 1..Len(inbox) : inbox[q].target \in Endpoints
      BY ElementFacts
    <2> QED BY <1>1, <1>3, <2>1, <2>2, SMTT(60) DEF RowsAreHeld, Pending, Held
  <1>14. HandlingsAreCounted'
    <2>1. \A q \in 1..Len(inbox) : inbox'[q].status = "consumed" => handled[q] > 0
      BY <1>2, <1>3 DEF HandlingsAreCounted
    <2>2. /\ inFlight'[e] # NoRow => handled[inFlight'[e]] <= crashes
          /\ \A i \in 1..Len(queue'[e]) : handled[queue'[e][i]] <= crashes
      BY <1>5 DEF HandlingsAreCounted
    <2>3. ASSUME NEW d \in Endpoints
          PROVE  /\ done'[d] => handled[inFlight'[d]] > 0
                 /\ inFlight'[d] # NoRow /\ ~done'[d] => handled[inFlight'[d]] <= crashes
                 /\ \A i \in 1..Len(queue'[d]) : handled[queue'[d][i]] <= crashes
      <3>1. CASE d = e
        BY <1>5, <2>2, <3>1
      <3>2. CASE d # e
        BY <1>4, <3>2 DEF HandlingsAreCounted
      <3> QED BY <3>1, <3>2
    <2> QED BY <1>1, <1>3, <2>1, <2>3 DEF HandlingsAreCounted
  <1>15. InFlightComesFirst'
    <2> SUFFICES ASSUME NEW d \in Endpoints \ gap, NEW q \in 1..Len(inbox),
                        inFlight'[d] # NoRow, q < inFlight'[d], inbox[q].target = d
                 PROVE  inbox'[q].status = "consumed"
      BY <1>1, <1>3 DEF InFlightComesFirst
    <2>1. CASE d = e
      <3>1. q \notin Held(e) \ {r}
        <4>1. /\ inFlight'[e] = queue[e][1] /\ 1 \in 1..Len(queue[e]) /\ q < queue[e][1]
              /\ Len(queue[e]) \in Nat
          BY <1>5, <2>1, ElementFacts
        <4>2. \A i \in 1..Len(queue[e]) : queue[e][1] <= queue[e][i] /\ queue[e][i] \in Nat
          <5>1. ASSUME NEW i \in 1..Len(queue[e]), i # 1 PROVE queue[e][1] < queue[e][i]
            BY <1>7, <4>1, <5>1 DEF SlotsInOrder
          <5>2. \A i \in 1..Len(queue[e]) : queue[e][i] \in Nat
            BY ElementFacts
          <5> QED BY <4>1, <5>1, <5>2
        <4>3. \A i \in 1..Len(queue[e]) : q # queue[e][i]
          BY <4>1, <4>2
        <4> QED BY <4>3 DEF Held
      <3>2. joined[e] \in Nat /\ q \in Nat /\ inbox[q].status \in {"pending", "consumed"}
        BY ElementFacts
      <3>3. ASSUME q # r PROVE inbox[q].status = "consumed"
        <4>1. q \notin Held(e)
          BY <3>1, <3>3
        <4> QED BY <1>1, <2>1, <3>2, <4>1 DEF RowsAreHeld, Pending
      <3> QED BY <1>3, <3>3
    <2>2. CASE d # e
      BY <1>3, <1>4, <2>2 DEF InFlightComesFirst
    <2> QED BY <2>1, <2>2
  <1>16. HandledAfterEarlierConsumed'
    BY <1>1, <1>3 DEF HandledAfterEarlierConsumed
  <1> QED BY <1>1, <1>6, <1>11, <1>12, <1>13, <1>14, <1>15, <1>16

(* A stopped loop ends: its mailbox was garbage already. *)
LEMMA LoopExitStep ==
  ASSUME IInv, NEW e \in Endpoints, LoopExit(e)
  PROVE  IInv'
  <1> USE DEF IInv
  <1>1. /\ TypeOK /\ phase = "running" /\ e \notin subscribed
        /\ done' = [done EXCEPT ![e] = FALSE]
        /\ inFlight' = [inFlight EXCEPT ![e] = NoRow]
        /\ UNCHANGED <<log, inbox, roster, phase, seq, publishing, recoverAt, subscribed,
                       queue, waiter, handled, joined, gap, crashes>>
    BY DEF LoopExit, Idle, durable, history
  <1>2. TypeOK'
    BY <1>1 DEF TypeOK, NoRow
  <1>3. /\ ~done'[e] /\ inFlight'[e] = NoRow
        /\ \A d \in Endpoints \ {e} : done'[d] = done[d] /\ inFlight'[d] = inFlight[d]
    BY <1>1 DEF TypeOK
  <1>4. queue[e] = <<>> /\ Len(queue[e]) = 0 /\ ~waiter[e]
    BY <1>1, EmptySeq DEF ConsumersMatchMailboxes
  <1>5. LogIsNumbered' /\ ConsumersMatchMailboxes' /\ HandledAfterEarlierConsumed'
    BY <1>1, <1>3, <1>4 DEF LogIsNumbered, ConsumersMatchMailboxes, HandledAfterEarlierConsumed
  <1>6. SlotsAreOrderedRows'
    BY <1>1, <1>3, <1>4 DEF SlotsAreOrderedRows, SlotsInOrder, PendingRowOf
  <1>7. RowsAreHeld'
    <2>1. \A d \in Endpoints \cap subscribed : Held(d)' = Held(d)
      BY <1>1, <1>3 DEF Held
    <2>2. \A q \in 1..Len(inbox) : inbox[q].target \in Endpoints
      BY ElementFacts
    <2> QED BY <1>1, <2>1, <2>2 DEF RowsAreHeld, Pending, Held
  <1>8. HandlingsAreCounted' /\ InFlightComesFirst'
    BY <1>1, <1>3, <1>4 DEF HandlingsAreCounted, InFlightComesFirst
  <1> QED BY <1>1, <1>2, <1>5, <1>6, <1>7, <1>8

(* A late subscription: the new mailbox is empty, and whatever is pending for the
   endpoint was passed over by the last boot. *)
LEMMA SubscribeStep ==
  ASSUME IInv, NEW a \in Agents, Subscribe(a), phase = "running", a \notin subscribed,
         roster[a] # "deleted", roster' = [roster EXCEPT ![a] = "active"],
         UNCHANGED <<log, inbox, phase, seq, publishing, recoverAt, handled, gap, crashes>>
  PROVE  IInv'
  <1> USE DEF IInv
  <1>1. a \in Endpoints /\ TypeOK /\ Len(inbox) \in Nat
    BY ElementFacts DEF Endpoints
  <1>2. /\ subscribed' = subscribed \cup {a}
        /\ queue' \in [Endpoints -> Seq(Nat)] /\ queue'[a] = <<>> /\ Len(queue'[a]) = 0
        /\ waiter' \in [Endpoints -> BOOLEAN] /\ waiter'[a]
        /\ inFlight' \in [Endpoints -> Nat] /\ inFlight'[a] = NoRow
        /\ done' \in [Endpoints -> BOOLEAN] /\ ~done'[a]
        /\ joined' \in [Endpoints -> Nat] /\ joined'[a] = Len(inbox)
        /\ \A d \in Endpoints \ {a} :
             /\ queue'[d] = queue[d] /\ waiter'[d] = waiter[d] /\ inFlight'[d] = inFlight[d]
             /\ done'[d] = done[d] /\ joined'[d] = joined[d]
    BY <1>1, EmptySeq DEF Subscribe, TypeOK, NoRow
  <1>3. /\ roster' \in [Agents -> Statuses] /\ roster'[a] = "active"
        /\ \A d \in Agents \ {a} : roster'[d] = roster[d]
    BY <1>1 DEF TypeOK, Statuses
  <1>4. TypeOK'
    BY <1>1, <1>2, <1>3 DEF TypeOK
  <1>5. LogIsNumbered' /\ HandledAfterEarlierConsumed'
    BY DEF LogIsNumbered, HandledAfterEarlierConsumed
  <1>6. ConsumersMatchMailboxes'
    <2>1. \A d \in Agents \cap subscribed' : roster'[d] \in {"active", "suspended"}
      BY <1>2, <1>3 DEF ConsumersMatchMailboxes
    <2>2. ASSUME NEW d \in Endpoints
          PROVE  /\ waiter'[d] => queue'[d] = <<>> /\ inFlight'[d] = NoRow /\ ~done'[d]
                 /\ done'[d] => inFlight'[d] # NoRow
                 /\ d \in subscribed' => waiter'[d] \/ inFlight'[d] # NoRow
                 /\ d \notin subscribed' => queue'[d] = <<>> /\ ~waiter'[d]
      BY <1>2, <2>2 DEF ConsumersMatchMailboxes
    <2>3. ASSUME NEW d \in Endpoints PROVE joined'[d] <= Len(inbox)
      <3>1. CASE d = a
        BY <1>1, <1>2, <3>1
      <3>2. CASE d # a
        <4>1. joined'[d] = joined[d]
          BY <1>2, <2>3, <3>2
        <4> QED BY <2>3, <4>1 DEF ConsumersMatchMailboxes
      <3> QED BY <3>1, <3>2
    <2> QED BY <2>1, <2>2, <2>3 DEF ConsumersMatchMailboxes
  <1>7. SlotsAreOrderedRows'
    <2>1. ASSUME NEW d \in Endpoints PROVE SlotsInOrder(d)'
      <3>1. CASE d = a
        BY <1>2, <3>1 DEF SlotsInOrder
      <3>2. CASE d # a
        <4>1. queue'[d] = queue[d] /\ inFlight'[d] = inFlight[d]
          BY <1>2, <2>1, <3>2
        <4> QED BY <2>1, <4>1 DEF SlotsAreOrderedRows, SlotsInOrder, PendingRowOf
      <3> QED BY <3>1, <3>2
    <2> QED BY <2>1 DEF SlotsAreOrderedRows
  <1>8. RowsAreHeld'
    <2>1. ASSUME NEW q \in 1..Len(inbox), NEW d \in Endpoints, d = inbox[q].target,
                 inbox[q].status = "pending"
          PROVE  /\ d \in subscribed' /\ q > joined'[d] => q \in Held(d)'
                 /\ d \in subscribed' /\ q <= joined'[d] => d \in gap
                 /\ d \notin subscribed'
                      => d \in gap \/ (d \in Agents /\ roster'[d] = "deleted")
      <3>1. CASE d = a
        <4>1. q <= joined'[a] /\ q \in Nat /\ a \in subscribed' /\ ~(q > joined'[a])
          BY <1>1, <1>2
        <4>2. a \in gap
          BY <2>1, <3>1 DEF RowsAreHeld, Pending
        <4> QED BY <3>1, <4>1, <4>2
      <3>2. CASE d # a
        <4>1. Held(d)' = Held(d)
          <5>1. queue'[d] = queue[d] /\ inFlight'[d] = inFlight[d]
            BY <1>2, <2>1, <3>2
          <5> QED BY <5>1 DEF Held
        <4>2. /\ joined'[d] = joined[d] /\ (d \in subscribed' <=> d \in subscribed)
              /\ d \in Agents => roster'[d] = roster[d]
          BY <1>2, <1>3, <2>1, <3>2
        <4>3. /\ d \in subscribed /\ q > joined[d] => q \in Held(d)
              /\ d \in subscribed /\ q <= joined[d] => d \in gap
              /\ d \notin subscribed => d \in gap \/ (d \in Agents /\ roster[d] = "deleted")
          BY <2>1 DEF RowsAreHeld, Pending
        <4> QED BY <4>1, <4>2, <4>3
      <3> QED BY <3>1, <3>2
    <2>2. \A q \in 1..Len(inbox) : inbox[q].target \in Endpoints
      BY ElementFacts
    <2> QED BY <2>1, <2>2, SMTT(60) DEF RowsAreHeld, Pending, Held
  <1>9. HandlingsAreCounted'
    <2>1. ASSUME NEW d \in Endpoints
          PROVE  /\ done'[d] => handled[inFlight'[d]] > 0
                 /\ inFlight'[d] # NoRow /\ ~done'[d] => handled[inFlight'[d]] <= crashes
                 /\ \A i \in 1..Len(queue'[d]) : handled[queue'[d][i]] <= crashes
      <3>1. CASE d = a
        BY <1>2, <3>1
      <3>2. CASE d # a
        <4>1. queue'[d] = queue[d] /\ inFlight'[d] = inFlight[d] /\ done'[d] = done[d]
          BY <1>2, <2>1, <3>2
        <4> QED BY <2>1, <4>1 DEF HandlingsAreCounted
      <3> QED BY <3>1, <3>2
    <2> QED BY <2>1 DEF HandlingsAreCounted
  <1>10. InFlightComesFirst'
    <2> SUFFICES ASSUME NEW d \in Endpoints \ gap, NEW r \in 1..Len(inbox),
                        inFlight'[d] # NoRow, r < inFlight'[d], inbox[r].target = d
                 PROVE  inbox[r].status = "consumed"
      BY DEF InFlightComesFirst
    <2>1. d # a /\ inFlight'[d] = inFlight[d]
      BY <1>2
    <2> QED BY <2>1 DEF InFlightComesFirst
  <1> QED BY <1>4, <1>5, <1>6, <1>7, <1>8, <1>9, <1>10

(* The agent service's operations. *)
LEMMA ManageStep ==
  ASSUME IInv, NEW a \in Agents, Manage(a)
  PROVE  IInv'
  <1> USE DEF IInv
  <1>1. CASE CreateAgent(a)
    <2>1. a \notin subscribed
      BY <1>1 DEF CreateAgent, ConsumersMatchMailboxes
    <2> QED BY <1>1, <2>1, SubscribeStep DEF CreateAgent, Idle
  <1>2. ASSUME NEW s \in {"active", "suspended"}, roster[a] \in {"active", "suspended"},
               roster' = [roster EXCEPT ![a] = s],
               UNCHANGED <<log, inbox, phase, seq, publishing, recoverAt, subscribed,
                           mailbox, history, crashes>>
        PROVE  IInv'
    <2>1. /\ roster' \in [Agents -> Statuses] /\ roster'[a] = s
          /\ \A d \in Agents \ {a} : roster'[d] = roster[d]
      BY <1>2 DEF TypeOK, Statuses
    <2>2. TypeOK' /\ LogIsNumbered' /\ HandledAfterEarlierConsumed'
      BY <1>2, <2>1 DEF TypeOK, LogIsNumbered, HandledAfterEarlierConsumed, mailbox, history
    <2>3. ConsumersMatchMailboxes' /\ SlotsAreOrderedRows'
      BY <1>2, <2>1 DEF ConsumersMatchMailboxes, SlotsAreOrderedRows, SlotsInOrder, SlotsBelow,
                        PendingRowOf, mailbox, history
    <2>4. RowsAreHeld'
      BY <1>2, <2>1 DEF RowsAreHeld, Pending, Held, mailbox, history
    <2>5. HandlingsAreCounted' /\ InFlightComesFirst'
      BY <1>2 DEF HandlingsAreCounted, InFlightComesFirst, mailbox, history
    <2> QED BY <1>2, <2>2, <2>3, <2>4, <2>5
  <1>3. CASE SuspendAgent(a)
    BY <1>2, <1>3 DEF SuspendAgent
  <1>4. CASE ResumeAgent(a)
    <2>1. CASE a \in subscribed
      BY <1>2, <1>4, <2>1 DEF ResumeAgent, Subscribe, history
    <2>2. CASE a \notin subscribed
      BY <1>4, <2>2, SubscribeStep DEF ResumeAgent, Idle
    <2> QED BY <2>1, <2>2
  <1>5. CASE TerminateAgent(a)
    <2>1. /\ TypeOK /\ a \in Endpoints /\ phase = "running"
          /\ subscribed' = subscribed \ {a}
          /\ roster' \in [Agents -> Statuses] /\ roster'[a] = "deleted"
          /\ \A d \in Agents \ {a} : roster'[d] = roster[d]
          /\ UNCHANGED <<log, inbox, phase, seq, publishing, recoverAt, inFlight, done,
                         handled, joined, gap, crashes>>
      BY <1>5 DEF TerminateAgent, Idle, history, TypeOK, Statuses, Endpoints
    <2>2. /\ queue' \in [Endpoints -> Seq(Nat)] /\ queue'[a] = <<>> /\ Len(queue'[a]) = 0
          /\ waiter' \in [Endpoints -> BOOLEAN] /\ ~waiter'[a]
          /\ \A d \in Endpoints \ {a} : queue'[d] = queue[d] /\ waiter'[d] = waiter[d]
      BY <1>5, <2>1, EmptySeq DEF TerminateAgent, TypeOK
    <2>3. TypeOK' /\ LogIsNumbered' /\ HandledAfterEarlierConsumed' /\ InFlightComesFirst'
      BY <2>1, <2>2 DEF TypeOK, LogIsNumbered, HandledAfterEarlierConsumed, InFlightComesFirst
    <2>4. ConsumersMatchMailboxes'
      <3>1. \A d \in Agents \cap subscribed' : roster'[d] \in {"active", "suspended"}
        BY <2>1 DEF ConsumersMatchMailboxes
      <3>2. ASSUME NEW d \in Endpoints
            PROVE  /\ waiter'[d] => queue'[d] = <<>> /\ inFlight'[d] = NoRow /\ ~done'[d]
                   /\ done'[d] => inFlight'[d] # NoRow
                   /\ d \in subscribed' => waiter'[d] \/ inFlight'[d] # NoRow
                   /\ d \notin subscribed' => queue'[d] = <<>> /\ ~waiter'[d]
        <4>1. CASE d = a
          BY <2>1, <2>2, <4>1 DEF ConsumersMatchMailboxes
        <4>2. CASE d # a
          <5>1. queue'[d] = queue[d] /\ waiter'[d] = waiter[d]
            BY <2>2, <3>2, <4>2
          <5> QED BY <2>1, <3>2, <4>2, <5>1 DEF ConsumersMatchMailboxes
        <4> QED BY <4>1, <4>2
      <3> QED BY <2>1, <3>1, <3>2 DEF ConsumersMatchMailboxes
    <2>5. SlotsAreOrderedRows'
      <3>1. ASSUME NEW d \in Endpoints PROVE SlotsInOrder(d)'
        <4>1. CASE d = a
          BY <2>1, <2>2, <4>1 DEF SlotsAreOrderedRows, SlotsInOrder, PendingRowOf
        <4>2. CASE d # a
          <5>1. queue'[d] = queue[d] /\ inFlight'[d] = inFlight[d]
            BY <2>1, <2>2, <3>1, <4>2
          <5> QED BY <2>1, <3>1, <5>1 DEF SlotsAreOrderedRows, SlotsInOrder, PendingRowOf
        <4> QED BY <4>1, <4>2
      <3> QED BY <2>1, <3>1 DEF SlotsAreOrderedRows
    <2>6. RowsAreHeld'
      <3>1. ASSUME NEW d \in Endpoints \ {a} PROVE Held(d)' = Held(d)
        <4>1. queue'[d] = queue[d] /\ inFlight'[d] = inFlight[d]
          BY <2>1, <2>2, <3>1
        <4> QED BY <4>1 DEF Held
      <3>2. \A q \in 1..Len(inbox) : inbox[q].target \in Endpoints
        BY ElementFacts
      <3> QED BY <2>1, <3>1, <3>2, SMTT(60) DEF RowsAreHeld, Pending, Held
    <2>7. HandlingsAreCounted'
      <3>1. ASSUME NEW d \in Endpoints
            PROVE  \A i \in 1..Len(queue'[d]) : handled[queue'[d][i]] <= crashes
        <4>1. CASE d = a
          BY <2>2, <4>1
        <4>2. CASE d # a
          <5>1. queue'[d] = queue[d]
            BY <2>2, <3>1, <4>2
          <5> QED BY <3>1, <5>1 DEF HandlingsAreCounted
        <4> QED BY <4>1, <4>2
      <3> QED BY <2>1, <3>1 DEF HandlingsAreCounted
    <2> QED BY <2>1, <2>3, <2>4, <2>5, <2>6, <2>7
  <1> QED BY <1>1, <1>3, <1>4, <1>5 DEF Manage

-----------------------------------------------------------------------------
(* Theorems *)

(* IInv is an invariant of the bus, for every set of services and agents, any
   number of events and any number of crashes. *)
THEOREM Invariance == Spec => []IInv
  <1>1. Init => IInv
    BY IInvInit
  <1>2. IInv /\ [Next]_vars => IInv'
    <2> SUFFICES ASSUME IInv, [Next]_vars PROVE IInv'
      OBVIOUS
    <2>1. CASE UNCHANGED vars
      <3>1. TypeOK' /\ LogIsNumbered' /\ ConsumersMatchMailboxes'
        BY <2>1 DEF vars, IInv, TypeOK, LogIsNumbered, ConsumersMatchMailboxes
      <3>2. SlotsAreOrderedRows'
        BY <2>1 DEF vars, IInv, SlotsAreOrderedRows, SlotsInOrder, SlotsBelow, PendingRowOf
      <3>3. RowsAreHeld'
        BY <2>1 DEF vars, IInv, RowsAreHeld, Held, Pending
      <3>4. HandlingsAreCounted' /\ InFlightComesFirst' /\ HandledAfterEarlierConsumed'
        BY <2>1 DEF vars, IInv, HandlingsAreCounted, InFlightComesFirst,
                    HandledAfterEarlierConsumed
      <3> QED BY <2>1, <3>1, <3>2, <3>3, <3>4 DEF vars, IInv
    <2>2. CASE Boot \/ RecoverRow \/ RecoverEnd \/ Crash
      BY <2>2, BootStep, RecoverRowStep, RecoverEndStep, CrashStep
    <2>3. CASE \E t \in Endpoints : PublishAppend(t)
      BY <2>3, PublishAppendStep
    <2>4. CASE Deliver \/ Discard
      BY <2>4, DeliverStep, DiscardStep
    <2>5. CASE \E e \in Endpoints : Consume(e)
      BY <2>5, HandlerReturnsStep, TakeNextStep, LoopExitStep DEF Consume
    <2>6. CASE \E a \in Agents : Manage(a)
      BY <2>6, ManageStep
    <2> QED BY <2>1, <2>2, <2>3, <2>4, <2>5, <2>6 DEF Next
  <1> QED BY <1>1, <1>2, PTL DEF Spec

(* Type correctness. *)
THEOREM TypeCorrectness == Spec => []TypeOK
  <1>1. IInv => TypeOK
    BY DEF IInv
  <1> QED BY <1>1, Invariance, PTL

(* Event ids increase across restarts: the log is numbered without gaps. *)
THEOREM EventIdsAreUnique == Spec => []EventIdsIncrease
  <1>1. IInv => EventIdsIncrease
    BY DEF IInv, LogIsNumbered, EventIdsIncrease
  <1> QED BY <1>1, Invariance, PTL

(* No wake-up is missed. *)
THEOREM ParkedConsumersAreDrained == Spec => []NoMissedWakeup
  <1>1. IInv => NoMissedWakeup
    BY DEF IInv, ConsumersMatchMailboxes, NoMissedWakeup
  <1> QED BY <1>1, Invariance, PTL

(* A mailbox hands out its rows in order, none twice, and every one pending. *)
THEOREM MailboxesAreOrdered == Spec => []MailboxHoldsPendingRowsInOrder
  <1>1. IInv => MailboxHoldsPendingRowsInOrder
    <2> SUFFICES ASSUME IInv, NEW e \in Endpoints
                 PROVE  LET slots == IF inFlight[e] = NoRow THEN queue[e]
                                     ELSE <<inFlight[e]>> \o queue[e]
                        IN  /\ \A i, j \in 1..Len(slots) : i < j => slots[i] < slots[j]
                            /\ \A i \in 1..Len(slots) :
                                 /\ slots[i] \in 1..Len(inbox)
                                 /\ inbox[slots[i]].target = e
                                 /\ Pending(slots[i])
      BY DEF MailboxHoldsPendingRowsInOrder
    <2> DEFINE slots == IF inFlight[e] = NoRow THEN queue[e] ELSE <<inFlight[e]>> \o queue[e]
    <2>1. SlotsInOrder(e) /\ queue[e] \in Seq(Nat) /\ inFlight[e] \in Nat
      BY DEF IInv, TypeOK, SlotsAreOrderedRows
    <2>2. ASSUME inFlight[e] = NoRow
          PROVE  /\ \A i, j \in 1..Len(slots) : i < j => slots[i] < slots[j]
                 /\ \A i \in 1..Len(slots) : PendingRowOf(slots[i], e)
      BY <2>1, <2>2 DEF SlotsInOrder
    <2>3. ASSUME inFlight[e] # NoRow
          PROVE  /\ \A i, j \in 1..Len(slots) : i < j => slots[i] < slots[j]
                 /\ \A i \in 1..Len(slots) : PendingRowOf(slots[i], e)
      <3>1. /\ Len(slots) = Len(queue[e]) + 1
            /\ slots[1] = inFlight[e]
            /\ \A i \in 2..Len(slots) : i - 1 \in 1..Len(queue[e]) /\ slots[i] = queue[e][i - 1]
        BY <2>1, <2>3
      <3>2. ASSUME NEW i \in 1..Len(slots), NEW j \in 1..Len(slots), i < j
            PROVE  slots[i] < slots[j]
        <4>1. j \in 2..Len(slots) /\ j - 1 \in 1..Len(queue[e]) /\ slots[j] = queue[e][j - 1]
          BY <2>1, <3>1, <3>2
        <4>2. CASE i = 1
          BY <2>1, <3>1, <4>1, <4>2 DEF SlotsInOrder
        <4>3. CASE i # 1
          <5>1. i - 1 \in 1..Len(queue[e]) /\ slots[i] = queue[e][i - 1] /\ i - 1 < j - 1
            BY <2>1, <3>1, <3>2, <4>3
          <5> QED BY <2>1, <4>1, <5>1 DEF SlotsInOrder
        <4> QED BY <4>2, <4>3
      <3>3. ASSUME NEW i \in 1..Len(slots) PROVE PendingRowOf(slots[i], e)
        <4>1. CASE i = 1
          BY <2>1, <2>3, <3>1, <4>1 DEF SlotsInOrder
        <4>2. CASE i # 1
          <5>1. i - 1 \in 1..Len(queue[e]) /\ slots[i] = queue[e][i - 1]
            BY <2>1, <3>1, <3>3, <4>2
          <5> QED BY <2>1, <5>1 DEF SlotsInOrder
        <4> QED BY <4>1, <4>2
      <3> QED BY <3>2, <3>3
    <2>4. /\ \A i, j \in 1..Len(slots) : i < j => slots[i] < slots[j]
          /\ \A i \in 1..Len(slots) : PendingRowOf(slots[i], e)
      BY <2>2, <2>3
    <2> QED BY <2>4 DEF PendingRowOf, Pending
  <1> QED BY <1>1, Invariance, PTL

(* Nothing durably queued is stranded while its endpoint lives. *)
THEOREM QueuedRowsAreHeld == Spec => []NoStrandedRow
  <1>1. IInv => NoStrandedRow
    BY DEF IInv, RowsAreHeld, NoStrandedRow
  <1> QED BY <1>1, Invariance, PTL

(* An acknowledged event has been handled. *)
THEOREM AckFollowsHandling == Spec => []ConsumedWasHandled
  <1>1. IInv => ConsumedWasHandled
    BY DEF IInv, HandlingsAreCounted, ConsumedWasHandled
  <1> QED BY <1>1, Invariance, PTL

(* Each endpoint works in order, and a crash repeats one event of it at most. *)
THEOREM HandlingIsInOrder == Spec => []HandledAfterEarlierConsumed
  <1>1. IInv => HandledAfterEarlierConsumed
    BY DEF IInv
  <1> QED BY <1>1, Invariance, PTL

(* An event is handled once plus at most once per crash. *)
THEOREM RepetitionIsBounded == Spec => []RepeatedOnlyByCrashes
  <1>1. IInv => RepeatedOnlyByCrashes
    BY DEF IInv, HandlingsAreCounted, RepeatedOnlyByCrashes
  <1> QED BY <1>1, Invariance, PTL

-----------------------------------------------------------------------------
(* The bus implements AtLeastOnce: a row of the inbox is an item. *)

Items == [r \in 1..Len(inbox) |-> [to |-> inbox[r].target, state |-> ItemState(r)]]

(* One item changes its state, and all others stay. *)
LEMMA ItemChange ==
  ASSUME TypeOK, NEW r \in 1..Len(inbox), Len(inbox') = Len(inbox),
         \A q \in 1..Len(inbox) : inbox'[q].target = inbox[q].target,
         \A q \in 1..Len(inbox) \ {r} : ItemState(q)' = ItemState(q)
  PROVE  Items' = [Items EXCEPT ![r].state = ItemState(r)']
  <1> DEFINE new == [Items EXCEPT ![r].state = ItemState(r)']
  <1>1. Items' = [q \in 1..Len(inbox) |-> [to |-> inbox'[q].target, state |-> ItemState(q)']]
    BY DEF Items
  <1>2. new = [q \in 1..Len(inbox) |-> IF q = r THEN [Items[r] EXCEPT !.state = ItemState(r)']
                                       ELSE Items[q]]
    BY DEF Items
  <1>3. [Items[r] EXCEPT !.state = ItemState(r)'] = [to |-> inbox[r].target, state |-> ItemState(r)']
    BY DEF Items
  <1>4. \A q \in 1..Len(inbox) : q # r =>
          Items[q] = [to |-> inbox'[q].target, state |-> ItemState(q)']
    BY DEF Items
  <1> HIDE DEF Items, ItemState
  <1> QED BY <1>1, <1>2, <1>3, <1>4

LEMMA ItemsStay ==
  ASSUME UNCHANGED <<inbox, handled>>
  PROVE  Items' = Items
  BY DEF Items, ItemState

LEMMA DeliverAccepts ==
  ASSUME IInv, Deliver, NEW e \in Endpoints, e = publishing.target
  PROVE  /\ Promise!Accept(Len(inbox) + 1, e)
         /\ Len(inbox) + 1 \in DOMAIN Items' \ DOMAIN Items
  <1> DEFINE row == [target |-> e, event |-> publishing.seq, status |-> "pending"]
  <1> PICK n \in Nat : n = Len(inbox) + 1
    BY ElementFacts DEF IInv
  <1>1. inbox' = Append(inbox, row) /\ handled' = Append(handled, 0) /\ gap' = gap
    BY DEF Deliver
  <1>2. /\ inbox \in Seq(InboxRow) /\ row \in InboxRow /\ handled \in Seq(Nat)
        /\ Len(handled) = Len(inbox) /\ Len(inbox) \in Nat
    BY ElementFacts DEF IInv, TypeOK, InboxRow, HandlingsAreCounted
  <1>3. /\ Len(inbox') = n /\ inbox'[n] = row /\ \A q \in 1..Len(inbox) : inbox'[q] = inbox[q]
    <2> HIDE DEF row
    <2> QED BY <1>1, <1>2, AppendProperties
  <1>4. handled'[n] = 0 /\ \A q \in 1..Len(inbox) : handled'[q] = handled[q]
    BY <1>1, <1>2, AppendProperties
  <1>5. /\ \A q \in 1..Len(inbox) : ItemState(q)' = ItemState(q)
        /\ ItemState(n)' = "queued"
    BY <1>3, <1>4 DEF ItemState
  <1> DEFINE item == [to |-> e, state |-> "queued"]
  <1>6. /\ Items' = [q \in 1..n |-> [to |-> inbox'[q].target, state |-> ItemState(q)']]
        /\ [to |-> inbox'[n].target, state |-> ItemState(n)'] = item
    BY <1>3, <1>5 DEF Items
  <1>7. \A q \in 1..Len(inbox) : Items[q] = [to |-> inbox'[q].target, state |-> ItemState(q)']
    BY <1>3, <1>5 DEF Items
  <1>8. DOMAIN Items = 1..Len(inbox) /\ DOMAIN Items' = 1..n
    BY <1>6 DEF Items
  <1>9. 1..n = (1..Len(inbox)) \union {n} /\ n \notin 1..Len(inbox) /\ \A q \in 1..Len(inbox) : q < n
    BY <1>2
  <1>10. Items' = [q \in DOMAIN Items \union {n} |-> IF q = n THEN item ELSE Items[q]]
    <2> HIDE DEF Items, item, ItemState
    <2> QED BY <1>6, <1>7, <1>8, <1>9
  <1> QED BY <1>1, <1>8, <1>9, <1>10 DEF Promise!Accept, Promise!Numbers, Items

LEMMA HandlerHandles ==
  ASSUME IInv, NEW e \in Endpoints, HandlerReturns(e), NEW r \in Nat, r = inFlight[e]
  PROVE  Promise!Handle(r) \/ UNCHANGED <<Items, gap>>
  <1>1. /\ r # NoRow /\ ~done[e] /\ handled' = [handled EXCEPT ![r] = @ + 1]
        /\ UNCHANGED <<inbox, gap>>
    BY DEF HandlerReturns, Handling, durable
  <1>2. /\ r \in 1..Len(inbox) /\ inbox[r].target = e /\ inbox[r].status = "pending"
    BY <1>1 DEF IInv, SlotsAreOrderedRows, SlotsInOrder, PendingRowOf
  <1>3. /\ Len(inbox) \in Nat /\ handled \in [1..Len(inbox) -> Nat]
    <2>1. handled \in Seq(Nat) /\ Len(handled) = Len(inbox)
      BY DEF IInv, TypeOK, HandlingsAreCounted
    <2> QED BY <2>1, LenProperties
  <1>4. handled'[r] = handled[r] + 1 /\ \A q \in 1..Len(inbox) \ {r} : handled'[q] = handled[q]
    BY <1>1, <1>2, <1>3
  <1>5. \A q \in 1..Len(inbox) \ {r} : ItemState(q)' = ItemState(q)
    BY <1>1, <1>4 DEF ItemState
  <1>6. ItemState(r)' = "handled" /\ ItemState(r) = IF handled[r] > 0 THEN "handled" ELSE "queued"
    BY <1>1, <1>2, <1>3, <1>4 DEF ItemState
  <1>7. Items' = [Items EXCEPT ![r].state = "handled"]
    BY <1>1, <1>2, <1>5, <1>6, ItemChange DEF IInv
  <1>8. CASE handled[r] > 0
    <2>1. \A q \in 1..Len(inbox) : ItemState(q)' = ItemState(q)
      BY <1>5, <1>6, <1>8
    <2> QED BY <1>1, <2>1 DEF Items
  <1>9. CASE ~(handled[r] > 0)
    <2>1. Items[r].state = "queued" /\ Items[r].to = e
      BY <1>2, <1>6, <1>9 DEF Items
    <2>2. e \in gap \/ \A q \in DOMAIN Items : q < r /\ Items[q].to = Items[r].to =>
                        Items[q].state = "settled"
      <3> SUFFICES ASSUME e \notin gap, NEW q \in DOMAIN Items, q < r, Items[q].to = e
                   PROVE  Items[q].state = "settled"
        BY <2>1
      <3>1. q \in 1..Len(inbox) /\ q < r
        BY DEF Items
      <3>2. inbox[q].target = e
        BY <3>1 DEF Items
      <3>3. inbox[q].status = "consumed"
        BY <1>1, <3>1, <3>2 DEF IInv, InFlightComesFirst
      <3> QED BY <3>1, <3>3 DEF Items, ItemState
    <2> QED BY <1>1, <1>7, <2>1, <2>2 DEF Promise!Handle, Promise!EarlierSettled, Promise!Numbers, Items
  <1> QED BY <1>8, <1>9

LEMMA TakeNextSettles ==
  ASSUME IInv, NEW e \in Endpoints, TakeNext(e), NEW r \in Nat, r = inFlight[e]
  PROVE  Promise!Settle(r)
  <1>1. done[e] /\ Ack(e) /\ UNCHANGED <<handled, gap>>
    BY DEF TakeNext, history
  <1>2. /\ r \in 1..Len(inbox) /\ inbox[r].status = "pending" /\ handled[r] > 0
    BY <1>1 DEF IInv, ConsumersMatchMailboxes, SlotsAreOrderedRows, SlotsInOrder, PendingRowOf,
                HandlingsAreCounted
  <1>3. /\ Len(inbox') = Len(inbox)
        /\ \A q \in 1..Len(inbox) : /\ inbox'[q].target = inbox[q].target
                                    /\ inbox'[q].status = IF q = r THEN "consumed" ELSE inbox[q].status
    BY <1>1, <1>2, AckFacts DEF IInv
  <1>4. \A q \in 1..Len(inbox) \ {r} : ItemState(q)' = ItemState(q)
    BY <1>1, <1>3 DEF ItemState
  <1>5. ItemState(r)' = "settled" /\ ItemState(r) = "handled"
    BY <1>2, <1>3 DEF ItemState
  <1>6. Items' = [Items EXCEPT ![r].state = "settled"]
    BY <1>2, <1>3, <1>4, <1>5, ItemChange DEF IInv
  <1>7. Items[r].state = "handled"
    BY <1>2, <1>5 DEF Items
  <1> QED BY <1>1, <1>6, <1>7 DEF Promise!Settle, Items

LEMMA StepsKeepThePromise ==
  ASSUME IInv, [Next]_vars
  PROVE  [Promise!Next]_<<Items, gap>>
  <1>1. ASSUME UNCHANGED <<inbox, handled, gap>> PROVE UNCHANGED <<Items, gap>>
    BY <1>1, ItemsStay
  <1>2. CASE Boot
    <2>1. gap \subseteq gap' /\ gap' \subseteq Endpoints /\ UNCHANGED <<inbox, handled>>
      BY <1>2 DEF Boot, durable, IInv, TypeOK
    <2>2. Promise!PassOver
      BY <2>1, ItemsStay DEF Promise!PassOver, Items
    <2> QED BY <2>2 DEF Promise!Next
  <1>3. CASE RecoverRow \/ RecoverEnd \/ Crash \/ (\E t \in Endpoints : PublishAppend(t)) \/ Discard
             \/ UNCHANGED vars
    BY <1>1, <1>3 DEF RecoverRow, RecoverEnd, Crash, PublishAppend, Discard, durable, history, vars
  <1>4. CASE Deliver
    <2>1. PICK e \in Endpoints : e = publishing.target
      BY DEF IInv, TypeOK
    <2>2. \E i \in DOMAIN Items' \ DOMAIN Items : Promise!Accept(i, e)
      BY <1>4, <2>1, DeliverAccepts
    <2> QED BY <2>2 DEF Promise!Next, Promise!Numbers, Items
  <1>5. ASSUME NEW e \in Endpoints, Consume(e) PROVE [Promise!Next]_<<Items, gap>>
    <2> PICK r \in Nat : r = inFlight[e]
      BY DEF IInv, TypeOK
    <2>1. r # NoRow => r \in DOMAIN Items
      BY DEF IInv, SlotsAreOrderedRows, SlotsInOrder, PendingRowOf, Items
    <2>2. CASE HandlerReturns(e)
      <3>1. r # NoRow
        BY <2>2 DEF HandlerReturns, Handling
      <3> QED BY <2>1, <2>2, <3>1, HandlerHandles DEF Promise!Next, Promise!Numbers, Items
    <2>3. CASE TakeNext(e)
      <3>1. r # NoRow
        BY <2>3 DEF TakeNext, IInv, ConsumersMatchMailboxes
      <3> QED BY <2>1, <2>3, <3>1, TakeNextSettles DEF Promise!Next, Promise!Numbers, Items
    <2>4. CASE LoopExit(e)
      BY <1>1, <2>4 DEF LoopExit, durable, history
    <2> QED BY <1>5, <2>2, <2>3, <2>4 DEF Consume
  <1>6. ASSUME NEW a \in Agents, Manage(a) PROVE UNCHANGED <<Items, gap>>
    BY <1>1, <1>6 DEF Manage, CreateAgent, SuspendAgent, ResumeAgent, TerminateAgent, history
  <1> QED BY <1>2, <1>3, <1>4, <1>5, <1>6 DEF Next

(* The durable bus keeps the promise of AtLeastOnce (index.ts:28-34, 179-183),
   for any number of events, endpoints and crashes. *)
THEOREM Refinement == Spec => ImplementsPromise
  <1>1. Init => Promise!Init
    <2> SUFFICES ASSUME Init PROVE Promise!Init
      OBVIOUS
    <2>1. inbox = <<>> /\ gap = {} /\ Len(inbox) = 0
      BY EmptySeq DEF Init
    <2>2. 1..Len(inbox) = {}
      BY <2>1
    <2> QED BY <2>1, <2>2 DEF Promise!Init, Promise!Numbers
  <1>2. IInv /\ [Next]_vars => [Promise!Next]_<<Items, gap>>
    BY StepsKeepThePromise
  <1> QED BY <1>1, <1>2, Invariance, PTL DEF Spec, ImplementsPromise, Promise!Spec, Items

=============================================================================
