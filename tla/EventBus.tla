------------------------------ MODULE EventBus ------------------------------
(***************************************************************************)
(* The durable point-to-point event bus of @xevos/core:                    *)
(*   core/event-bus/index.ts  (Mailbox, EventBus),                         *)
(*   core/event-bus/store.ts  (the events and inbox tables),               *)
(* together with the consumer loops that drive it (core/agents/index.ts    *)
(* and the services) and the boot sequence of src/index.ts.                *)
(*                                                                         *)
(* One JavaScript thread runs everything, so a synchronous function is     *)
(* atomic towards every other handler; only the death of the process can   *)
(* fall between two of its database writes.  `publishing' holds a publish  *)
(* whose audit-log row is written and whose delivery is not, and every     *)
(* action but Crash waits for it.                                          *)
(***************************************************************************)
EXTENDS Integers, Sequences, FiniteSets

CONSTANTS
  Services,      \* endpoints subscribed by every boot (task, agent, audit service)
  Agents,        \* agent ids that may come to exist
  AgentService,  \* the service whose handlers suspend, resume and terminate
  Executive,     \* the agent the Principal's messages go to, seeded with the database
  MaxEvents,     \* bound on published events
  MaxCrashes     \* bound on process deaths

ASSUME EndpointsAssumption ==
  /\ Services \cap Agents = {}
  /\ AgentService \in Services
  /\ Executive \in Agents

ASSUME BoundsAssumption == MaxEvents \in Nat /\ MaxCrashes \in Nat

Endpoints == Services \cup Agents

NoRow   == 0                            \* rows are numbered from 1
NoEvent == [seq |-> 0, target |-> AgentService]

VARIABLES
  (* durable: the SQLite file *)
  log,         \* events table: sequence of [seq, target] in insertion order
  inbox,       \* inbox table: inbox[r] is the row with id r
  roster,      \* status column of the agents table
  (* volatile: the process *)
  phase,       \* "down", "recovering" (inside recover()) or "running"
  seq,         \* EventBus.seq
  publishing,  \* the event between append and enqueue, or NoEvent
  recoverAt,   \* next row recover() looks at
  subscribed,  \* keys of EventBus.mailboxes
  queue,       \* Mailbox.queue, as inbox row ids
  waiter,      \* whether Mailbox.waiter is set
  inFlight,    \* Mailbox.inFlight, as a row id or NoRow
  done,        \* the handler of the in-flight event has returned
  (* history, read by the properties only *)
  handled,     \* handled[r]: completed handlings of row r
  joined,      \* length of inbox when the endpoint subscribed (0: at boot)
  gap,         \* endpoints with rows some boot left pending
  crashes

durable  == <<log, inbox, roster>>
mailbox  == <<queue, waiter, inFlight, done>>
history  == <<handled, joined, gap>>
vars == <<log, inbox, roster, phase, seq, publishing, recoverAt, subscribed,
          queue, waiter, inFlight, done, handled, joined, gap, crashes>>

-----------------------------------------------------------------------------
(* Helpers *)

Statuses == {"absent", "active", "suspended", "deleted"}

(* Mutation of MaxSeq: the counter restarts at zero. *)
MaxSeqNotRestored == 0

(* store.maxSeq(): the largest seq in the events table, 0 when it is empty. *)
MaxSeq == IF log = <<>> THEN 0
          ELSE CHOOSE n \in {log[i].seq : i \in 1..Len(log)} :
                 \A i \in 1..Len(log) : log[i].seq <= n

Pending(r) == inbox[r].status = "pending"

(* The endpoints a boot subscribes: the services and the active agents. *)
Launched == Services \cup {a \in Agents : roster[a] = "active"}

Handling(e) == inFlight[e] # NoRow /\ ~done[e]

(* JavaScript runs to completion: no handler runs while one is inside publish
   or main() is still inside recover(). *)
Idle == phase = "running" /\ publishing = NoEvent

(* Mutations of Push: the parked consumer is not woken; the slot jumps the queue. *)
PushWithoutWaking(e, r) ==
  queue' = [queue EXCEPT ![e] = Append(@, r)] /\ UNCHANGED <<waiter, inFlight, done>>

PushToFront(e, r) ==
  \/ /\ waiter[e]
     /\ waiter'   = [waiter EXCEPT ![e] = FALSE]
     /\ inFlight' = [inFlight EXCEPT ![e] = r]
     /\ UNCHANGED <<queue, done>>
  \/ /\ ~waiter[e]
     /\ queue' = [queue EXCEPT ![e] = <<r>> \o @]
     /\ UNCHANGED <<waiter, inFlight, done>>

(* Mailbox.push: hand the slot to a parked consumer, or queue it. *)
Push(e, r) ==
  \/ /\ waiter[e]
     /\ waiter'   = [waiter EXCEPT ![e] = FALSE]
     /\ inFlight' = [inFlight EXCEPT ![e] = r]
     /\ UNCHANGED <<queue, done>>
  \/ /\ ~waiter[e]
     /\ queue' = [queue EXCEPT ![e] = Append(@, r)]
     /\ UNCHANGED <<waiter, inFlight, done>>

(* Mutations of Ack: the row stays pending; the endpoint's whole backlog is
   acknowledged. *)
AckForgotten(e) == UNCHANGED inbox

AckBacklog(e) ==
  inbox' = [r \in DOMAIN inbox |->
              IF inbox[r].target = e
              THEN [inbox[r] EXCEPT !.status = "consumed"] ELSE inbox[r]]

Ack(e) == inbox' = [inbox EXCEPT ![inFlight[e]].status = "consumed"]

(* A new mailbox whose consumer has called takeNext and parked. *)
Subscribe(e) ==
  /\ subscribed' = subscribed \cup {e}
  /\ queue'    = [queue EXCEPT ![e] = <<>>]
  /\ waiter'   = [waiter EXCEPT ![e] = TRUE]
  /\ inFlight' = [inFlight EXCEPT ![e] = NoRow]
  /\ done'     = [done EXCEPT ![e] = FALSE]
  /\ joined'   = [joined EXCEPT ![e] = Len(inbox)]

-----------------------------------------------------------------------------
(* Initial state: a seeded database and no process. *)

ProcessDead ==
  /\ phase = "down"
  /\ seq = 0
  /\ publishing = NoEvent
  /\ recoverAt = 1
  /\ subscribed = {}
  /\ queue    = [e \in Endpoints |-> <<>>]
  /\ waiter   = [e \in Endpoints |-> FALSE]
  /\ inFlight = [e \in Endpoints |-> NoRow]
  /\ done     = [e \in Endpoints |-> FALSE]

Init ==
  /\ log = <<>>
  /\ inbox = <<>>
  /\ roster = [a \in Agents |-> IF a = Executive THEN "active" ELSE "absent"]
  /\ ProcessDead
  /\ handled = <<>>
  /\ joined = [e \in Endpoints |-> 0]
  /\ gap = {}
  /\ crashes = 0

-----------------------------------------------------------------------------
(* The process: boot, recovery, crash *)

(* main() up to recover(): the bus reads maxSeq, the service and agent
   constructors subscribe, and every start() runs its loop up to the parked
   takeNext.  Without an executive it fails: seedDefaults would insert its
   counter a second time. *)
Boot ==
  /\ phase = "down"
  /\ roster[Executive] # "deleted"
  /\ phase' = "recovering"
  /\ seq' = MaxSeq
  /\ recoverAt' = 1
  /\ subscribed' = Launched
  /\ queue'    = [e \in Endpoints |-> <<>>]
  /\ waiter'   = [e \in Endpoints |-> e \in Launched]
  /\ inFlight' = [e \in Endpoints |-> NoRow]
  /\ done'     = [e \in Endpoints |-> FALSE]
  /\ joined'   = [e \in Endpoints |-> 0]
  /\ gap' = gap \cup {e \in Endpoints \ Launched :
                        \E r \in 1..Len(inbox) : inbox[r].target = e /\ Pending(r)}
  /\ UNCHANGED <<durable, publishing, handled, crashes>>

(* Mutation of RecoverEnd: the last pending row is left out. *)
RecoverEndEarly ==
  /\ phase = "recovering"
  /\ recoverAt >= Len(inbox)
  /\ phase' = "running"
  /\ UNCHANGED <<durable, seq, publishing, recoverAt, subscribed, mailbox,
                 history, crashes>>

(* One round of the loop in recover(), in row order; the loop's end. *)
RecoverRow ==
  /\ phase = "recovering"
  /\ recoverAt <= Len(inbox)
  /\ recoverAt' = recoverAt + 1
  /\ IF Pending(recoverAt) /\ inbox[recoverAt].target \in subscribed
     THEN Push(inbox[recoverAt].target, recoverAt)
     ELSE UNCHANGED mailbox
  /\ UNCHANGED <<durable, phase, seq, publishing, subscribed, history, crashes>>

RecoverEnd ==
  /\ phase = "recovering"
  /\ recoverAt > Len(inbox)
  /\ phase' = "running"
  /\ UNCHANGED <<durable, seq, publishing, recoverAt, subscribed, mailbox,
                 history, crashes>>

(* The process dies: everything volatile is lost, the database stays. *)
Crash ==
  /\ phase # "down"
  /\ crashes < MaxCrashes
  /\ crashes' = crashes + 1
  /\ phase' = "down"
  /\ seq' = 0
  /\ publishing' = NoEvent
  /\ recoverAt' = 1
  /\ subscribed' = {}
  /\ queue'    = [e \in Endpoints |-> <<>>]
  /\ waiter'   = [e \in Endpoints |-> FALSE]
  /\ inFlight' = [e \in Endpoints |-> NoRow]
  /\ done'     = [e \in Endpoints |-> FALSE]
  /\ UNCHANGED <<durable, history>>

-----------------------------------------------------------------------------
(* publish: one synchronous function, two database writes *)

(* Number the event and append it to the audit log.  The caller is a handler,
   or the Principal writing to the executive over the observer's socket. *)
PublishAppend(t) ==
  /\ Idle
  /\ t = Executive \/ \E s \in Endpoints : Handling(s)
  /\ Len(log) < MaxEvents
  /\ seq' = seq + 1
  /\ log' = Append(log, [seq |-> seq + 1, target |-> t])
  /\ publishing' = [seq |-> seq + 1, target |-> t]
  /\ UNCHANGED <<inbox, roster, phase, recoverAt, subscribed, mailbox, history,
                 crashes>>

(* The target has a mailbox: queue a durable row, then push the slot. *)
Deliver ==
  /\ publishing # NoEvent
  /\ publishing.target \in subscribed
  /\ inbox' = Append(inbox, [target |-> publishing.target,
                             event |-> publishing.seq, status |-> "pending"])
  /\ handled' = Append(handled, 0)
  /\ Push(publishing.target, Len(inbox) + 1)
  /\ publishing' = NoEvent
  /\ UNCHANGED <<log, roster, phase, seq, recoverAt, subscribed, joined, gap,
                 crashes>>

(* No mailbox: publish returns with the log row as the only trace. *)
Discard ==
  /\ publishing # NoEvent
  /\ publishing.target \notin subscribed
  /\ publishing' = NoEvent
  /\ UNCHANGED <<durable, phase, seq, recoverAt, subscribed, mailbox, history,
                 crashes>>

-----------------------------------------------------------------------------
(* The consumer loop of an agent or a service *)

(* `await this.handle(event)' settles, by return or by a caught exception. *)
HandlerReturns(e) ==
  /\ Idle
  /\ Handling(e)
  /\ done' = [done EXCEPT ![e] = TRUE]
  /\ handled' = [handled EXCEPT ![inFlight[e]] = @ + 1]
  /\ UNCHANGED <<durable, phase, seq, publishing, recoverAt, subscribed, queue,
                 waiter, inFlight, joined, gap, crashes>>

(* takeNext: acknowledge the previous event, then take a slot or park. *)
TakeNext(e) ==
  /\ Idle
  /\ done[e]
  /\ e \in subscribed
  /\ Ack(e)
  /\ done' = [done EXCEPT ![e] = FALSE]
  /\ \/ /\ queue[e] # <<>>
        /\ inFlight' = [inFlight EXCEPT ![e] = Head(queue[e])]
        /\ queue' = [queue EXCEPT ![e] = Tail(@)]
        /\ UNCHANGED waiter
     \/ /\ queue[e] = <<>>
        /\ inFlight' = [inFlight EXCEPT ![e] = NoRow]
        /\ waiter' = [waiter EXCEPT ![e] = TRUE]
        /\ UNCHANGED queue
  /\ UNCHANGED <<log, roster, phase, seq, publishing, recoverAt, subscribed,
                 history, crashes>>

(* A stopped loop ends at its `while (this.running)' and never acknowledges. *)
LoopExit(e) ==
  /\ Idle
  /\ done[e]
  /\ e \notin subscribed
  /\ done' = [done EXCEPT ![e] = FALSE]
  /\ inFlight' = [inFlight EXCEPT ![e] = NoRow]
  /\ UNCHANGED <<durable, phase, seq, publishing, recoverAt, subscribed, queue,
                 waiter, history, crashes>>

-----------------------------------------------------------------------------
(* The agent service's operations, as far as the bus sees them *)

(* create(): insert the agent and launch it.  Ids are never reused. *)
CreateAgent(a) ==
  /\ Idle
  /\ \E s \in Agents \cup {AgentService} : Handling(s)
  /\ roster[a] = "absent"
  /\ roster' = [roster EXCEPT ![a] = "active"]
  /\ Subscribe(a)
  /\ UNCHANGED <<log, inbox, phase, seq, publishing, recoverAt, handled, gap,
                 crashes>>

(* handleSuspension only writes the status: the agent's loop goes on with the
   config it was launched with. *)
SuspendAgent(a) ==
  /\ Idle
  /\ Handling(AgentService)
  /\ roster[a] = "active"
  /\ roster' = [roster EXCEPT ![a] = "suspended"]
  /\ UNCHANGED <<log, inbox, phase, seq, publishing, recoverAt, subscribed,
                 mailbox, history, crashes>>

(* Mutation of ResumeAgent: resuming runs recover() again. *)
ResumeWithReplay(a) ==
  /\ Idle
  /\ Handling(AgentService)
  /\ roster[a] = "suspended"
  /\ roster' = [roster EXCEPT ![a] = "active"]
  /\ \/ a \in subscribed /\ UNCHANGED <<subscribed, mailbox, joined>>
     \/ a \notin subscribed /\ Subscribe(a)
  /\ phase' = "recovering"
  /\ recoverAt' = 1
  /\ UNCHANGED <<log, inbox, seq, publishing, handled, gap, crashes>>

(* handleResume: write the status, and launch unless the agent still runs.
   launch() subscribes an empty mailbox and replays nothing. *)
ResumeAgent(a) ==
  /\ Idle
  /\ Handling(AgentService)
  /\ roster[a] = "suspended"
  /\ roster' = [roster EXCEPT ![a] = "active"]
  /\ \/ a \in subscribed /\ UNCHANGED <<subscribed, mailbox, joined>>
     \/ a \notin subscribed /\ Subscribe(a)
  /\ UNCHANGED <<log, inbox, phase, seq, publishing, recoverAt, handled, gap,
                 crashes>>

(* handleTermination: stop() unsubscribes, so the mailbox is garbage; an event
   in flight is still handled, by a loop that will not come back for more. *)
TerminateAgent(a) ==
  /\ Idle
  /\ Handling(AgentService)
  /\ roster[a] \in {"active", "suspended"}
  /\ roster' = [roster EXCEPT ![a] = "deleted"]
  /\ subscribed' = subscribed \ {a}
  /\ queue'  = [queue EXCEPT ![a] = <<>>]
  /\ waiter' = [waiter EXCEPT ![a] = FALSE]
  /\ UNCHANGED <<log, inbox, phase, seq, publishing, recoverAt, inFlight, done,
                 history, crashes>>

-----------------------------------------------------------------------------
(* Specification *)

Consume(e) == HandlerReturns(e) \/ TakeNext(e) \/ LoopExit(e)

Manage(a) == \/ CreateAgent(a)
             \/ SuspendAgent(a)
             \/ ResumeAgent(a)
             \/ TerminateAgent(a)

Next ==
  \/ Boot \/ RecoverRow \/ RecoverEnd \/ Crash
  \/ \E t \in Endpoints : PublishAppend(t)
  \/ Deliver \/ Discard
  \/ \E e \in Endpoints : Consume(e)
  \/ \E a \in Agents : Manage(a)

Spec == Init /\ [][Next]_vars

(* The process is restarted after a crash, runs what it is inside of, and
   every handler returns (model calls give up after maxRetries).  Nobody is
   obliged to publish, to crash or to manage agents. *)
Fairness ==
  /\ WF_vars(Boot \/ RecoverRow \/ RecoverEnd)
  /\ WF_vars(Deliver \/ Discard)
  /\ \A e \in Endpoints : WF_vars(HandlerReturns(e)) /\ WF_vars(TakeNext(e))

FairSpec == Spec /\ Fairness

-----------------------------------------------------------------------------
(* Properties *)

(* Every variable ranges over the values the code can store in it. *)
TypeOK ==
  /\ log \in Seq([seq : Nat, target : Endpoints])
  /\ inbox \in Seq([target : Endpoints, event : Nat,
                    status : {"pending", "consumed"}])
  /\ roster \in [Agents -> Statuses]
  /\ phase \in {"down", "recovering", "running"}
  /\ seq \in Nat
  /\ publishing \in [seq : Nat, target : Endpoints]
  /\ recoverAt \in Nat
  /\ subscribed \in SUBSET Endpoints
  /\ queue \in [Endpoints -> Seq(Nat)]
  /\ waiter \in [Endpoints -> BOOLEAN]
  /\ inFlight \in [Endpoints -> Nat]
  /\ done \in [Endpoints -> BOOLEAN]
  /\ handled \in Seq(Nat)
  /\ joined \in [Endpoints -> Nat]
  /\ gap \in SUBSET Endpoints
  /\ crashes \in Nat

(* Event ids stay strictly increasing across any number of restarts, although
   the counter that makes them is volatile and two statements in front of the
   insert that records it (index.ts:103, 107, 155). *)
EventIdsIncrease ==
  \A i, j \in 1..Len(log) : i < j => log[i].seq < log[j].seq

(* A parked consumer has nothing to do: no slot waits in its queue and none is
   unacknowledged.  Otherwise the wake-up was missed and the endpoint sleeps on
   its work (index.ts:42-49, 55-71). *)
NoMissedWakeup ==
  \A e \in Endpoints : waiter[e] => queue[e] = <<>> /\ inFlight[e] = NoRow

(* A mailbox hands out rows in the order they were queued, and holds no row
   twice: the slots and the row in flight are strictly increasing row ids, all
   of them rows addressed to this endpoint that nobody has acknowledged. *)
MailboxHoldsPendingRowsInOrder ==
  \A e \in Endpoints :
    LET slots == IF inFlight[e] = NoRow THEN queue[e]
                 ELSE <<inFlight[e]>> \o queue[e]
    IN  /\ \A i, j \in 1..Len(slots) : i < j => slots[i] < slots[j]
        /\ \A i \in 1..Len(slots) :
             /\ slots[i] \in 1..Len(inbox)
             /\ inbox[slots[i]].target = e
             /\ Pending(slots[i])

Held(e) == {inFlight[e]} \cup {queue[e][i] : i \in 1..Len(queue[e])}

(* No durable row is stranded: once recovery is over, the mailbox of a live
   endpoint holds every unacknowledged row addressed to it, those older than a
   late subscription excepted (index.ts:157-164, 184-194). *)
NoStrandedRow ==
  phase = "running" =>
    \A r \in 1..Len(inbox) :
      LET e == inbox[r].target
      IN  Pending(r) /\ e \in subscribed /\ r > joined[e] => r \in Held(e)

(* An acknowledged event has been handled: no crash can fall between the
   acknowledgement and the work (index.ts:28-34). *)
ConsumedWasHandled ==
  \A r \in 1..Len(inbox) : inbox[r].status = "consumed" => handled[r] > 0

(* Across crashes and replays an endpoint handles its events in the order they
   were queued, and touches one only after acknowledging all before it; so a
   crash repeats at most one event per endpoint.  Endpoints with a backlog that
   a boot passed over are the exception. *)
HandledAfterEarlierConsumed ==
  \A r, s \in 1..Len(inbox) :
    /\ r < s
    /\ inbox[r].target = inbox[s].target
    /\ inbox[s].target \notin gap
    /\ handled[s] > 0
    => inbox[r].status = "consumed"

(* At-least-once, and not more often than the process died: a replayed event
   is repeated at most once per crash. *)
RepeatedOnlyByCrashes ==
  \A r \in 1..Len(inbox) : handled[r] <= crashes + 1

(* The detailed bus implements the promise of AtLeastOnce. *)
ItemState(r) == IF inbox[r].status = "consumed" THEN "settled"
                ELSE IF handled[r] > 0 THEN "handled" ELSE "queued"

Promise == INSTANCE AtLeastOnce WITH
  Recipients <- Endpoints,
  items   <- [r \in 1..Len(inbox) |->
                [to |-> inbox[r].target, state |-> ItemState(r)]],
  skipped <- gap

ImplementsPromise == Promise!Spec

(* Row r exists and is acknowledged, or its agent is not (or no longer) active. *)
Queued(r) == r \in DOMAIN inbox
Inactive(e) == e \in Agents /\ roster[e] # "active"
SettledOrInactive(r) ==
  Queued(r) /\ (inbox[r].status = "consumed" \/ Inactive(inbox[r].target))

(* Nothing boots again without the executive. *)
Headless == roster[Executive] = "deleted"

(* Every durably queued event is acknowledged in the end, as long as its agent
   stays in the roster as active, no boot passed over its backlog and the
   executive is not terminated (agents/index.ts:72-85, index.ts:52-72, 184-201). *)
AcceptedIsConsumed ==
  \A r \in 1..MaxEvents :
    Queued(r) ~> \/ SettledOrInactive(r)
                 \/ Queued(r) /\ inbox[r].target \in gap
                 \/ Headless

-----------------------------------------------------------------------------
(* The inductive invariant behind the safety properties.  It is proved in
   EventBusProofs. *)

(* The counter is the length of the log, and the log is numbered 1, 2, ... *)
LogIsNumbered ==
  /\ \A i \in 1..Len(log) : log[i].seq = i
  /\ phase # "down" => seq = Len(log)

(* A row of the inbox that belongs to endpoint e and is not acknowledged. *)
PendingRowOf(r, e) ==
  r \in 1..Len(inbox) /\ inbox[r].target = e /\ inbox[r].status = "pending"

(* Consumers: a dead process has none; a mailbox outside the map receives
   nothing; a subscribed agent is in the roster; a subscribed consumer is parked or busy. *)
ConsumersMatchMailboxes ==
  /\ phase = "down" => subscribed = {} /\ \A e \in Endpoints : inFlight[e] = NoRow
  /\ \A a \in Agents \cap subscribed : roster[a] \in {"active", "suspended"}
  /\ \A e \in Endpoints :
       /\ waiter[e] => queue[e] = <<>> /\ inFlight[e] = NoRow /\ ~done[e]
       /\ done[e] => inFlight[e] # NoRow
       /\ e \in subscribed => waiter[e] \/ inFlight[e] # NoRow
       /\ e \notin subscribed => queue[e] = <<>> /\ ~waiter[e]
       /\ phase # "running" => ~done[e]
       /\ joined[e] <= Len(inbox)

(* Slots: pending rows of the endpoint, in increasing order, and none that
   recovery has not come to. *)
SlotsInOrder(e) ==
  /\ inFlight[e] # NoRow => PendingRowOf(inFlight[e], e)
  /\ \A i \in 1..Len(queue[e]) :
       PendingRowOf(queue[e][i], e) /\ inFlight[e] < queue[e][i]
  /\ \A i, j \in 1..Len(queue[e]) : i < j => queue[e][i] < queue[e][j]

SlotsBelow(e, r) ==
  inFlight[e] < r /\ \A i \in 1..Len(queue[e]) : queue[e][i] < r

SlotsAreOrderedRows ==
  \A e \in Endpoints :
    SlotsInOrder(e) /\ (phase = "recovering" => SlotsBelow(e, recoverAt))

(* Rows: what a live mailbox must hold while recovery runs and after it. *)
RowsAreHeld ==
  \A r \in 1..Len(inbox) :
    LET e == inbox[r].target
    IN  /\ Pending(r) /\ e \in subscribed /\ r > joined[e]
           /\ (phase = "running" \/ (phase = "recovering" /\ r < recoverAt))
           => r \in Held(e)
        /\ Pending(r) /\ e \in subscribed /\ r <= joined[e] => e \in gap
        /\ Pending(r) /\ e \notin subscribed /\ phase # "down"
           => e \in gap \/ (e \in Agents /\ roster[e] = "deleted")
        /\ phase = "recovering" => joined[e] = 0

(* Handlings: who has been handled how often, and what came before. *)
HandlingsAreCounted ==
  /\ Len(handled) = Len(inbox)
  /\ \A r \in 1..Len(inbox) :
       /\ inbox[r].status = "consumed" => handled[r] > 0
       /\ handled[r] <= crashes + 1
       /\ phase # "running" => handled[r] <= crashes
  /\ \A e \in Endpoints :
       /\ done[e] => handled[inFlight[e]] > 0
       /\ inFlight[e] # NoRow /\ ~done[e] => handled[inFlight[e]] <= crashes
       /\ \A i \in 1..Len(queue[e]) : handled[queue[e][i]] <= crashes

(* Order: in front of the row in flight, everything is acknowledged. *)
InFlightComesFirst ==
  \A e \in Endpoints \ gap : \A r \in 1..Len(inbox) :
    inFlight[e] # NoRow /\ r < inFlight[e] /\ inbox[r].target = e
      => inbox[r].status = "consumed"

IInv ==
  /\ TypeOK
  /\ LogIsNumbered
  /\ ConsumersMatchMailboxes
  /\ SlotsAreOrderedRows
  /\ RowsAreHeld
  /\ HandlingsAreCounted
  /\ InFlightComesFirst
  /\ HandledAfterEarlierConsumed
  /\ publishing # NoEvent => phase = "running"
  /\ recoverAt >= 1

=============================================================================
