----------------------------- MODULE AgentLoop ------------------------------
(***************************************************************************)
(* The run loops of the agents (core/agents/index.ts) and the tools they   *)
(* act with (core/services/tool).  An agent takes one event at a time from *)
(* its mailbox, assembles a context, lets its model call tools, step after *)
(* step, until one of them yields, and records the turn.  A turn that      *)
(* throws is escalated.  Agents are terminated while they work, and the    *)
(* process dies and boots again.                                           *)
(*                                                                         *)
(* The mailbox is taken at the promise EventBus is shown to keep: a row    *)
(* stays pending until its consumer comes back for more.  The organization *)
(* does not grow here (AgentService), and task rows are left out           *)
(* (TaskService).                                                          *)
(***************************************************************************)
EXTENDS Integers, Sequences, FiniteSets, SequencesExt, FiniteSetsExt

CONSTANTS
  Agents,
  RoleOf,       \* agent -> role
  Boss,         \* agent -> the agent or principal it reports to
  Principal,    \* the human, who has no mailbox
  Auditor,      \* the review service
  MaxCalls,     \* bound on the tool calls of one model step
  MaxEvents,    \* bound on events other than automatic escalations
  MaxFailures,  \* bound on failing turns
  MaxStops,     \* bound on terminations
  MaxCrashes    \* bound on process deaths

Roles == {"executive", "head", "manager", "worker"}

ASSUME LadderAssumption ==
  /\ RoleOf \in [Agents -> Roles] /\ Boss \in [Agents -> Agents \union {Principal}]
  /\ Principal \notin Agents /\ Auditor \notin Agents
  /\ \A n \in {MaxCalls, MaxEvents, MaxFailures, MaxStops, MaxCrashes} : n \in Nat

VARIABLES
  log,      \* published events: [kind, to, queued] and history [by, cause]
  inbox,    \* inbox[a]: pending rows of a, by event, in order
  turn,     \* turn[a]: the loop of a
  memory,   \* memory[a]: the events whose turns were recorded, archived ones included
  stopped,  \* stopped[a]: -1, or the number of events when a was terminated
  begun,    \* history: the queued events that were handed out
  unheard,  \* history: the events whose turn failed and whose escalation failed too
  failures,
  crashes

vars == <<log, inbox, turn, memory, stopped, begun, unheard, failures, crashes>>

Running(a)  == stopped[a] = -1
AtStep(a, s) == turn[a].step = s
InHand(a)   == Head(inbox[a])
Owns(a)     == RoleOf[a] = "worker"    \* a sandbox; the workers here are engineers

Waiting == [step |-> "waiting"]
Ended   == [step |-> "ended"]

-----------------------------------------------------------------------------
(* The tools *)

BaseTools == {"request_information", "escalate_blocker", "search_memory", "send_message",
              "update_task_status", "wait_until_response", "get_status"}

Staffing == {"create_subordinate_agent"} \union BaseTools

RoleTools == [worker    |-> {"request_review", "web_search"} \union BaseTools,
              manager   |-> {"create_and_assign_task"} \union Staffing,
              head      |-> Staffing,
              executive |-> {"respond_to_principal"} \union Staffing]

Yields == {"wait_until_response", "escalate_blocker", "request_review"}

Envelope(kind, to) == [kind |-> kind, to |-> to]

SendMessage        == {Envelope("message", b) : b \in Agents}
RequestInformation == {Envelope("information_request", b) : b \in Agents}
EscalateBlocker(a) == Envelope("escalation_request", Boss[a])
RequestReview      == Envelope("review_presentation_request", Auditor)
RespondToPrincipal == Envelope("message", Principal)

(* create_and_assign_task leaves it to the prompt that the assignee is one of
   the manager's workers. *)
Delegate == {Envelope("task_delegation_request", b) : b \in Agents}

(* The events a call of a tool may publish to a mailbox or the principal; the
   other tools read, or write to rows of other modules.  What the observer is
   told of a direct tool goes to nobody else. *)
Sends(a, tool) ==
  CASE tool = "send_message"           -> SendMessage
    [] tool = "request_information"    -> RequestInformation
    [] tool = "escalate_blocker"       -> {EscalateBlocker(a)}
    [] tool = "request_review"         -> {RequestReview}
    [] tool = "respond_to_principal"   -> {RespondToPrincipal}
    [] tool = "create_and_assign_task" -> Delegate
    [] OTHER                           -> {}

(* A tool call: what it will publish, if anything, and whether it yields.
   A call that is refused or throws is a result for the model. *)
ToolCalls(a) ==
  UNION {IF Sends(a, t) = {} THEN {[sends |-> {}, yields |-> t \in Yields]}
         ELSE {[sends |-> {e}, yields |-> t \in Yields] : e \in Sends(a, t)}
           : t \in RoleTools[RoleOf[a]]}

(* What a step of the model may come to: it must call a tool, and may call
   several at once (the same call twice stands for one). *)
Steps == [a \in Agents |->
            {[calls |-> UNION {step[n].sends : n \in 1..MaxCalls},
              last  |-> \E n \in 1..MaxCalls : step[n].yields]
               : step \in [1..MaxCalls -> ToolCalls(a)]}]

-----------------------------------------------------------------------------
(* The bus: the event is logged, and queued if its target is subscribed. *)

(* Of the services, only mailboxes of agents are followed here: what goes to the
   Auditor is the business of Auditor.tla. *)
(* Mutation of Subscribed: stop() leaves the mailbox in the map. *)
SubscribedForever(b) == b \in Agents

Subscribed(b) == b \in Agents /\ stopped[b] = -1

(* Mutation of Publish: the newest event is the next. *)
PublishFirst(env, by, cause) ==
  /\ log' = Append(log, [kind |-> env.kind, to |-> env.to, queued |-> Subscribed(env.to),
                         by |-> by, cause |-> cause])
  /\ inbox' = IF Subscribed(env.to) THEN [inbox EXCEPT ![env.to] = <<Len(log')>> \o @] ELSE inbox

Post(env, queued, by, cause) ==
  /\ log' = Append(log, [kind |-> env.kind, to |-> env.to, queued |-> queued,
                         by |-> by, cause |-> cause])
  /\ inbox' = IF queued THEN [inbox EXCEPT ![env.to] = Append(@, Len(log'))] ELSE inbox

Publish(env, by, cause) == Post(env, Subscribed(env.to), by, cause)

(* Room for one more event of each open tool call, automatic escalations aside. *)
Room(n) ==
  Len(log) - (failures - Cardinality(unheard)) + n
    + MapThenSumSet(LAMBDA a : Cardinality(turn[a].calls), {a \in Agents : AtStep(a, "acting")})
      <= MaxEvents

Init ==
  /\ log = <<>>
  /\ inbox = [a \in Agents |-> <<>>]
  /\ turn = [a \in Agents |-> Waiting]
  /\ memory = [a \in Agents |-> <<>>]
  /\ stopped = [a \in Agents |-> -1]
  /\ begun = {} /\ unheard = {}
  /\ failures = 0 /\ crashes = 0

Executives == {a \in Agents : RoleOf[a] = "executive"}

(* The principal writes to the executive. *)
PrincipalSends ==
  /\ Room(1)
  /\ \E a \in Executives : Publish(Envelope("message", a), Principal, 0)
  /\ UNCHANGED <<turn, memory, stopped, begun, unheard, failures, crashes>>

-----------------------------------------------------------------------------
(* The loop *)

(* takeNext(): a waiting loop is handed the first event.  One that was handed
   it before its agent was stopped handles it all the same. *)
Take(a) ==
  /\ AtStep(a, "waiting") /\ inbox[a] # <<>>
  /\ turn' = [turn EXCEPT ![a] = [step |-> IF Owns(a) THEN "preparing" ELSE "perceiving"]]
  /\ begun' = begun \union {InHand(a)}
  /\ UNCHANGED <<log, inbox, memory, stopped, unheard, failures, crashes>>

(* The container is started before every turn of a worker. *)
PrepareSandbox(a) ==
  /\ AtStep(a, "preparing")
  /\ turn' = [turn EXCEPT ![a].step = "perceiving"]
  /\ UNCHANGED <<log, inbox, memory, stopped, begun, unheard, failures, crashes>>

(* The context is the memory and what the warehouse recalls, which is nothing
   when the recall fails; then the event is put in words. *)
Perceive(a) ==
  /\ AtStep(a, "perceiving")
  /\ turn' = [turn EXCEPT ![a].step = "reasoning"]
  /\ UNCHANGED <<log, inbox, memory, stopped, begun, unheard, failures, crashes>>

Reason(a) ==
  /\ AtStep(a, "reasoning")
  /\ \E step \in Steps[a] :
       /\ Room(Cardinality(step.calls))
       /\ turn' = [turn EXCEPT ![a] = [step |-> "acting", calls |-> step.calls, last |-> step.last]]
  /\ UNCHANGED <<log, inbox, memory, stopped, begun, unheard, failures, crashes>>

(* A task is only created for an agent of the roster. *)
Refused(env) == env.kind = "task_delegation_request" /\ ~Running(env.to)

(* The tools of a step run in parallel. *)
RunTool(a) ==
  /\ AtStep(a, "acting")
  /\ \E env \in turn[a].calls :
       /\ IF Refused(env) THEN UNCHANGED <<log, inbox>> ELSE Publish(env, a, InHand(a))
       /\ turn' = [turn EXCEPT ![a].calls = @ \ {env}]
  /\ UNCHANGED <<memory, stopped, begun, unheard, failures, crashes>>

(* All have returned: stopWhen looks at the calls of the step. *)
Observe(a) ==
  /\ AtStep(a, "acting") /\ turn[a].calls = {}
  /\ turn' = [turn EXCEPT ![a] = [step |-> IF turn[a].last THEN "recording" ELSE "reasoning"]]
  /\ UNCHANGED <<log, inbox, memory, stopped, begun, unheard, failures, crashes>>

(* Mutation of RecordTurn: the event and the answer are recorded apart. *)
RecordTurnTwice(a) ==
  /\ AtStep(a, "recording")
  /\ memory' = [memory EXCEPT ![a] = @ \o <<InHand(a), InHand(a)>>]
  /\ turn' = [turn EXCEPT ![a] = [step |-> "handled"]]
  /\ UNCHANGED <<log, inbox, stopped, begun, unheard, failures, crashes>>

RecordTurn(a) ==
  /\ AtStep(a, "recording")
  /\ memory' = [memory EXCEPT ![a] = Append(@, InHand(a))]
  /\ turn' = [turn EXCEPT ![a] = [step |-> "handled"]]
  /\ UNCHANGED <<log, inbox, stopped, begun, unheard, failures, crashes>>

(* Mutation of Fail: the error is only logged. *)
FailQuietly(a) ==
  /\ turn[a].step \in {"preparing", "perceiving", "reasoning", "recording"}
  /\ failures < MaxFailures
  /\ failures' = failures + 1
  /\ turn' = [turn EXCEPT ![a] = [step |-> "handled"]]
  /\ UNCHANGED <<log, inbox, memory, stopped, begun, unheard, crashes>>

(* The executor runs escalate_blocker in the name of the agent and makes a result of
   what it throws, and nobody looks at the result: the event may have got into the
   log and not into the inbox, or nowhere. *)
Escalate(a) ==
  \/ Publish(EscalateBlocker(a), a, InHand(a)) /\ UNCHANGED unheard
  \/ /\ \/ UNCHANGED <<log, inbox>>
        \/ Subscribed(Boss[a]) /\ Post(EscalateBlocker(a), FALSE, a, InHand(a))
     /\ unheard' = unheard \union {InHand(a)}

(* The container, the database or the model fails, after the retries: nothing
   of the turn is recorded, and onError() escalates. *)
Fail(a) ==
  /\ turn[a].step \in {"preparing", "perceiving", "reasoning", "recording"}
  /\ failures < MaxFailures
  /\ failures' = failures + 1
  /\ Escalate(a)
  /\ turn' = [turn EXCEPT ![a] = [step |-> "handled"]]
  /\ UNCHANGED <<memory, stopped, begun, crashes>>

(* Mutation of GoRound: an event is acknowledged when the next one comes. *)
GoRoundWhenMore(a) ==
  /\ AtStep(a, "handled")
  /\ Running(a) /\ Len(inbox[a]) > 1
  /\ inbox' = [inbox EXCEPT ![a] = Tail(@)]
  /\ turn' = [turn EXCEPT ![a] = Waiting]
  /\ UNCHANGED <<log, memory, stopped, begun, unheard, failures, crashes>>

(* The loop goes round: takeNext() acknowledges the event, unless the agent was
   stopped and the loop ends. *)
GoRound(a) ==
  /\ AtStep(a, "handled")
  /\ \/ /\ Running(a)
        /\ inbox' = [inbox EXCEPT ![a] = Tail(@)]
        /\ turn' = [turn EXCEPT ![a] = Waiting]
     \/ /\ ~Running(a)
        /\ turn' = [turn EXCEPT ![a] = Ended]
        /\ UNCHANGED inbox
  /\ UNCHANGED <<log, memory, stopped, begun, unheard, failures, crashes>>

(* stop() on termination; the executive is nobody's to terminate here.  The open
   turn goes on. *)
Stop(a) ==
  /\ Running(a) /\ Cardinality({b \in Agents : ~Running(b)}) < MaxStops
  /\ RoleOf[a] # "executive"
  /\ stopped' = [stopped EXCEPT ![a] = Len(log)]
  /\ UNCHANGED <<log, inbox, turn, memory, begun, unheard, failures, crashes>>

(* The process dies and boots: the agents whose rows are left are launched, and
   recover() hands them what is pending, the event they had in hand included. *)
Crash ==
  /\ crashes < MaxCrashes
  /\ crashes' = crashes + 1
  /\ turn' = [a \in Agents |-> IF Running(a) THEN Waiting ELSE Ended]
  /\ UNCHANGED <<log, inbox, memory, stopped, begun, unheard, failures>>

(* What goes on without the model. *)
Proceed(a) == \/ Take(a)
              \/ PrepareSandbox(a)
              \/ Perceive(a)
              \/ RunTool(a)
              \/ Observe(a)
              \/ RecordTurn(a)
              \/ GoRound(a)

Next ==
  \/ PrincipalSends
  \/ \E a \in Agents : Proceed(a) \/ Reason(a) \/ Fail(a) \/ Stop(a)
  \/ Crash

Spec == Init /\ [][Next]_vars

(* Nothing is assumed of the model. *)
FairSpec == Spec /\ \A a \in Agents : WF_vars(Proceed(a))

-----------------------------------------------------------------------------
Events == DOMAIN log

Kinds      == {"message", "information_request", "escalation_request",
               "review_presentation_request", "task_delegation_request"}
Addressees == Agents \union {Principal, Auditor}
Envelopes  == [kind : Kinds, to : Addressees]
Turns      == [step : {"waiting", "preparing", "perceiving", "reasoning", "recording", "handled",
                       "ended"}]
                \union [step : {"acting"}, calls : SUBSET Envelopes, last : BOOLEAN]

(* A turn is open on an event in hand, events answer earlier ones, and queued   *)
(* events have a subscriber. *)
TypeOK ==
  /\ log \in Seq([kind : Kinds, to : Addressees, queued : BOOLEAN,
                  by : Agents \union {Principal}, cause : Nat])
  /\ \A i \in Events : log[i].cause < i /\ (log[i].queued => log[i].to \in Agents)
  /\ inbox \in [Agents -> Seq(Events)]
  /\ turn \in [Agents -> Turns]
  /\ \A a \in Agents : /\ turn[a].step \notin {"waiting", "ended"} => inbox[a] # <<>>
                       /\ AtStep(a, "ended") => ~Running(a)
  /\ memory \in [Agents -> Seq(Events)]
  /\ stopped \in [Agents -> -1..Len(log)]
  /\ begun \subseteq Events /\ unheard \subseteq Events
  /\ failures \in 0..MaxFailures /\ crashes \in 0..MaxCrashes

(* The superior has it in its mailbox, unless it was terminated before. *)
Told(a, j) == log[j].queued \/ Boss[a] = Principal \/ stopped[Boss[a]] \in 0..(j - 1)

Complained(a, i) ==
  \E j \in Events : /\ log[j].by = a /\ log[j].cause = i /\ log[j].kind = "escalation_request"
                    /\ log[j].to = Boss[a] /\ Told(a, j)

(* No turn vanishes: an event that is no longer pending has been recorded in    *)
(* its agent's memory, or its superior was told of the failure; so whatever a   *)
(* tool published in a turn that failed half-way is accounted for               *)
(* (agents/index.ts run, onError).  Two things are lost on nobody's desk: the   *)
(* complaint to a superior that was terminated before, and a turn that failed   *)
(* when its escalation failed too (executor.ts execute).                        *)
NoTurnVanishes ==
  \A i \in Events :
    LET a == log[i].to
    IN  log[i].queued /\ i \notin ToSet(inbox[a])
          => i \in ToSet(memory[a]) \/ Complained(a, i) \/ i \in unheard

(* A terminated agent finishes the turn it is in or was handed, and no other:   *)
(* all it still publishes answers one event, which it was sent before.          *)
NothingAfterStop ==
  \A a \in Agents : ~Running(a) =>
    LET late == {log[j].cause : j \in {k \in Events : k > stopped[a] /\ log[k].by = a}}
    IN  Cardinality(late) <= 1 /\ \A i \in late : i <= stopped[a]

(* The memory of an agent follows its mailbox: turns are recorded in the order  *)
(* the events were published, and one is recorded again only after a crash      *)
(* between the record and the acknowledgement.                                  *)
MemoryFollowsMailbox ==
  \A a \in Agents : \A j, k \in DOMAIN memory[a] : j < k =>
    /\ memory[a][j] <= memory[a][k]
    /\ memory[a][j] = memory[a][k] => k - j <= crashes

(* To those who publish, the loops keep the promise of AtLeastOnce. *)
ItemState(i) == IF i \notin ToSet(inbox[log[i].to]) THEN "settled"
                ELSE IF i \in begun THEN "handled" ELSE "queued"

Promise == INSTANCE AtLeastOnce WITH
  Recipients <- Agents,
  items   <- [i \in {k \in Events : log[k].queued} |->
                [to |-> log[i].to, state |-> ItemState(i)]],
  skipped <- {}

ImplementsPromise == Promise!Spec

(* If every model ends its turns, every mailbox of an agent that is not         *)
(* terminated is drained, through failing turns and crashes.                    *)
ModelsYield == \A a \in Agents : []<>(turn[a].step \notin {"reasoning", "acting"})
MailboxesDrain == ModelsYield => \A a \in Agents : <>[](inbox[a] = <<>> \/ ~Running(a))

=============================================================================
