---------------------------- MODULE AgentService ----------------------------
(***************************************************************************)
(* The lifecycle of agents: core/services/agent.ts over                    *)
(* repositories/agent/agent.repository.ts.                                 *)
(*                                                                         *)
(* create() is called straight from the tool calls of a model step, which  *)
(* run in parallel, and by the service's own consume loop, which handles   *)
(* one event at a time.  Every query is synchronous, but the repository    *)
(* functions are async, so create() gives way after the insert and again   *)
(* after the update of the creator; each of its three parts is an action.  *)
(*                                                                         *)
(* An id is <<role, serial>>; roles are numbered down the ladder, 0 being  *)
(* the executive.  Departments are left out: a department is copied from   *)
(* the creator and only splits the serials.                                *)
(***************************************************************************)
EXTENDS Integers, Sequences, FiniteSets

CONSTANTS
  LastRole,          \* the role that creates nobody (worker)
  ToolCalls,         \* create calls that agents' tools may have open at once
  Handler,           \* the service's consume loop
  MaxDepth,          \* MAX_DEPTH
  MaxDirectReports,  \* MAX_DIRECT_REPORTS
  MaxTotalAgents,    \* MAX_TOTAL_AGENTS
  MaxSerial,         \* bound on the serials of a role
  MaxCrashes         \* bound on process deaths

ASSUME LimitsAssumption ==
  /\ LastRole \in Nat /\ MaxDepth \in Nat /\ MaxDirectReports \in Nat
  /\ MaxTotalAgents \in Nat \ {0} /\ MaxSerial \in Nat \ {0} /\ MaxCrashes \in Nat

ASSUME CallersAssumption == Handler \notin ToolCalls

Roles     == 0..LastRole
Ids       == Roles \X (1..MaxSerial)
Role(a)   == a[1]
Executive == <<0, 1>>
Principal == <<0, 0>>                   \* no agent: serials start at 1
Callers   == ToolCalls \cup {Handler}

NoCall == [step |-> "idle", creator |-> Principal, manages |-> <<>>, child |-> Principal]

VARIABLES
  rows,      \* agents table: id -> [reportsTo, manages, status]
  counters,  \* counters table: role -> last serial
  up,        \* the process runs
  loops,     \* loops[a]: run loops of a that were started and not stopped
  calls,     \* the state of each caller's open create or resume
  deleted,   \* history: ids whose row has been deleted
  crashes

vars == <<rows, counters, up, loops, calls, deleted, crashes>>

-----------------------------------------------------------------------------
(* Helpers *)

IsAgent(a) == a \in DOMAIN rows
Idle(c)    == calls[c].step = "idle"
Ends(c)    == calls' = [calls EXCEPT ![c] = NoCall]

(* The walk of depthOf: the agents on the way up from a, at most one more than
   MaxTotalAgents of them. *)
Walk(a) ==
  LET up_to[k \in 0..MaxTotalAgents] ==
        IF k = 0 THEN a
        ELSE IF IsAgent(up_to[k - 1]) THEN rows[up_to[k - 1]].reportsTo
        ELSE up_to[k - 1]
  IN  up_to

(* The walk reaches the Principal: no agent on the way is missing. *)
Rooted(a)  == Walk(a)[MaxTotalAgents] = Principal
DepthOf(a) == Cardinality({k \in 1..MaxTotalAgents : IsAgent(Walk(a)[k])})

(* Mutation of Full: only active agents count. *)
FullOfActive == Cardinality({a \in DOMAIN rows : rows[a].status = "active"}) >= MaxTotalAgents

(* The size limit of the organization. *)
Full == Cardinality(DOMAIN rows) >= MaxTotalAgents

(* Mutation of MayCreate: one report more than the ceiling. *)
MayCreateOneMore(m) ==
  /\ Role(m) # LastRole
  /\ ~Full
  /\ Len(rows[m].manages) <= MaxDirectReports
  /\ Rooted(m)
  /\ DepthOf(m) + 1 <= MaxDepth

(* The spawn policy, in the order create() checks it. *)
MayCreate(m) ==
  /\ Role(m) # LastRole
  /\ ~Full
  /\ Len(rows[m].manages) < MaxDirectReports
  /\ Rooted(m)
  /\ DepthOf(m) + 1 <= MaxDepth

(* Mutation of NextId: the serial is the number of rows of the role plus one. *)
NextIdByCount(r) == <<r, Cardinality({a \in DOMAIN rows : Role(a) = r}) + 1>>

(* The id createAgent mints for role r. *)
NextId(r) == <<r, counters[r] + 1>>

(* Mutations of Launch: no look at the map; nothing is started. *)
LaunchAnyway(a) == loops' = [loops EXCEPT ![a] = @ + 1]
LaunchForgotten(a) == UNCHANGED loops

(* launch(): start the loop of a unless the map has one. *)
Launch(a) == loops' = [loops EXCEPT ![a] = IF @ = 0 THEN 1 ELSE @]

(* stop() and the deletion from the map. *)
Stop(a) == loops' = [loops EXCEPT ![a] = IF @ = 0 THEN 0 ELSE @ - 1]

-----------------------------------------------------------------------------
(* Initial state: the seeded database.  seedDefaults writes 2 to the
   executive's counter although the executive is number 1. *)

Init ==
  /\ rows = [a \in {Executive} |->
               [reportsTo |-> Principal, manages |-> <<>>, status |-> "active"]]
  /\ counters = [r \in Roles |-> IF r = 0 THEN 2 ELSE 0]
  /\ up = FALSE
  /\ loops = [a \in Ids |-> 0]
  /\ calls = [c \in Callers |-> NoCall]
  /\ deleted = {}
  /\ crashes = 0

-----------------------------------------------------------------------------
(* The process *)

(* The constructor launches the active agents.  Without an executive the boot
   fails before it: seedDefaults inserts the counter row a second time. *)
Boot ==
  /\ ~up
  /\ IsAgent(Executive)
  /\ up' = TRUE
  /\ loops' = [a \in Ids |-> IF IsAgent(a) /\ rows[a].status = "active" THEN 1 ELSE 0]
  /\ UNCHANGED <<rows, counters, calls, deleted, crashes>>

Crash ==
  /\ up
  /\ crashes < MaxCrashes
  /\ crashes' = crashes + 1
  /\ up' = FALSE
  /\ loops' = [a \in Ids |-> 0]
  /\ calls' = [c \in Callers |-> NoCall]
  /\ UNCHANGED <<rows, counters, deleted>>

-----------------------------------------------------------------------------
(* create() *)

(* The checks and the insert, up to the first await.  The creator is m, whose
   row is read here and not again.  A tool call is one of a running agent; an
   agent_creation_request names whom it likes.  A refusal changes nothing. *)
BeginCreate(c, m) ==
  /\ up
  /\ Idle(c)
  /\ IsAgent(m)
  /\ c \in ToolCalls => loops[m] > 0
  /\ MayCreate(m)
  /\ LET r == Role(m) + 1
         a == NextId(r)
     IN  /\ counters[r] < MaxSerial
         /\ counters' = [counters EXCEPT ![r] = @ + 1]
         /\ rows' = [b \in DOMAIN rows \cup {a} |->
                       IF b = a THEN [reportsTo |-> m, manages |-> <<>>, status |-> "active"]
                       ELSE rows[b]]
         /\ calls' = [calls EXCEPT ![c] = [step    |-> "inserted",
                                           creator |-> m,
                                           manages |-> rows[m].manages,
                                           child   |-> a]]
  /\ UNCHANGED <<up, loops, deleted, crashes>>

(* The update of the creator's reports, computed from the row read before the
   insert.  It throws if the creator is gone, and the child is never launched. *)
RecordReport(c) ==
  /\ calls[c].step = "inserted"
  /\ LET m == calls[c].creator
     IN  \/ /\ IsAgent(m)
            /\ rows' = [rows EXCEPT ![m].manages = Append(calls[c].manages, calls[c].child)]
            /\ calls' = [calls EXCEPT ![c].step = "recorded"]
         \/ /\ ~IsAgent(m)
            /\ Ends(c)
            /\ UNCHANGED rows
  /\ UNCHANGED <<counters, up, loops, deleted, crashes>>

(* The launch, and the return of create() or of handleResume(). *)
LaunchChild(c) ==
  /\ calls[c].step = "recorded"
  /\ Launch(calls[c].child)
  /\ Ends(c)
  /\ UNCHANGED <<rows, counters, up, deleted, crashes>>

-----------------------------------------------------------------------------
(* The service's other handlers *)

SuspendAgent(a) ==
  /\ up
  /\ Idle(Handler)
  /\ IsAgent(a)
  /\ rows' = [rows EXCEPT ![a].status = "suspended"]
  /\ UNCHANGED <<counters, up, loops, calls, deleted, crashes>>

(* The status, up to the await; LaunchChild is the rest. *)
BeginResume(a) ==
  /\ up
  /\ Idle(Handler)
  /\ IsAgent(a)
  /\ rows' = [rows EXCEPT ![a].status = "active"]
  /\ calls' = [calls EXCEPT ![Handler] = [NoCall EXCEPT !.step = "recorded", !.child = a]]
  /\ UNCHANGED <<counters, up, loops, deleted, crashes>>

(* Stop the loop, then delete the row; nobody else's row is touched.  For an
   unknown id the deletion throws, after the stop. *)
TerminateAgent(a) ==
  /\ up
  /\ Idle(Handler)
  /\ IsAgent(a) \/ loops[a] > 0
  /\ Stop(a)
  /\ rows' = [b \in DOMAIN rows \ {a} |-> rows[b]]
  /\ deleted' = deleted \cup {a}
  /\ UNCHANGED <<counters, up, calls, crashes>>

-----------------------------------------------------------------------------
(* Specification *)

Create(c) == \/ \E m \in Ids : BeginCreate(c, m)
             \/ RecordReport(c)
             \/ LaunchChild(c)

Manage(a) == SuspendAgent(a) \/ BeginResume(a) \/ TerminateAgent(a)

Next ==
  \/ Boot \/ Crash
  \/ \E c \in Callers : Create(c)
  \/ \E a \in Ids : Manage(a)

Spec == Init /\ [][Next]_vars

-----------------------------------------------------------------------------
(* Properties *)

(* Every variable ranges over the values the code can store in it. *)
TypeOK ==
  /\ DOMAIN rows \subseteq Ids
  /\ \A a \in DOMAIN rows :
       rows[a] \in [reportsTo : Ids \cup {Principal}, manages : Seq(Ids),
                    status : {"active", "suspended"}]
  /\ counters \in [Roles -> Nat]
  /\ up \in BOOLEAN
  /\ loops \in [Ids -> Nat]
  /\ calls \in [Callers -> [step : {"idle", "inserted", "recorded"},
                            creator : Ids \cup {Principal},
                            manages : Seq(Ids), child : Ids \cup {Principal}]]
  /\ deleted \in SUBSET Ids
  /\ crashes \in Nat

(* The organization never outgrows its global ceiling, however many create
   calls run at once (agent.ts:141, 277). *)
SizeCapHolds == Cardinality(DOMAIN rows) <= MaxTotalAgents

(* The id of a deleted agent is never given to another one, across restarts:
   inbox rows, tasks and memories that name it stay its own
   (agent.repository.ts:96-112). *)
IdsAreNeverReused == DOMAIN rows \cap deleted = {}

(* No agent has two run loops: the second would take the mailbox of the first
   out of the map and leave its consumer deaf (agent.ts:188). *)
OneLoopPerAgent == \A a \in Ids : loops[a] <= 1

BeingLaunched(a) == \E c \in Callers : calls[c].step # "idle" /\ calls[c].child = a

(* While the process is up every active agent has its loop, or is about to get
   it; the exception is a child whose creator was terminated half-way through
   create() (agent.ts:336-340). *)
ActiveAgentsRun ==
  up => \A a \in DOMAIN rows :
          rows[a].status = "active" =>
            loops[a] > 0 \/ BeingLaunched(a) \/ rows[a].reportsTo \in deleted

(* The list the fan-out ceiling is checked on never grows past that ceiling,
   although create calls check it on rows that are stale by the time they write
   (agent.ts:285, 336). *)
ListsAreBounded == \A m \in DOMAIN rows : Len(rows[m].manages) <= MaxDirectReports

Reports(m) == {a \in DOMAIN rows : rows[a].reportsTo = m}

(* README.md:184-185 "writes run in real transactions (no lost-update races)":
   when no create() is open, every report of an agent is on its list. *)
ReportsAreListed ==
  (\A c \in Callers : Idle(c)) =>
    \A m \in DOMAIN rows : \A a \in Reports(m) :
      \E i \in 1..Len(rows[m].manages) : rows[m].manages[i] = a

-----------------------------------------------------------------------------
(* The inductive invariant behind the safety properties, proved in
   AgentServiceProofs. *)

Known == DOMAIN rows \cup deleted

(* Every id ever given out is at or below its role's counter, and a row names
   a known superior. *)
SerialsAreCounted ==
  /\ \A a \in Known : a[2] <= counters[a[1]]
  /\ \A a \in DOMAIN rows : rows[a].reportsTo \in Known \cup {Principal}

(* Loops and open calls belong to a live process and to known agents. *)
CallsMatchProcess ==
  /\ \A a \in Ids : loops[a] > 0 => up /\ a \in Known
  /\ \A c \in Callers : calls[c].step # "idle" => up /\ calls[c].child \in Known

(* The caller that runs create() has inserted its child under the creator. *)
InsertedUnderCreator ==
  \A c \in Callers :
    calls[c].step = "inserted" =>
      /\ calls[c].creator \in Known
      /\ IsAgent(calls[c].child) => rows[calls[c].child].reportsTo = calls[c].creator

(* A call that is about to write a list has seen it below the ceiling. *)
SnapshotsHaveRoom ==
  \A c \in Callers :
    calls[c].step = "inserted" => Len(calls[c].manages) < MaxDirectReports

IInv ==
  /\ TypeOK
  /\ SizeCapHolds
  /\ IdsAreNeverReused
  /\ OneLoopPerAgent
  /\ ActiveAgentsRun
  /\ SerialsAreCounted
  /\ CallsMatchProcess
  /\ InsertedUnderCreator
  /\ ListsAreBounded
  /\ SnapshotsHaveRoom

=============================================================================
