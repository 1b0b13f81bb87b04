---------------------------- MODULE TaskService ----------------------------
(***************************************************************************)
(* The task board and what closing a task does to its worker's memory:     *)
(* core/services/task.ts, closeTask and recordTurn of                      *)
(* core/services/memory.ts, and the task, agent-memory and warehouse       *)
(* repositories.                                                           *)
(*                                                                         *)
(* transition() is called from the tool calls of model steps, which run in *)
(* parallel, and from the service's consume loop.  It gives way after the  *)
(* read, after the update and all through closeTask; each stretch between  *)
(* two awaits is an action.                                                *)
(***************************************************************************)
EXTENDS Integers, Sequences, FiniteSets

CONSTANTS
  Workers,     \* agents tasks are assigned to
  Managers,    \* agents workers report to
  ManagerOf,   \* the reportsTo column of the workers
  ToolCalls,   \* transitions that tool calls may have open at once
  Consumer,    \* the service's consume loop
  Requested,   \* bound: the statuses callers ask for
  MaxTasks,    \* bound on created tasks
  MaxCalls,    \* bound on calls of transition()
  MaxTurns,    \* bound on recorded turns
  MaxPatches,  \* bound on task_update_requests
  MaxCrashes   \* bound on process deaths

ValidTransitions ==
  [backlog     |-> {"assigned", "cancelled"},
   assigned    |-> {"in_progress", "blocked", "cancelled"},
   in_progress |-> {"blocked", "in_review", "completed", "failed", "cancelled"},
   blocked     |-> {"in_progress", "cancelled", "failed"},
   in_review   |-> {"in_progress", "completed", "failed", "cancelled"},
   completed   |-> {},
   failed      |-> {},
   cancelled   |-> {}]

Statuses == DOMAIN ValidTransitions
Terminal == {"completed", "failed", "cancelled"}

Agents  == Workers \cup Managers
Callers == ToolCalls \cup {Consumer}

ASSUME StaffAssumption ==
  /\ Workers \cap Managers = {}
  /\ ManagerOf \in [Workers -> Managers]
  /\ Consumer \notin ToolCalls

ASSUME BoundsAssumption ==
  /\ Requested \subseteq Statuses
  /\ MaxTasks \in Nat /\ MaxCalls \in Nat /\ MaxTurns \in Nat
  /\ MaxPatches \in Nat /\ MaxCrashes \in Nat

Nobody == "nobody"
NoCall == [step |-> "idle", source |-> Nobody, task |-> 0, to |-> "backlog",
           seen |-> "backlog", worker |-> Nobody, copy |-> {}]

VARIABLES
  board,       \* tasks table: board[t] is task t, [status, assignedTo]
  staff,       \* workers that have a row in the agents table
  memory,      \* agent_memory: the recorded turns of each worker, as numbers
  warehouse,   \* memory_warehouse: sequence of [task, agent, outcome, turns]
  calls,       \* the state of each caller's open transition or update
  turns,       \* turns recorded so far
  (* history, read by the properties only *)
  overlapped,  \* tasks patched, or moved by two calls at once
  completer,   \* who moved task t to completed, Nobody if no transition did
  patched,     \* tasks changed by a task_update_request
  exposed,     \* turns recorded while their worker's memory was being closed
  abandoned,   \* tasks whose close failed or was cut short by a crash
  made,        \* calls of transition() made so far
  patches,
  crashes

store   == <<board, staff, memory, warehouse>>
history == <<overlapped, completer, patched, exposed, abandoned, made,
             patches, crashes>>
vars == <<board, staff, memory, warehouse, calls, turns, overlapped, completer,
          patched, exposed, abandoned, made, patches, crashes>>

-----------------------------------------------------------------------------
(* Helpers *)

Idle(c)     == calls[c].step = "idle"
At(c, s)    == calls[c].step = s
Ends(c)     == calls' = [calls EXCEPT ![c] = NoCall]
TaskOf(c)   == board[calls[c].task]
WorkerOf(c) == TaskOf(c).assignedTo

(* An open call: it has read the row; it has the row with its terminal status; closeTask
   has copied the worker's turns; closeTask has cleared the worker's memory. *)
Reading(source, t, to) ==
  [step |-> "read", source |-> source, task |-> t, to |-> to,
   seen |-> board[t].status, worker |-> Nobody, copy |-> {}]
Closing(t, to, w) ==
  [step |-> "closing", source |-> Nobody, task |-> t, to |-> to,
   seen |-> to, worker |-> w, copy |-> {}]
Learning(t, to, w) ==
  [step |-> "learning", source |-> Nobody, task |-> t, to |-> to,
   seen |-> to, worker |-> w, copy |-> memory[w]]
Archiving(t, to, w, copy) ==
  [step |-> "archiving", source |-> Nobody, task |-> t, to |-> to,
   seen |-> to, worker |-> w, copy |-> copy]

InClose(c) == calls[c].step \in {"closing", "learning", "archiving"}

(* Between the two writes that end closeTask nothing but a crash can happen. *)
Free == \A c \in Callers : ~At(c, "archiving")

(* The manager of a task's worker, Nobody when the worker has no row. *)
ManagerOfTask(t) ==
  IF board[t].assignedTo \in staff THEN ManagerOf[board[t].assignedTo] ELSE Nobody

(* Mutation of MayMove: anybody may complete a task. *)
MayMoveByAnyone(c) == calls[c].to \in ValidTransitions[calls[c].seen]

(* Mutation of MayMove: the transition table is not looked at. *)
MayMoveAnywhere(c) ==
  calls[c].to = "completed" => calls[c].source = ManagerOfTask(calls[c].task)

(* The two checks of transition(), on the row as it was read. *)
MayMove(c) ==
  /\ calls[c].to \in ValidTransitions[calls[c].seen]
  /\ calls[c].to = "completed" => calls[c].source = ManagerOfTask(calls[c].task)

-----------------------------------------------------------------------------
(* Initial state: an empty board, every worker on the roster. *)

Init ==
  /\ board = <<>>
  /\ staff = Workers
  /\ memory = [w \in Workers |-> {}]
  /\ warehouse = <<>>
  /\ calls = [c \in Callers |-> NoCall]
  /\ turns = 0
  /\ overlapped = {}
  /\ completer = [t \in 1..MaxTasks |-> Nobody]
  /\ patched = {}
  /\ exposed = {}
  /\ abandoned = {}
  /\ made = 0
  /\ patches = 0
  /\ crashes = 0

-----------------------------------------------------------------------------
(* create(): the task is born assigned.  The row and its number are written in
   one transaction; the delegation that wakes the worker is the bus's. *)
CreateTask(w) ==
  /\ Free
  /\ w \in staff
  /\ Len(board) < MaxTasks
  /\ board' = Append(board, [status |-> "assigned", assignedTo |-> w])
  /\ UNCHANGED <<staff, memory, warehouse, calls, turns, history>>

(* transition(), first stretch: read the row.  Who asks matters for completion
   only, and is kept for nothing else. *)
ReadTask(c, source, t, to) ==
  /\ Free
  /\ Idle(c)
  /\ made < MaxCalls
  /\ made' = made + 1
  /\ t \in 1..Len(board)
  /\ source # Nobody <=> to = "completed"
  /\ calls' = [calls EXCEPT ![c] = Reading(source, t, to)]
  /\ overlapped' = IF \E d \in Callers : At(d, "read") /\ calls[d].task = t
                   THEN overlapped \cup {t} ELSE overlapped
  /\ UNCHANGED <<store, turns, completer, patched, exposed, abandoned, patches, crashes>>

(* Second stretch: refuse, or write. *)
Refuse(c) ==
  /\ Free
  /\ At(c, "read")
  /\ ~MayMove(c)
  /\ Ends(c)
  /\ UNCHANGED <<store, turns, history>>

(* Mutation of Write: no change of status closes the task. *)
WriteOnly(c) ==
  /\ Free
  /\ At(c, "read")
  /\ MayMove(c)
  /\ board' = [board EXCEPT ![calls[c].task] = [status     |-> calls[c].to,
                                                assignedTo |-> WorkerOf(c)]]
  /\ Ends(c)
  /\ completer' = IF calls[c].to = "completed"
                  THEN [completer EXCEPT ![calls[c].task] = calls[c].source]
                  ELSE completer
  /\ UNCHANGED <<staff, memory, warehouse, turns, overlapped, patched, exposed, abandoned,
                 made, patches, crashes>>

(* The status is written; a terminal one goes on to archive(). *)
Write(c) ==
  /\ Free
  /\ At(c, "read")
  /\ MayMove(c)
  /\ board' = [board EXCEPT ![calls[c].task] = [status     |-> calls[c].to,
                                                assignedTo |-> WorkerOf(c)]]
  /\ \/ /\ calls[c].to \in Terminal
        /\ calls' = [calls EXCEPT ![c] = Closing(@.task, @.to, WorkerOf(c))]
     \/ /\ calls[c].to \notin Terminal
        /\ Ends(c)
  /\ completer' = IF calls[c].to = "completed"
                  THEN [completer EXCEPT ![calls[c].task] = calls[c].source]
                  ELSE completer
  /\ UNCHANGED <<staff, memory, warehouse, turns, overlapped, patched, exposed, abandoned,
                 made, patches, crashes>>

(* handleUpdate(): the patch is written as it comes, whatever the status was.
   The row's status decides about archive(), even if the patch left it alone. *)
Patch(t, to, w) ==
  /\ Free
  /\ Idle(Consumer)
  /\ t \in 1..Len(board)
  /\ patches < MaxPatches
  /\ patches' = patches + 1
  /\ board' = [board EXCEPT ![t] = [status |-> to, assignedTo |-> w]]
  /\ patched' = patched \cup {t}
  /\ overlapped' = overlapped \cup {t}
  /\ IF to \in Terminal
     THEN calls' = [calls EXCEPT ![Consumer] = Closing(t, to, w)]
     ELSE UNCHANGED calls
  /\ UNCHANGED <<staff, memory, warehouse, turns, completer, exposed, abandoned,
                 made, crashes>>

-----------------------------------------------------------------------------
(* archive() and closeTask() *)

(* The turns of the worker the row named when it was written are copied.  A worker
   without a row of its own ends it: agents.get throws and archive() only logs. *)
BeginClose(c) ==
  /\ Free
  /\ At(c, "closing")
  /\ \/ /\ calls[c].worker \in staff
        /\ calls' = [calls EXCEPT ![c] = Learning(@.task, @.to, @.worker)]
     \/ /\ calls[c].worker \notin staff
        /\ Ends(c)
  /\ UNCHANGED <<store, turns, history>>

(* extractLearning gives up after its retries; archive() only logs. *)
LearningFails(c) ==
  /\ Free
  /\ At(c, "learning")
  /\ Ends(c)
  /\ abandoned' = abandoned \cup {calls[c].task}
  /\ UNCHANGED <<store, turns, overlapped, completer, patched, exposed, made, patches,
                 crashes>>

(* The learning is there: the memory row is deleted, with all the turns it has
   by now, and then the copy is archived. *)
ClearMemory(c) ==
  /\ Free
  /\ At(c, "learning")
  /\ memory' = [memory EXCEPT ![calls[c].worker] = {}]
  /\ calls' = [calls EXCEPT ![c] = Archiving(@.task, @.to, @.worker, @.copy)]
  /\ UNCHANGED <<board, staff, warehouse, turns, history>>

(* Mutation of Archive: the entry is filed without the turns. *)
ArchiveWithoutTurns(c) ==
  /\ At(c, "archiving")
  /\ warehouse' = Append(warehouse, [task    |-> calls[c].task,
                                     agent   |-> calls[c].worker,
                                     outcome |-> calls[c].to,
                                     turns   |-> {}])
  /\ Ends(c)
  /\ UNCHANGED <<board, staff, memory, turns, history>>

(* Mutation of Archive: closeTask is run again. *)
ArchiveAgain(c) ==
  /\ At(c, "archiving")
  /\ warehouse' = Append(warehouse, [task    |-> calls[c].task,
                                     agent   |-> calls[c].worker,
                                     outcome |-> calls[c].to,
                                     turns   |-> calls[c].copy])
  /\ calls' = [calls EXCEPT ![c].step = "closing"]
  /\ UNCHANGED <<board, staff, memory, turns, history>>

(* The copy is filed; closeTask is done. *)
Archive(c) ==
  /\ At(c, "archiving")
  /\ warehouse' = Append(warehouse, [task    |-> calls[c].task,
                                     agent   |-> calls[c].worker,
                                     outcome |-> calls[c].to,
                                     turns   |-> calls[c].copy])
  /\ Ends(c)
  /\ UNCHANGED <<board, staff, memory, turns, history>>

-----------------------------------------------------------------------------
(* The surroundings *)

(* recordTurn(): a worker's loop appends a finished turn, whatever TaskService
   is doing with its memory. *)
RecordTurn(w) ==
  /\ Free
  /\ turns < MaxTurns
  /\ turns' = turns + 1
  /\ memory' = [memory EXCEPT ![w] = @ \cup {turns + 1}]
  /\ exposed' = IF \E c \in Callers : At(c, "learning") /\ calls[c].worker = w
                THEN exposed \cup {turns + 1} ELSE exposed
  /\ UNCHANGED <<board, staff, warehouse, calls, overlapped, completer, patched, abandoned,
                 made, patches, crashes>>

(* AgentService deletes the row of a worker. *)
DeleteAgent(w) ==
  /\ Free
  /\ w \in staff
  /\ staff' = staff \ {w}
  /\ UNCHANGED <<board, memory, warehouse, calls, turns, history>>

(* The process dies and is restarted: open calls are gone.  A memory that was
   cleared and not archived is gone with them. *)
Crash ==
  /\ crashes < MaxCrashes
  /\ crashes' = crashes + 1
  /\ calls' = [c \in Callers |-> NoCall]
  /\ exposed' = exposed \cup (UNION {calls[c].copy : c \in {d \in Callers : At(d, "archiving")}})
  /\ abandoned' = abandoned \cup {calls[c].task : c \in {d \in Callers : InClose(d)}}
  /\ UNCHANGED <<store, turns, overlapped, completer, patched, made, patches>>

-----------------------------------------------------------------------------
(* Specification *)

Transition(c) ==
  \/ \E source \in Agents \cup {Nobody}, t \in 1..MaxTasks, to \in Requested : ReadTask(c, source, t, to)
  \/ Refuse(c) \/ Write(c)

Close(c) == BeginClose(c) \/ LearningFails(c) \/ ClearMemory(c) \/ Archive(c)

Next ==
  \/ \E w \in Workers : CreateTask(w) \/ RecordTurn(w) \/ DeleteAgent(w)
  \/ \E c \in Callers : Transition(c) \/ Close(c)
  \/ \E t \in 1..MaxTasks, to \in Requested, w \in Workers : Patch(t, to, w)
  \/ Crash

Spec == Init /\ [][Next]_vars

(* An open call goes on: its awaits are resolved, and a model call answers or
   gives up.  Nobody is obliged to begin one. *)
FairSpec == Spec /\ \A c \in Callers : WF_vars(Refuse(c) \/ Write(c) \/ Close(c))

-----------------------------------------------------------------------------
(* Properties *)

(* Every variable ranges over the values the code can store in it. *)
TypeOK ==
  /\ board \in Seq([status : Statuses, assignedTo : Workers])
  /\ Len(board) <= MaxTasks
  /\ staff \in SUBSET Workers
  /\ memory \in [Workers -> SUBSET Nat]
  /\ warehouse \in Seq([task : 1..MaxTasks, agent : Workers, outcome : Terminal,
                        turns : SUBSET Nat])
  /\ calls \in [Callers -> [step : {"idle", "read", "closing", "learning", "archiving"},
                            source : Agents \cup {Nobody}, task : 0..MaxTasks,
                            to : Statuses, seen : Statuses,
                            worker : Workers \cup {Nobody}, copy : SUBSET Nat]]
  /\ turns \in Nat
  /\ overlapped \in SUBSET (1..MaxTasks)
  /\ completer \in [1..MaxTasks -> Agents \cup {Nobody}]
  /\ patched \in SUBSET (1..MaxTasks)
  /\ exposed \in SUBSET Nat
  /\ abandoned \in SUBSET (1..MaxTasks)
  /\ made \in Nat
  /\ patches \in Nat
  /\ crashes \in Nat

(* Completion authority belongs to the manager alone, whoever calls, however
   calls overlap and whatever becomes of the worker: unless a patch wrote it, a
   task is completed only if its worker's manager asked (task.ts:164-183). *)
OnlyManagerCompletes ==
  \A t \in 1..Len(board) :
    board[t].status = "completed" /\ t \notin patched
      => completer[t] = ManagerOf[board[t].assignedTo]

(* A task that only one call moves at a time follows the transition table,
   although the check and the write are an await apart (task.ts:151-187). *)
UncontestedTasksFollowTheTable ==
  [][\A t \in 1..Len(board) :
       board'[t].status # board[t].status /\ t \notin overlapped'
         => board'[t].status \in ValidTransitions[board[t].status]]_vars

Entries(t) == {i \in 1..Len(warehouse) : warehouse[i].task = t}

(* Such a task is archived once at most, under the status it has for good. *)
UncontestedTasksAreArchivedOnce ==
  \A t \in (1..Len(board)) \ overlapped :
    /\ Cardinality(Entries(t)) <= 1
    /\ \A i \in Entries(t) : warehouse[i].outcome = board[t].status

Remembered ==
  (UNION {memory[w] : w \in Workers})
  \cup (UNION {warehouse[i].turns : i \in 1..Len(warehouse)})
  \cup (UNION {calls[c].copy : c \in {d \in Callers : At(d, "archiving")}})

(* A turn is forgotten only if it was recorded while its worker's memory was
   being closed, or if the process died between the two writes that end
   closeTask: failed learnings and overlapping closes lose nothing else
   (memory.ts:127-157). *)
TurnsAreKeptUnlessExposed == (1..turns) \ exposed \subseteq Remembered

(* An open call names a task of the board, what it asks for fits its step, and
   who asked is known where it matters. *)
CallsAreOpen ==
  \A c \in Callers :
    /\ ~Idle(c) => calls[c].task \in 1..Len(board)
    /\ InClose(c) => calls[c].to \in Terminal /\ calls[c].worker \in Workers
    /\ At(c, "read") /\ calls[c].to = "completed" => calls[c].source # Nobody

(* A read row is still the row, unless the task is contested. *)
ReadsAreFresh ==
  \A c \in Callers :
    At(c, "read") /\ calls[c].task \notin overlapped =>
      /\ calls[c].seen = TaskOf(c).status
      /\ \A d \in Callers \ {c} : At(d, "read") => calls[d].task # calls[c].task

(* Only tasks of the board are archived. *)
EntriesHaveTasks == \A i \in 1..Len(warehouse) : warehouse[i].task \in 1..Len(board)

(* An uncontested task has one archive entry or one open close at most, under
   its status. *)
ClosesOnce(t) ==
  /\ \A i, j \in Entries(t) : i = j
  /\ \A i \in Entries(t) : warehouse[i].outcome = board[t].status
  /\ \A c \in Callers :
       InClose(c) /\ calls[c].task = t =>
         /\ Entries(t) = {}
         /\ calls[c].to = board[t].status
         /\ \A d \in Callers \ {c} : InClose(d) => calls[d].task # t

ClosedOnce == \A t \in (1..Len(board)) \ overlapped : ClosesOnce(t)

(* What a close copied is all its worker remembers but for exposed turns. *)
CopiesCoverMemory ==
  \A c \in Callers :
    At(c, "learning") => memory[calls[c].worker] \subseteq calls[c].copy \cup exposed

(* The inductive invariant the theorems rest on: the board, the open calls and
   the memories of TaskService and MemoryService agree with one another. *)
IInv ==
  /\ TypeOK
  /\ CallsAreOpen
  /\ ReadsAreFresh
  /\ OnlyManagerCompletes
  /\ EntriesHaveTasks
  /\ ClosedOnce
  /\ CopiesCoverMemory
  /\ TurnsAreKeptUnlessExposed

Archived(t) == Entries(t) # {}
InTerminal(t) == t \in 1..Len(board) /\ board[t].status \in Terminal

(* A closed task is archived in the end, unless its worker is gone, its learning
   could not be extracted, the process died meanwhile, or another call moved it
   too (task.ts:189-191, 259-268). *)
ClosedIsArchived ==
  \A t \in 1..MaxTasks :
    InTerminal(t) ~> \/ Archived(t)
                     \/ t \in abandoned \cup overlapped
                     \/ t \in 1..Len(board) /\ board[t].assignedTo \notin staff

=============================================================================
