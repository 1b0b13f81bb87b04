------------------------- MODULE TaskServiceProofs -------------------------
(* Theorems of TaskService.  IInv is inductive: each action preserves it. *)
EXTENDS TaskService, FiniteSetTheorems, TLAPS

CallRecords ==
  [step : {"idle", "read", "closing", "learning", "archiving"},
   source : Agents \cup {Nobody}, task : 0..MaxTasks, to : Statuses,
   seen : Statuses, worker : Workers \cup {Nobody}, copy : SUBSET Nat]
Rows    == [status : Statuses, assignedTo : Workers]
Entry   == [task : 1..MaxTasks, agent : Workers, outcome : Terminal, turns : SUBSET Nat]

(* What a caller may be: calls ranges over call records, NoCall is one. *)
LEMMA CallFacts ==
  /\ NoCall \in CallRecords
  /\ NoCall.step = "idle"
  /\ Statuses = {"backlog", "assigned", "in_progress", "blocked", "in_review",
                 "completed", "failed", "cancelled"}
  /\ Terminal \subseteq Statuses
  /\ \A s \in Terminal : ValidTransitions[s] = {}
  /\ \A s \in Statuses : ValidTransitions[s] \subseteq Statuses
  <1>1. Statuses = {"backlog", "assigned", "in_progress", "blocked", "in_review",
                    "completed", "failed", "cancelled"}
    BY DEF Statuses, ValidTransitions
  <1>2. \A s \in Terminal : ValidTransitions[s] = {}
    BY DEF ValidTransitions, Terminal
  <1>3. \A s \in Statuses : ValidTransitions[s] \subseteq Statuses
    BY <1>1 DEF ValidTransitions
  <1>4. NoCall \in CallRecords
    BY <1>1, BoundsAssumption DEF NoCall, CallRecords
  <1> QED BY <1>1, <1>2, <1>3, <1>4 DEF NoCall, Terminal

(* Rows and entries are well typed at each position. *)
LEMMA RowFacts ==
  ASSUME TypeOK
  PROVE  /\ Len(board) \in Nat
         /\ board \in Seq(Rows)
         /\ \A t \in 1..Len(board) : board[t].status \in Statuses /\ board[t].assignedTo \in Workers
         /\ \A i \in 1..Len(warehouse) : warehouse[i].outcome \in Terminal
         /\ \A t \in 1..Len(board) : t \in 1..MaxTasks
  <1>1. board \in Seq(Rows)
    BY DEF TypeOK, Rows
  <1>2. \A t \in 1..Len(board) : board[t] \in Rows
    BY <1>1
  <1>3. warehouse \in Seq(Entry)
    BY DEF TypeOK, Entry
  <1>4. \A i \in 1..Len(warehouse) : warehouse[i] \in Entry
    BY <1>3
  <1>5. \A t \in 1..Len(board) : t \in 1..MaxTasks
    BY <1>1, BoundsAssumption DEF TypeOK
  <1> QED BY <1>1, <1>2, <1>4, <1>5 DEF Rows, Entry

(* What is remembered, element by element, before and after a step. *)
LEMMA RememberedFacts ==
  /\ \A x : x \in Remembered <=>
       \/ \E w \in Workers : x \in memory[w]
       \/ \E i \in 1..Len(warehouse) : x \in warehouse[i].turns
       \/ \E c \in Callers : At(c, "archiving") /\ x \in calls[c].copy
  /\ \A x : x \in Remembered' <=>
       \/ \E w \in Workers : x \in memory'[w]
       \/ \E i \in 1..Len(warehouse') : x \in warehouse'[i].turns
       \/ \E c \in Callers : At(c, "archiving")' /\ x \in calls'[c].copy
  <1>1. \A x : x \in UNION {memory[w] : w \in Workers} <=> \E w \in Workers : x \in memory[w]
    OBVIOUS
  <1>2. \A x : x \in UNION {warehouse[i].turns : i \in 1..Len(warehouse)}
                <=> \E i \in 1..Len(warehouse) : x \in warehouse[i].turns
    OBVIOUS
  <1>3. \A x : x \in UNION {calls[c].copy : c \in {d \in Callers : At(d, "archiving")}}
                <=> \E c \in Callers : At(c, "archiving") /\ x \in calls[c].copy
    OBVIOUS
  <1>4. \A x : x \in UNION {memory'[w] : w \in Workers} <=> \E w \in Workers : x \in memory'[w]
    OBVIOUS
  <1>5. \A x : x \in UNION {warehouse'[i].turns : i \in 1..Len(warehouse')}
                <=> \E i \in 1..Len(warehouse') : x \in warehouse'[i].turns
    OBVIOUS
  <1>6. \A x : x \in UNION {calls'[c].copy : c \in {d \in Callers : At(d, "archiving")'}}
                <=> \E c \in Callers : At(c, "archiving")' /\ x \in calls'[c].copy
    OBVIOUS
  <1> QED BY <1>1, <1>2, <1>3, <1>4, <1>5, <1>6 DEF Remembered

LEMMA InitHolds == Init => IInv
  <1> SUFFICES ASSUME Init PROVE IInv
    OBVIOUS
  <1>1. TypeOK
    <2>1. board \in Seq(Rows) /\ warehouse \in Seq(Entry) /\ Len(board) <= MaxTasks
      BY BoundsAssumption DEF Init
    <2> QED BY <2>1, CallFacts DEF Init, TypeOK, CallRecords, Rows, Entry
  <1>2. /\ CallsAreOpen
        /\ ReadsAreFresh
        /\ OnlyManagerCompletes
        /\ EntriesHaveTasks
        /\ CopiesCoverMemory
        /\ TurnsAreKeptUnlessExposed
    BY CallFacts DEF Init, CallsAreOpen, ReadsAreFresh, OnlyManagerCompletes, EntriesHaveTasks, CopiesCoverMemory,
          TurnsAreKeptUnlessExposed, Idle, At, InClose
  <1>3. ClosedOnce
    BY DEF Init, ClosedOnce, ClosesOnce
  <1> QED BY <1>1, <1>2, <1>3 DEF IInv

(* Each action preserves the invariant. *)
LEMMA CreateTaskHolds ==
  ASSUME IInv, NEW w \in Workers, CreateTask(w)
  PROVE  IInv'
  <1> USE DEF IInv, CreateTask, history
  <1>1. /\ Len(board') = Len(board) + 1
        /\ \A t \in 1..Len(board) : board'[t] = board[t]
        /\ board'[Len(board) + 1].status = "assigned"
        /\ Len(board) \in Nat
        /\ board' \in Seq(Rows)
    BY CallFacts DEF TypeOK, Rows
  <1>2. TypeOK'
    BY <1>1, BoundsAssumption DEF TypeOK, Rows
  <1>3. CallsAreOpen'
    BY <1>1 DEF CallsAreOpen, Idle, InClose, At
  <1>4. ReadsAreFresh'
    BY <1>1 DEF ReadsAreFresh, CallsAreOpen, Idle, At, TaskOf
  <1>5. OnlyManagerCompletes'
    BY <1>1 DEF OnlyManagerCompletes
  <1>6. EntriesHaveTasks'
    BY <1>1 DEF EntriesHaveTasks
  <1>7. ClosedOnce'
    <2>1. \A t : Entries(t)' = Entries(t)
      BY DEF Entries
    <2>2. \A c \in Callers : InClose(c) => calls[c].task # Len(board) + 1
      BY <1>1 DEF CallsAreOpen, Idle, InClose
    <2>3. Entries(Len(board) + 1) = {}
      BY <1>1 DEF Entries, EntriesHaveTasks
    <2> QED BY <1>1, <2>1, <2>2, <2>3 DEF ClosedOnce, ClosesOnce, InClose
  <1>8. CopiesCoverMemory'
    BY DEF CopiesCoverMemory, At
  <1>9. TurnsAreKeptUnlessExposed'
    BY DEF TurnsAreKeptUnlessExposed, Remembered, At
  <1> QED BY <1>2, <1>3, <1>4, <1>5, <1>6, <1>7, <1>8, <1>9

LEMMA ReadTaskHolds ==
  ASSUME IInv, NEW c \in Callers, NEW source \in Agents \cup {Nobody},
         NEW t \in 1..MaxTasks, NEW to \in Requested, ReadTask(c, source, t, to)
  PROVE  IInv'
  <1> USE DEF IInv, ReadTask, store
  <1> DEFINE call == Reading(source, t, to)
  <1>1. /\ calls' = [calls EXCEPT ![c] = call]
        /\ call \in CallRecords
        /\ call.step = "read" /\ call.source = source /\ call.task = t /\ call.to = to
        /\ call.seen = board[t].status
    <2>1. t \in 0..MaxTasks /\ to \in Statuses /\ board[t].status \in Statuses
      BY RowFacts, BoundsAssumption
    <2> QED BY <2>1 DEF CallRecords, Reading
  <1>2. /\ calls'[c] = call
        /\ \A d \in Callers \ {c} : calls'[d] = calls[d]
        /\ overlapped \subseteq overlapped'
    BY <1>1 DEF TypeOK
  <1> HIDE DEF call
  <1>3. TypeOK'
    <2>1. calls' \in [Callers -> CallRecords]
      BY <1>1 DEF TypeOK, CallRecords
    <2>2. overlapped' \in SUBSET (1..MaxTasks) /\ made' \in Nat
      BY DEF TypeOK
    <2> QED BY <2>1, <2>2 DEF TypeOK, CallRecords
  <1>4. CallsAreOpen'
    BY <1>1, <1>2 DEF CallsAreOpen, Idle, InClose, At
  <1>5. ReadsAreFresh'
    BY <1>1, <1>2 DEF ReadsAreFresh, Idle, At, TaskOf
  <1>6. OnlyManagerCompletes' /\ EntriesHaveTasks'
    BY DEF OnlyManagerCompletes, EntriesHaveTasks
  <1>7. ClosedOnce'
    BY <1>1, <1>2 DEF ClosedOnce, ClosesOnce, InClose, Entries
  <1>8. CopiesCoverMemory'
    BY <1>1, <1>2 DEF CopiesCoverMemory, At
  <1>9. TurnsAreKeptUnlessExposed'
    <2>1. {d \in Callers : At(d, "archiving")}' = {d \in Callers : At(d, "archiving")}
      BY <1>1, <1>2 DEF At, Idle
    <2>2. Remembered' = Remembered
      BY <1>2, <1>1, <2>1 DEF Remembered, At
    <2> QED BY <2>2 DEF TurnsAreKeptUnlessExposed
  <1> QED BY <1>3, <1>4, <1>5, <1>6, <1>7, <1>8, <1>9

LEMMA RefuseHolds ==
  ASSUME IInv, NEW c \in Callers, Refuse(c)
  PROVE  IInv'
  <1> USE DEF IInv, Refuse, store, history, Ends
  <1>1. /\ calls'[c] = NoCall
        /\ \A d \in Callers \ {c} : calls'[d] = calls[d]
    BY DEF TypeOK
  <1>2. TypeOK'
    BY CallFacts DEF TypeOK, CallRecords
  <1>3. CallsAreOpen' /\ ReadsAreFresh'
    BY <1>1, CallFacts DEF CallsAreOpen, ReadsAreFresh, Idle, InClose, At, TaskOf
  <1>4. OnlyManagerCompletes' /\ EntriesHaveTasks'
    BY DEF OnlyManagerCompletes, EntriesHaveTasks
  <1>5. ClosedOnce'
    BY <1>1, CallFacts DEF ClosedOnce, ClosesOnce, InClose, Entries
  <1>6. CopiesCoverMemory'
    BY <1>1, CallFacts DEF CopiesCoverMemory, At
  <1>7. TurnsAreKeptUnlessExposed'
    BY <1>1, CallFacts DEF TurnsAreKeptUnlessExposed, Remembered, At
  <1> QED BY <1>2, <1>3, <1>4, <1>5, <1>6, <1>7

LEMMA WriteHolds ==
  ASSUME IInv, NEW c \in Callers, Write(c)
  PROVE  IInv'
  <1> USE DEF IInv, Write
  <1> DEFINE t == calls[c].task  to == calls[c].to  w == WorkerOf(c)
  <1>1. /\ t \in 1..Len(board) /\ to \in Statuses
        /\ Len(board') = Len(board)
        /\ board'[t] = [status |-> to, assignedTo |-> board[t].assignedTo]
        /\ \A u \in (1..Len(board)) \ {t} : board'[u] = board[u]
        /\ board' \in Seq(Rows) /\ w \in Workers
    <2>1. t \in 1..Len(board) /\ to \in Statuses
      BY DEF TypeOK, CallsAreOpen, Idle, At
    <2>2. [status |-> to, assignedTo |-> board[t].assignedTo] \in Rows
      BY <2>1, RowFacts DEF Rows
    <2> QED BY <2>1, <2>2, RowFacts DEF WorkerOf, TaskOf
  <1>2. /\ calls'[c] = IF to \in Terminal THEN Closing(t, to, w) ELSE NoCall
        /\ \A d \in Callers \ {c} : calls'[d] = calls[d]
    BY DEF TypeOK, Ends
  <1>3. Closing(t, to, w) \in CallRecords /\ Closing(t, to, w).step = "closing"
        /\ Closing(t, to, w).task = t /\ Closing(t, to, w).to = to
        /\ Closing(t, to, w).worker \in Workers
    BY <1>1, CallFacts DEF Closing, CallRecords, TypeOK
  <1>4. t \notin overlapped => board[t].status \notin Terminal
    BY <1>1, CallFacts DEF ReadsAreFresh, TaskOf, MayMove
  <1>5. TypeOK'
    <2>1. calls' \in [Callers -> CallRecords]
      <3>1. calls' = [calls EXCEPT ![c] = IF to \in Terminal THEN Closing(t, to, w) ELSE NoCall]
        BY DEF Ends
      <3>2. calls \in [Callers -> CallRecords]
        BY DEF TypeOK, CallRecords
      <3> QED BY <1>3, <3>1, <3>2, CallFacts
    <2>2. completer' \in [1..MaxTasks -> Agents \cup {Nobody}]
      BY DEF TypeOK
    <2> QED BY <1>1, <2>1, <2>2 DEF TypeOK, CallRecords, Rows
  <1>6. CallsAreOpen'
    BY <1>1, <1>2, <1>3, CallFacts DEF CallsAreOpen, Idle, InClose, At
  <1>7. ReadsAreFresh'
    BY <1>1, <1>2, <1>3, CallFacts DEF ReadsAreFresh, CallsAreOpen, Idle, At, TaskOf
  <1>8. OnlyManagerCompletes'
    <2>1. to = "completed" => calls[c].source = ManagerOf[board[t].assignedTo]
      BY DEF MayMove, ManagerOfTask, CallsAreOpen
    <2>2. completer'[t] = IF to = "completed" THEN calls[c].source ELSE completer[t]
      BY <1>1 DEF TypeOK
    <2>3. \A u \in (1..Len(board)) \ {t} : completer'[u] = completer[u]
      BY <1>1 DEF TypeOK
    <2> QED BY <1>1, <2>1, <2>2, <2>3 DEF OnlyManagerCompletes
  <1>9. EntriesHaveTasks'
    BY <1>1 DEF EntriesHaveTasks
  <1>10. ClosedOnce'
    <2>1. \A u : Entries(u)' = Entries(u)
      BY DEF Entries
    <2>2. t \notin overlapped =>
            Entries(t) = {} /\ \A d \in Callers : InClose(d) => calls[d].task # t
      <3>1. \A i \in 1..Len(warehouse) : warehouse[i].outcome \in Terminal
        BY RowFacts
      <3>2. \A d \in Callers : InClose(d) => calls[d].to \in Terminal
        BY DEF CallsAreOpen
      <3> QED BY <1>1, <1>4, <3>1, <3>2 DEF ClosedOnce, ClosesOnce, Entries
    <2> QED BY <1>1, <1>2, <1>3, <2>1, <2>2, CallFacts DEF ClosedOnce, ClosesOnce, InClose
  <1>11. CopiesCoverMemory'
    BY <1>2, <1>3, CallFacts DEF CopiesCoverMemory, At
  <1>12. TurnsAreKeptUnlessExposed'
    BY <1>2, <1>3, CallFacts DEF TurnsAreKeptUnlessExposed, Remembered, At
  <1> QED BY <1>5, <1>6, <1>7, <1>8, <1>9, <1>10, <1>11, <1>12

LEMMA PatchHolds ==
  ASSUME IInv, NEW t \in 1..MaxTasks, NEW to \in Requested, NEW w \in Workers, Patch(t, to, w)
  PROVE  IInv'
  <1> USE DEF IInv, Patch
  <1>1. /\ t \in 1..Len(board) /\ to \in Statuses
        /\ Len(board') = Len(board)
        /\ \A u \in (1..Len(board)) \ {t} : board'[u] = board[u]
        /\ board' \in Seq(Rows)
    <2>1. board \in Seq(Rows) /\ [status |-> to, assignedTo |-> w] \in Rows
      BY BoundsAssumption DEF TypeOK, Rows
    <2> QED BY <2>1, BoundsAssumption
  <1>2. /\ \A d \in Callers \ {Consumer} : calls'[d] = calls[d]
        /\ calls'[Consumer] = IF to \in Terminal THEN Closing(t, to, w) ELSE calls[Consumer]
    BY DEF TypeOK, Callers
  <1>3. Closing(t, to, w) \in CallRecords /\ Closing(t, to, w).step = "closing"
        /\ Closing(t, to, w).task = t /\ Closing(t, to, w).to = to
        /\ Closing(t, to, w).worker \in Workers
    BY <1>1, CallFacts DEF Closing, CallRecords
  <1>4. TypeOK'
    <2>1. calls' \in [Callers -> CallRecords]
      BY <1>3 DEF TypeOK, CallRecords, Callers
    <2> QED BY <1>1, <2>1 DEF TypeOK, CallRecords, Rows
  <1>5. CallsAreOpen'
    BY <1>1, <1>2, <1>3 DEF CallsAreOpen, Idle, InClose, At
  <1>6. ReadsAreFresh'
    BY <1>1, <1>2, <1>3 DEF ReadsAreFresh, CallsAreOpen, Idle, At, TaskOf
  <1>7. OnlyManagerCompletes'
    BY <1>1 DEF OnlyManagerCompletes
  <1>8. EntriesHaveTasks'
    BY <1>1 DEF EntriesHaveTasks
  <1>9. ClosedOnce'
    <2>1. \A u : Entries(u)' = Entries(u)
      BY DEF Entries
    <2> QED BY <1>1, <1>2, <1>3, <2>1 DEF ClosedOnce, ClosesOnce, InClose
  <1>10. CopiesCoverMemory'
    BY <1>2, <1>3 DEF CopiesCoverMemory, At
  <1>11. TurnsAreKeptUnlessExposed'
    BY <1>2, <1>3 DEF TurnsAreKeptUnlessExposed, Remembered, At, Idle
  <1> QED BY <1>4, <1>5, <1>6, <1>7, <1>8, <1>9, <1>10, <1>11

LEMMA BeginCloseHolds ==
  ASSUME IInv, NEW c \in Callers, BeginClose(c)
  PROVE  IInv'
  <1> USE DEF IInv, BeginClose, store, history
  <1> DEFINE t == calls[c].task  to == calls[c].to  w == calls[c].worker
             call == Learning(t, to, w)
  <1>1. t \in 1..Len(board) /\ to \in Terminal /\ w \in Workers
    BY DEF CallsAreOpen, Idle, At, InClose
  <1>2. /\ call \in CallRecords
        /\ call.step = "learning" /\ call.task = t /\ call.to = to
        /\ call.worker = w /\ call.copy = memory[w]
    <2>1. memory[w] \in SUBSET Nat /\ t \in 0..MaxTasks /\ to \in Statuses
      BY <1>1, CallFacts DEF TypeOK
    <2> QED BY <1>1, <2>1 DEF Learning, CallRecords
  <1>3. /\ calls'[c] \in {call, NoCall}
        /\ calls' = [calls EXCEPT ![c] = call] \/ calls' = [calls EXCEPT ![c] = NoCall]
        /\ \A d \in Callers \ {c} : calls'[d] = calls[d]
    BY DEF TypeOK, Ends
  <1> HIDE DEF call
  <1>4. TypeOK'
    <2>1. calls' \in [Callers -> CallRecords]
      BY <1>2, <1>3, CallFacts DEF TypeOK, CallRecords
    <2> QED BY <2>1 DEF TypeOK, CallRecords
  <1>5. CallsAreOpen'
    BY <1>1, <1>2, <1>3, CallFacts DEF CallsAreOpen, Idle, InClose, At
  <1>6. ReadsAreFresh'
    BY <1>2, <1>3, CallFacts DEF ReadsAreFresh, At, TaskOf
  <1>7. OnlyManagerCompletes' /\ EntriesHaveTasks'
    BY DEF OnlyManagerCompletes, EntriesHaveTasks
  <1>8. ClosedOnce'
    BY <1>2, <1>3, CallFacts DEF ClosedOnce, ClosesOnce, InClose, At, Entries
  <1>9. CopiesCoverMemory'
    BY <1>2, <1>3, CallFacts DEF CopiesCoverMemory, At
  <1>10. TurnsAreKeptUnlessExposed'
    BY <1>2, <1>3, CallFacts DEF TurnsAreKeptUnlessExposed, Remembered, At
  <1> QED BY <1>4, <1>5, <1>6, <1>7, <1>8, <1>9, <1>10

LEMMA LearningFailsHolds ==
  ASSUME IInv, NEW c \in Callers, LearningFails(c)
  PROVE  IInv'
  <1> USE DEF IInv, LearningFails, store, Ends
  <1>1. /\ calls'[c] = NoCall
        /\ \A d \in Callers \ {c} : calls'[d] = calls[d]
    BY DEF TypeOK
  <1>2. TypeOK'
    <2>1. calls[c].task \in 1..MaxTasks
      BY DEF TypeOK, CallsAreOpen, Idle, At
    <2>2. calls' \in [Callers -> CallRecords]
      BY CallFacts DEF TypeOK, CallRecords
    <2> QED BY <2>1, <2>2 DEF TypeOK, CallRecords
  <1>3. CallsAreOpen' /\ ReadsAreFresh'
    BY <1>1, CallFacts DEF CallsAreOpen, ReadsAreFresh, Idle, InClose, At, TaskOf
  <1>4. OnlyManagerCompletes' /\ EntriesHaveTasks'
    BY DEF OnlyManagerCompletes, EntriesHaveTasks
  <1>5. ClosedOnce'
    BY <1>1, CallFacts DEF ClosedOnce, ClosesOnce, InClose, Entries
  <1>6. CopiesCoverMemory'
    BY <1>1, CallFacts DEF CopiesCoverMemory, At
  <1>7. TurnsAreKeptUnlessExposed'
    BY <1>1, CallFacts DEF TurnsAreKeptUnlessExposed, Remembered, At
  <1> QED BY <1>2, <1>3, <1>4, <1>5, <1>6, <1>7
LEMMA ClearMemoryHolds ==
  ASSUME IInv, NEW c \in Callers, ClearMemory(c)
  PROVE  IInv'
  <1> USE DEF IInv, ClearMemory, history
  <1> DEFINE t == calls[c].task  to == calls[c].to  w == calls[c].worker
             call == Archiving(t, to, w, calls[c].copy)
  <1>1. t \in 1..Len(board) /\ to \in Terminal /\ w \in Workers
    BY DEF CallsAreOpen, Idle, At, InClose
  <1>2. /\ call \in CallRecords
        /\ call.step = "archiving" /\ call.task = t /\ call.to = to
        /\ call.worker = w /\ call.copy = calls[c].copy
    <2>1. t \in 0..MaxTasks /\ to \in Statuses /\ calls[c].copy \in SUBSET Nat
      BY <1>1, CallFacts DEF TypeOK
    <2> QED BY <1>1, <2>1 DEF Archiving, CallRecords
  <1>3. /\ calls'[c] = call
        /\ calls' = [calls EXCEPT ![c] = call]
        /\ \A d \in Callers \ {c} : calls'[d] = calls[d]
        /\ memory'[w] = {}
        /\ \A v \in Workers \ {w} : memory'[v] = memory[v]
    BY <1>1 DEF TypeOK
  <1> HIDE DEF call
  <1>4. TypeOK'
    <2>1. calls' \in [Callers -> CallRecords]
      BY <1>2, <1>3 DEF TypeOK, CallRecords
    <2>2. memory' \in [Workers -> SUBSET Nat]
      BY DEF TypeOK
    <2> QED BY <2>1, <2>2 DEF TypeOK, CallRecords
  <1>5. CallsAreOpen'
    BY <1>1, <1>2, <1>3 DEF CallsAreOpen, Idle, InClose, At
  <1>6. ReadsAreFresh'
    BY <1>2, <1>3 DEF ReadsAreFresh, At, TaskOf
  <1>7. OnlyManagerCompletes' /\ EntriesHaveTasks'
    BY DEF OnlyManagerCompletes, EntriesHaveTasks
  <1>8. ClosedOnce'
    BY <1>2, <1>3 DEF ClosedOnce, ClosesOnce, InClose, At, Entries
  <1>9. CopiesCoverMemory'
    <2> SUFFICES ASSUME NEW d \in Callers, At(d, "learning")'
                 PROVE  memory'[calls'[d].worker] \subseteq calls'[d].copy \cup exposed
      BY DEF CopiesCoverMemory
    <2>1. d # c
      BY <1>2, <1>3 DEF At
    <2>2. calls'[d] = calls[d] /\ At(d, "learning") /\ calls[d].worker \in Workers
      BY <1>3, <2>1 DEF At, CallsAreOpen, InClose
    <2> QED BY <1>3, <2>2 DEF CopiesCoverMemory
  <1>10. TurnsAreKeptUnlessExposed'
    <2>1. memory[w] \subseteq call.copy \cup exposed
      BY <1>2 DEF CopiesCoverMemory
    <2>2. At(c, "archiving")' /\ calls'[c].copy = call.copy
      BY <1>2, <1>3 DEF At
    <2>3. \A d \in Callers : ~At(d, "archiving")
      BY DEF Free
    <2>4. Remembered \subseteq Remembered' \cup exposed
      BY <1>1, <1>3, <2>1, <2>2, <2>3, RememberedFacts
    <2> QED BY <2>4 DEF TurnsAreKeptUnlessExposed
  <1> QED BY <1>4, <1>5, <1>6, <1>7, <1>8, <1>9, <1>10

LEMMA ArchiveHolds ==
  ASSUME IInv, NEW c \in Callers, Archive(c)
  PROVE  IInv'
  <1> USE DEF IInv, Archive, history, Ends
  <1> PICK t : t = calls[c].task
    OBVIOUS
  <1> PICK to : to = calls[c].to
    OBVIOUS
  <1> DEFINE entry == [task |-> t, agent |-> calls[c].worker, outcome |-> to,
                       turns |-> calls[c].copy]
  <1>1. t \in 1..Len(board) /\ to \in Terminal /\ calls[c].worker \in Workers /\ InClose(c)
    BY DEF CallsAreOpen, Idle, At, InClose
  <1>2. entry \in Entry /\ entry.task = t /\ entry.outcome = to /\ entry.turns = calls[c].copy
    <2>1. calls[c].copy \in SUBSET Nat /\ t \in 1..MaxTasks
      BY <1>1, RowFacts DEF TypeOK
    <2> QED BY <1>1, <2>1 DEF Entry
  <1>3. /\ calls'[c] = NoCall
        /\ \A d \in Callers \ {c} : calls'[d] = calls[d]
    BY DEF TypeOK
  <1>4. /\ warehouse' = Append(warehouse, entry)
        /\ Len(warehouse) \in Nat /\ Len(warehouse') = Len(warehouse) + 1
        /\ \A i \in 1..Len(warehouse) : warehouse'[i] = warehouse[i]
        /\ warehouse'[Len(warehouse) + 1] = entry
        /\ warehouse' \in Seq(Entry)
    <2>1. warehouse \in Seq(Entry)
      BY DEF TypeOK, Entry
    <2> HIDE DEF entry
    <2>2. warehouse' = Append(warehouse, entry)
      BY DEF entry
    <2> QED BY <1>2, <2>1, <2>2
  <1> HIDE DEF entry
  <1>5. TypeOK'
    <2>1. calls' \in [Callers -> CallRecords]
      BY CallFacts DEF TypeOK, CallRecords
    <2> QED BY <1>4, <2>1 DEF TypeOK, CallRecords, Entry
  <1>6. CallsAreOpen' /\ ReadsAreFresh'
    BY <1>3, CallFacts DEF CallsAreOpen, ReadsAreFresh, Idle, InClose, At, TaskOf
  <1>7. OnlyManagerCompletes'
    BY DEF OnlyManagerCompletes
  <1>8. EntriesHaveTasks'
    BY <1>1, <1>2, <1>4 DEF EntriesHaveTasks
  <1>9. ClosedOnce'
    <2>1. \A u : u # t => Entries(u)' = Entries(u)
      BY <1>2, <1>4 DEF Entries
    <2>2. Entries(t)' = Entries(t) \cup {Len(warehouse) + 1}
      <3>1. warehouse'[Len(warehouse) + 1].task = t /\ Len(warehouse) + 1 \in 1..Len(warehouse')
        BY <1>2, <1>4
      <3>2. \A i \in 1..Len(warehouse') : i \in 1..Len(warehouse) \/ i = Len(warehouse) + 1
        BY <1>4
      <3>3. \A i \in 1..Len(warehouse) : i \in 1..Len(warehouse')
        BY <1>4
      <3>4. \A i : i \in Entries(t)' <=> i \in Entries(t) \/ i = Len(warehouse) + 1
        BY <1>4, <3>1, <3>2, <3>3 DEF Entries
      <3> QED BY <3>4
    <2>3. \A u : \A i \in Entries(u) : warehouse'[i] = warehouse[i]
      BY <1>4 DEF Entries
    <2>4. ASSUME NEW u \in (1..Len(board)) \ overlapped, u # t
          PROVE  ClosesOnce(u)'
      <3>1. ClosesOnce(u)
        BY <2>4 DEF ClosedOnce
      <3>2. Entries(u)' = Entries(u) /\ \A i \in Entries(u) : warehouse'[i] = warehouse[i]
        BY <2>1, <2>3, <2>4
      <3>3. \A d \in Callers : InClose(d)' => d # c /\ InClose(d) /\ calls'[d] = calls[d]
        BY <1>3, CallFacts DEF InClose
      <3> QED BY <3>1, <3>2, <3>3 DEF ClosesOnce
    <2>5. ASSUME t \notin overlapped
          PROVE  ClosesOnce(t)'
      <3>1. ClosesOnce(t)
        BY <1>1, <2>5 DEF ClosedOnce
      <3>2. Entries(t) = {} /\ to = board[t].status
        BY <1>1, <3>1 DEF ClosesOnce
      <3>3. Entries(t)' = {Len(warehouse) + 1}
        BY <2>2, <3>2
      <3>4. \A d \in Callers : InClose(d)' => calls'[d].task # t
        BY <1>1, <1>3, <3>1, CallFacts DEF ClosesOnce, InClose
      <3> QED BY <1>2, <1>4, <3>2, <3>3, <3>4 DEF ClosesOnce
    <2> QED BY <2>4, <2>5 DEF ClosedOnce
  <1>10. CopiesCoverMemory'
    BY <1>3, CallFacts DEF CopiesCoverMemory, At
  <1>11. TurnsAreKeptUnlessExposed'
    <2>1. \A i \in 1..Len(warehouse) : i \in 1..Len(warehouse')
      BY <1>4
    <2>2. Remembered \subseteq Remembered'
      <3>1. \A d \in Callers \ {c} : At(d, "archiving") => At(d, "archiving")' /\ calls'[d].copy = calls[d].copy
        BY <1>3 DEF At
      <3>2. calls[c].copy = warehouse'[Len(warehouse) + 1].turns /\ Len(warehouse) + 1 \in 1..Len(warehouse')
        BY <1>2, <1>4
      <3> QED BY <1>4, <2>1, <3>1, <3>2, RememberedFacts
    <2> QED BY <2>2 DEF TurnsAreKeptUnlessExposed
  <1> QED BY <1>5, <1>6, <1>7, <1>8, <1>9, <1>10, <1>11

LEMMA RecordTurnHolds ==
  ASSUME IInv, NEW w \in Workers, RecordTurn(w)
  PROVE  IInv'
  <1> USE DEF IInv, RecordTurn
  <1>1. /\ memory'[w] = memory[w] \cup {turns + 1}
        /\ \A v \in Workers \ {w} : memory'[v] = memory[v]
        /\ turns \in Nat /\ memory' \in [Workers -> SUBSET Nat]
    BY DEF TypeOK
  <1>2. exposed \subseteq exposed' /\ exposed' \in SUBSET Nat
    BY <1>1 DEF TypeOK
  <1>3. TypeOK'
    BY <1>1, <1>2 DEF TypeOK
  <1>4. CallsAreOpen' /\ ReadsAreFresh' /\ OnlyManagerCompletes' /\ EntriesHaveTasks'
    BY DEF CallsAreOpen, ReadsAreFresh, OnlyManagerCompletes, EntriesHaveTasks, Idle, InClose,
           At, TaskOf
  <1>5. ClosedOnce'
    BY DEF ClosedOnce, ClosesOnce, InClose, Entries
  <1>6. CopiesCoverMemory'
    <2> SUFFICES ASSUME NEW c \in Callers, At(c, "learning")
                 PROVE  memory'[calls[c].worker] \subseteq calls[c].copy \cup exposed'
      BY DEF CopiesCoverMemory, At
    <2>1. calls[c].worker \in Workers
      BY DEF CallsAreOpen, InClose, At
    <2>2. memory[calls[c].worker] \subseteq calls[c].copy \cup exposed
      BY DEF CopiesCoverMemory
    <2>3. calls[c].worker = w => turns + 1 \in exposed'
      OBVIOUS
    <2> QED BY <1>1, <1>2, <2>1, <2>2, <2>3
  <1>7. TurnsAreKeptUnlessExposed'
    <2>1. \A v \in Workers : memory[v] \subseteq memory'[v]
      BY <1>1
    <2>2. Remembered \subseteq Remembered'
      BY <2>1 DEF Remembered, At
    <2>3. turns + 1 \in Remembered'
      BY <1>1 DEF Remembered
    <2>4. turns' = turns + 1
      OBVIOUS
    <2> QED BY <1>1, <1>2, <2>2, <2>3, <2>4 DEF TurnsAreKeptUnlessExposed
  <1> QED BY <1>3, <1>4, <1>5, <1>6, <1>7

LEMMA DeleteAgentHolds ==
  ASSUME IInv, NEW w \in Workers, DeleteAgent(w)
  PROVE  IInv'
  <1> USE DEF IInv, DeleteAgent, history
  <1>1. TypeOK'
    BY DEF TypeOK
  <1>2. CallsAreOpen' /\ ReadsAreFresh' /\ OnlyManagerCompletes' /\ EntriesHaveTasks'
    BY DEF CallsAreOpen, ReadsAreFresh, OnlyManagerCompletes, EntriesHaveTasks, Idle, InClose,
           At, TaskOf
  <1>3. ClosedOnce'
    BY DEF ClosedOnce, ClosesOnce, InClose, Entries
  <1>4. CopiesCoverMemory' /\ TurnsAreKeptUnlessExposed'
    BY DEF CopiesCoverMemory, TurnsAreKeptUnlessExposed, Remembered, At
  <1> QED BY <1>1, <1>2, <1>3, <1>4

LEMMA CrashHolds == IInv /\ Crash => IInv'
  <1> SUFFICES ASSUME IInv, Crash PROVE IInv'
    OBVIOUS
  <1> USE DEF IInv, Crash, store
  <1>1. \A d \in Callers : calls'[d] = NoCall
    OBVIOUS
  <1>2. TypeOK'
    <2>1. calls' \in [Callers -> CallRecords]
      BY CallFacts
    <2>2. exposed' \in SUBSET Nat
      <3>1. \A d \in Callers : calls[d].copy \in SUBSET Nat
        BY DEF TypeOK
      <3>2. exposed \in SUBSET Nat
        BY DEF TypeOK
      <3> QED BY <3>1, <3>2
    <2>3. abandoned' \in SUBSET (1..MaxTasks)
      <3>1. \A d \in Callers : InClose(d) => calls[d].task \in 1..MaxTasks
        BY RowFacts DEF CallsAreOpen, InClose, Idle
      <3>2. {calls[d].task : d \in {e \in Callers : InClose(e)}} \subseteq 1..MaxTasks
        BY <3>1
      <3>3. abandoned \in SUBSET (1..MaxTasks)
        BY DEF TypeOK
      <3> QED BY <3>2, <3>3
    <2> QED BY <2>1, <2>2, <2>3 DEF TypeOK, CallRecords
  <1>3. CallsAreOpen' /\ ReadsAreFresh' /\ OnlyManagerCompletes' /\ EntriesHaveTasks'
    BY <1>1, CallFacts DEF CallsAreOpen, ReadsAreFresh, OnlyManagerCompletes, EntriesHaveTasks,
           Idle, InClose, At
  <1>4. ClosedOnce'
    BY <1>1, CallFacts DEF ClosedOnce, ClosesOnce, InClose, Entries
  <1>5. CopiesCoverMemory'
    BY <1>1, CallFacts DEF CopiesCoverMemory, At
  <1>6. TurnsAreKeptUnlessExposed'
    <2>1. \A d \in Callers : At(d, "archiving") => calls[d].copy \subseteq exposed'
      OBVIOUS
    <2>2. memory' = memory /\ warehouse' = warehouse /\ exposed \subseteq exposed'
      OBVIOUS
    <2>3. Remembered \subseteq Remembered' \cup exposed'
      BY <2>1, <2>2, RememberedFacts
    <2> QED BY <2>2, <2>3 DEF TurnsAreKeptUnlessExposed
  <1> QED BY <1>2, <1>3, <1>4, <1>5, <1>6
LEMMA NextHolds == IInv /\ [Next]_vars => IInv'
  <1> SUFFICES ASSUME IInv, [Next]_vars PROVE IInv'
    OBVIOUS
  <1>1. CASE \E w \in Workers : CreateTask(w) \/ RecordTurn(w) \/ DeleteAgent(w)
    BY <1>1, CreateTaskHolds, RecordTurnHolds, DeleteAgentHolds
  <1>2. CASE \E c \in Callers : Transition(c)
    BY <1>2, ReadTaskHolds, RefuseHolds, WriteHolds DEF Transition
  <1>3. CASE \E c \in Callers : Close(c)
    BY <1>3, BeginCloseHolds, LearningFailsHolds, ClearMemoryHolds, ArchiveHolds DEF Close
  <1>4. CASE \E t \in 1..MaxTasks, to \in Requested, w \in Workers : Patch(t, to, w)
    BY <1>4, PatchHolds
  <1>5. CASE Crash
    BY <1>5, CrashHolds
  <1>6. CASE UNCHANGED vars
    <2> USE <1>6 DEF vars, IInv
    <2>1. TypeOK'
      BY DEF TypeOK
    <2>2. /\ CallsAreOpen' /\ ReadsAreFresh' /\ OnlyManagerCompletes' /\ EntriesHaveTasks'
      BY DEF CallsAreOpen, ReadsAreFresh, OnlyManagerCompletes, EntriesHaveTasks, Idle, InClose,
             At, TaskOf
    <2>3. ClosedOnce'
      BY DEF ClosedOnce, ClosesOnce, InClose, Entries
    <2>4. CopiesCoverMemory' /\ TurnsAreKeptUnlessExposed'
      BY DEF CopiesCoverMemory, TurnsAreKeptUnlessExposed, Remembered, At
    <2> QED BY <2>1, <2>2, <2>3, <2>4
  <1> QED BY <1>1, <1>2, <1>3, <1>4, <1>5, <1>6 DEF Next

(* The inductive invariant holds in every reachable state. *)
THEOREM Invariance == Spec => []IInv
  <1> QED BY InitHolds, NextHolds, PTL DEF Spec

(* Tasks, calls, memories and the warehouse only ever hold what the code can
   store in them. *)
THEOREM TypeCorrectness == Spec => []TypeOK
  <1>1. IInv => TypeOK
    BY DEF IInv
  <1> QED BY <1>1, Invariance, PTL

(* Completion authority (task.ts:164-183), for any number of agents and of
   calls that overlap: the manager check cannot be raced, because a task keeps
   its worker and a worker its manager. *)
THEOREM CompletionNeedsTheManager == Spec => []OnlyManagerCompletes
  <1>1. IInv => OnlyManagerCompletes
    BY DEF IInv
  <1> QED BY <1>1, Invariance, PTL

(* A task no two calls move at once obeys the transition table, whatever
   happens between the read and the write (task.ts:151-187). *)
THEOREM TableIsFollowed == Spec => UncontestedTasksFollowTheTable
  <1> DEFINE Follows ==
        \A t \in 1..Len(board) :
          board'[t].status # board[t].status /\ t \notin overlapped'
            => board'[t].status \in ValidTransitions[board[t].status]
  <1>1. ASSUME IInv, Next PROVE Follows
    <2>1. ASSUME NEW c \in Callers, Write(c) PROVE Follows
      <3>1. calls[c].task \in 1..Len(board) /\ Len(board) \in Nat /\ overlapped' = overlapped
        BY <1>1, <2>1, RowFacts DEF IInv, CallsAreOpen, Idle, At, Write
      <3>2. \A u \in (1..Len(board)) \ {calls[c].task} : board'[u] = board[u]
        BY <2>1, <3>1 DEF Write
      <3>3. board'[calls[c].task].status = calls[c].to
        BY <2>1, <3>1 DEF Write
      <3>4. calls[c].task \notin overlapped =>
              calls[c].to \in ValidTransitions[board[calls[c].task].status]
        BY <1>1, <2>1 DEF IInv, ReadsAreFresh, Write, MayMove, TaskOf
      <3> QED BY <3>1, <3>2, <3>3, <3>4
    <2>2. ASSUME NEW t \in 1..MaxTasks, NEW to \in Requested, NEW w \in Workers, Patch(t, to, w)
          PROVE  Follows
      <3>1. Len(board) \in Nat /\ t \in overlapped'
        BY <1>1, <2>2, RowFacts DEF IInv, Patch
      <3>2. \A u \in (1..Len(board)) \ {t} : board'[u] = board[u]
        BY <2>2 DEF Patch
      <3> QED BY <3>1, <3>2
    <2>3. ASSUME NEW w \in Workers, CreateTask(w) PROVE Follows
      <3>1. \A u \in 1..Len(board) : board'[u] = board[u]
        BY <1>1, <2>3, RowFacts DEF IInv, CreateTask
      <3> QED BY <3>1
    <2>4. ASSUME board' = board PROVE Follows
      BY <2>4
    <2>5. Next => \/ \E c \in Callers : Write(c)
                  \/ \E t \in 1..MaxTasks, to \in Requested, w \in Workers : Patch(t, to, w)
                  \/ \E w \in Workers : CreateTask(w)
                  \/ board' = board
      BY DEF Next, Transition, Close, RecordTurn, DeleteAgent, ReadTask, Refuse, BeginClose,
             LearningFails, ClearMemory, Archive, Crash, store
    <2> QED BY <1>1, <2>1, <2>2, <2>3, <2>4, <2>5
  <1>2. IInv /\ [Next]_vars => [Follows]_vars
    BY <1>1
  <1> QED BY <1>2, Invariance, PTL DEF Spec, UncontestedTasksFollowTheTable

(* A task no two calls move at once has one entry in the warehouse at most,
   under the status it has for good. *)
THEOREM ArchivedOnce == Spec => []UncontestedTasksAreArchivedOnce
  <1>1. IInv => UncontestedTasksAreArchivedOnce
    <2> SUFFICES ASSUME IInv, NEW t \in (1..Len(board)) \ overlapped
                 PROVE  /\ Cardinality(Entries(t)) <= 1
                        /\ \A i \in Entries(t) : warehouse[i].outcome = board[t].status
      BY DEF UncontestedTasksAreArchivedOnce
    <2>1. ClosesOnce(t)
      BY DEF IInv, ClosedOnce
    <2>2. CASE Entries(t) = {}
      BY <2>2, FS_EmptySet
    <2>3. CASE Entries(t) # {}
      <3>1. PICK i : i \in Entries(t)
        BY <2>3
      <3>2. Entries(t) = {i}
        BY <2>1, <3>1 DEF ClosesOnce
      <3>3. Cardinality({i}) = 1
        BY FS_Singleton
      <3> QED BY <2>1, <3>2, <3>3 DEF ClosesOnce
    <2> QED BY <2>2, <2>3
  <1> QED BY <1>1, Invariance, PTL

(* No turn is lost outside the two windows of closeTask (memory.ts:127-157),
   however many tasks of a worker are closed at once. *)
THEOREM TurnsAreKept == Spec => []TurnsAreKeptUnlessExposed
  <1>1. IInv => TurnsAreKeptUnlessExposed
    BY DEF IInv
  <1> QED BY <1>1, Invariance, PTL
=============================================================================
