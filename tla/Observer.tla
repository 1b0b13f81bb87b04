------------------------------ MODULE Observer ------------------------------
(***************************************************************************)
(* The observer server of the core process (observer/ws-server.ts) and the *)
(* rows it reads (observer/queries.ts): task rows with the time they were  *)
(* last updated, the event log, and the org state derived from them.  It   *)
(* taps the bus, pushes event and message frames at once and org and task  *)
(* frames from one debounced timer, and answers page requests.             *)
(*                                                                         *)
(* One browser tab is connected: the server keeps nothing per socket but   *)
(* the socket, so other tabs do not change what this one is sent.          *)
(***************************************************************************)
EXTENDS Integers, Sequences, FiniteSets, SequencesExt

CONSTANTS
  MaxTasks,     \* bound on task rows
  MaxVersion,   \* bound on the writes to one task row
  MaxEvents,    \* bound on published events
  MaxReplies,   \* bound on the replies to the principal among them
  MaxClock,     \* bound on the milliseconds that pass
  MaxAcks,      \* bound on consumed mailbox rows
  PageSize      \* rows of a page

ASSUME ObserverAssumption ==
  /\ \A n \in {MaxTasks, MaxEvents, MaxReplies, MaxAcks} : n \in Nat
  /\ \A n \in {MaxVersion, MaxClock, PageSize} : n \in Nat \ {0}

VARIABLES
  clock,      \* Date.now()
  rows,       \* the tasks table, by rowid: [version, at]
  log,        \* the events table, by seq
  acked,      \* consumed mailbox rows
  watermark,  \* the newest updatedAt a task delta was sent for
  timer,      \* whether a flush is scheduled
  joined,     \* whether the tab's socket is among the clients
  down,       \* frames under way to the tab
  told,       \* history: the version of each task last sent as a delta
  marks       \* history: the times of the versions sent so far

server == <<clock, rows, log, acked, watermark, timer, joined, down, told, marks>>

(* An entry of the log: n > 0 is the principal's n-th message, typed into  *)
(* the UI; the others are a reply to it and any other event.               *)
Reply == 0
Other == -1
IsPrincipalMessage(e) == e # Other

(* Mutation of Newest: the time of the flush itself. *)
NewestIsNow(changed, t) == clock

(* The newest of t and the times of some rows. *)
Newest(changed, t) ==
  LET times == {rows[r].at : r \in changed} \union {t}
  IN  CHOOSE u \in times : \A v \in times : v <= u

(* An event to the principal has no mailbox, so it is queued nowhere. *)
Queued == {i \in DOMAIN log : log[i] # Reply}

(* The counts of the org state; upTo, the events published when it was     *)
(* built, is read by the properties only.                                  *)
OrgState == [tasks      |-> Len(rows),
             queueDepth |-> Cardinality(Queued) - acked,
             upTo       |-> Len(log)]

OrgFrame        == [kind |-> "org", org |-> OrgState]
EventFrame(i)   == [kind |-> "event", seq |-> i]
MessageFrame(i) == [kind |-> "message", seq |-> i]
TaskRow(r)      == [id |-> r, version |-> rows[r].version]
TaskFrame(r)    == [kind |-> "task", task |-> TaskRow(r)]

(* Mutation of Broadcast: frames for a socket that is not there. *)
BroadcastAnyway(frames) == down' = down \o frames

Broadcast(frames) == down' = IF joined THEN down \o frames ELSE down

(* The members of S in an order, the pairs <<x, y>> with x before y: the    *)
(* k-th is the one that k - 1 others precede.                              *)
Arrange(S, before) ==
  [k \in 1..Cardinality(S) |->
     CHOOSE x \in S : Cardinality({y \in S : <<y, x>> \in before}) = k - 1]

NewestFirst(ids) == Arrange(ids, {p \in ids \X ids : p[1] > p[2]})

(* Mutation of Page: the cursor names the first row of the next page. *)
PageFromNext(ids, before) ==
  LET older  == {i \in ids : before = 0 \/ i < before}
      newest == {i \in older : Cardinality({j \in older : j > i}) < PageSize}
      items  == NewestFirst(newest)
  IN  [items |-> items,
       next  |-> IF Cardinality(older) < PageSize THEN 0 ELSE Last(items) - 1]

(* A page of a history, newest first, and the cursor of the next one; a    *)
(* cursor of 0 stands for null.                                            *)
Page(ids, before) ==
  LET older  == {i \in ids : before = 0 \/ i < before}
      newest == {i \in older : Cardinality({j \in older : j > i}) < PageSize}
      items  == NewestFirst(newest)
  IN  [items |-> items,
       next  |-> IF Cardinality(older) < PageSize THEN 0 ELSE Last(items)]

PageTasks(before) ==
  LET page == Page(DOMAIN rows, before)
  IN  [page EXCEPT !.items = [k \in DOMAIN page.items |-> TaskRow(page.items[k])]]

PageMessages(before) == Page({i \in DOMAIN log : IsPrincipalMessage(log[i])}, before)

TasksChangedSince(t) == {r \in DOMAIN rows : rows[r].at > t}

Earlier(r, s) == rows[r].at < rows[s].at \/ (rows[r].at = rows[s].at /\ r < s)
Oldest(changed) == Arrange(changed, {p \in changed \X changed : Earlier(p[1], p[2])})

----------------------------------------------------------------------------
(* The server starts on the tables an earlier process left. *)
Tables == UNION {[1..n -> [version : {1}, at : {0, 1}]] : n \in 0..MaxTasks}

ObserverInit ==
  /\ clock = 1
  /\ rows \in Tables
  /\ log = <<>> /\ acked = 0
  /\ watermark = Newest(DOMAIN rows, 0)
  /\ timer = FALSE
  /\ joined = FALSE /\ down = <<>>
  /\ told = [r \in DOMAIN rows |-> rows[r].version]
  /\ marks = {watermark}

----------------------------------------------------------------------------
Tick ==
  /\ clock < MaxClock
  /\ clock' = clock + 1
  /\ UNCHANGED <<rows, log, acked, watermark, timer, joined, down, told, marks>>

(* A service inserts or updates a task; the event that tells of it is      *)
(* published afterwards, by the service or by the tool that called it.     *)
CreateTask ==
  /\ Len(rows) < MaxTasks
  /\ rows' = Append(rows, [version |-> 1, at |-> clock])
  /\ told' = Append(told, 0)
  /\ UNCHANGED <<clock, log, acked, watermark, timer, joined, down, marks>>

UpdateTask(r) ==
  /\ rows[r].version < MaxVersion
  /\ rows' = [rows EXCEPT ![r] = [version |-> @.version + 1, at |-> clock]]
  /\ UNCHANGED <<clock, log, acked, watermark, timer, joined, down, told, marks>>

(* A mailbox acknowledges its row: the queue is shorter, no event says so. *)
Consume ==
  /\ acked < MaxAcks /\ acked < Cardinality(Queued)
  /\ acked' = acked + 1
  /\ UNCHANGED <<clock, rows, log, watermark, timer, joined, down, told, marks>>

ScheduleFlush == timer' = TRUE

(* Mutation of Publish: only a message schedules a flush. *)
PublishWithoutFlush(e) ==
  LET seq == Len(log) + 1
  IN  /\ Len(log) < MaxEvents
      /\ log' = Append(log, e)
      /\ Broadcast(<<EventFrame(seq)>>
                     \o (IF IsPrincipalMessage(e) THEN <<MessageFrame(seq)>> ELSE <<>>))
      /\ timer' = (timer \/ IsPrincipalMessage(e))
      /\ UNCHANGED <<clock, rows, acked, watermark, joined, told, marks>>

(* Every event is tapped inside publish, after its row is written. *)
Publish(e) ==
  LET seq == Len(log) + 1
  IN  /\ Len(log) < MaxEvents
      /\ log' = Append(log, e)
      /\ Broadcast(<<EventFrame(seq)>>
                     \o (IF IsPrincipalMessage(e) THEN <<MessageFrame(seq)>> ELSE <<>>))
      /\ ScheduleFlush
      /\ UNCHANGED <<clock, rows, acked, watermark, joined, told, marks>>

PublishReply == Cardinality({i \in DOMAIN log : log[i] = Reply}) < MaxReplies /\ Publish(Reply)
PublishOther == Publish(Other)

Flush ==
  LET changed == TasksChangedSince(watermark)
      deltas  == Oldest(changed)
  IN  /\ timer
      /\ timer' = FALSE
      /\ Broadcast(<<OrgFrame>> \o [k \in DOMAIN deltas |-> TaskFrame(deltas[k])])
      /\ watermark' = Newest(changed, watermark)
      /\ told' = [r \in DOMAIN told |-> IF r \in changed THEN rows[r].version ELSE told[r]]
      /\ marks' = marks \union {rows[r].at : r \in changed}
      /\ UNCHANGED <<clock, rows, log, acked, joined>>

(* A socket is accepted and seeded with the org state. *)
Accept ==
  /\ ~joined
  /\ joined' = TRUE
  /\ down' = <<OrgFrame>>
  /\ UNCHANGED <<clock, rows, log, acked, watermark, timer, told, marks>>

(* The socket is gone, and the frames under way with it. *)
Forget ==
  /\ joined
  /\ joined' = FALSE
  /\ down' = <<>>
  /\ UNCHANGED <<clock, rows, log, acked, watermark, timer, told, marks>>

Work == \/ Tick
        \/ CreateTask
        \/ \E r \in DOMAIN rows : UpdateTask(r)
        \/ Consume
        \/ PublishReply
        \/ PublishOther
        \/ Flush

----------------------------------------------------------------------------
ServerTypeOK ==
  /\ clock \in 1..MaxClock /\ watermark \in 0..clock
  /\ rows \in Seq([version : 1..MaxVersion, at : 0..clock]) /\ Len(rows) <= MaxTasks
  /\ log \in Seq(Int) /\ Len(log) <= MaxEvents
  /\ acked \in 0..MaxAcks
  /\ timer \in BOOLEAN /\ joined \in BOOLEAN
  /\ joined \/ down = <<>>
  /\ told \in [DOMAIN rows -> 0..MaxVersion]

(* Task deltas are asked for by a strict comparison with the newest time   *)
(* sent.  A change the clients were not told of is newer than that, or was *)
(* written in the very millisecond of one they were told of; nothing else  *)
(* is ever passed over (tasksChangedSince, ws-server.ts flush).            *)
OnlyTiesAreMissed ==
  \A r \in DOMAIN rows :
    told[r] # rows[r].version => rows[r].at > watermark \/ rows[r].at \in marks

=============================================================================
