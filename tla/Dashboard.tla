----------------------------- MODULE Dashboard ------------------------------
(***************************************************************************)
(* The Principal UI (apps/web): the state useXevosStream keeps of one      *)
(* observer, and the uplink on which the principal's messages travel.  The *)
(* socket is FIFO both ways and may be lost; a page is read by the server  *)
(* at one moment and arrives at another, on a connection of its own.       *)
(***************************************************************************)
EXTENDS Observer

CONSTANTS
  MaxFeed,      \* cap of the live event feed
  MaxTyped,     \* bound on messages the principal submits
  MaxDrops,     \* bound on lost connections
  MaxFailures   \* bound on failed page requests and publications

ASSUME DashboardAssumption ==
  /\ \A n \in {MaxTyped, MaxDrops, MaxFailures} : n \in Nat
  /\ MaxFeed \in Nat \ {0}

VARIABLES
  link,           \* connection status: "closed", "connecting", "open"
  up,             \* the principal's messages under way to the server
  typed,          \* messages sendMessage accepted
  org,            \* the org state shown, NoOrg before the first frame
  tasks,          \* the tasks shown, newest first
  taskCursor,
  taskLoad,       \* the page request under way
  messages,       \* the seqs of the messages shown, oldest first
  messageCursor,
  messageLoad,
  feed,           \* the seqs of the live events, newest first
  drops,
  failures,
  refused,        \* history: the messages whose publication failed
  loaded          \* history: the newest task when the first page shown was read

lists == <<tasks, taskCursor, taskLoad, messages, messageCursor, messageLoad, loaded>>
view  == <<org, lists, feed>>
vars  == <<server, link, up, typed, view, drops, failures, refused>>

NoOrg  == [upTo |-> -1]
NoLoad == [step |-> "none"]
Shown  == {tasks[k].id : k \in DOMAIN tasks}

(* The frames of one kind under way, and what they carry. *)
Coming(kind)  == {k \in DOMAIN down : down[k].kind = kind}
Carried(kind) == {down[k].seq : k \in Coming(kind)}

Init ==
  /\ ObserverInit
  /\ link = "connecting" /\ up = <<>> /\ typed = 0
  /\ org = NoOrg
  /\ tasks = <<>> /\ taskCursor = 0 /\ taskLoad = NoLoad
  /\ messages = <<>> /\ messageCursor = 0 /\ messageLoad = NoLoad
  /\ feed = <<>>
  /\ drops = 0 /\ failures = 0 /\ refused = {}
  /\ loaded = 0

----------------------------------------------------------------------------
(* What the reducer does with each frame and page. *)
UpsertTask(t) ==
  IF t.id \in Shown
  THEN [k \in DOMAIN tasks |-> IF tasks[k].id = t.id THEN t ELSE tasks[k]]
  ELSE <<t>> \o tasks

(* Mutation of AppendMessage: whatever comes is appended. *)
AppendMessageAsItIs(m) == Append(messages, m)

AppendMessage(m) == IF m \in ToSet(messages) THEN messages ELSE Append(messages, m)

(* Mutation of PushEvent: the oldest events are kept. *)
PushEventAtTheEnd(i) == IF Len(feed) < MaxFeed THEN Append(feed, i) ELSE feed

PushEvent(i) == LET longer == <<i>> \o feed
                IN  SubSeq(longer, 1, IF Len(longer) < MaxFeed THEN Len(longer) ELSE MaxFeed)

(* The elements of s that are in T. *)
Filter(s, T) ==
  LET kept  == {k \in DOMAIN s : s[k] \in T}
      order == Arrange(kept, {p \in kept \X kept : p[1] < p[2]})
  IN  [k \in DOMAIN order |-> s[order[k]]]

(* Mutation of TasksPage: a page is taken as it is. *)
TasksPageAsItIs(page, initial) == IF initial THEN page ELSE tasks \o page

TasksPage(page, initial) ==
  IF initial THEN page ELSE tasks \o Filter(page, {t \in ToSet(page) : t.id \notin Shown})

MessagesPage(page, initial) ==
  LET fresh == Filter(Reverse(page), ToSet(page) \ ToSet(messages))
  IN  IF initial THEN fresh ELSE fresh \o messages

(* A load starts unless one of the same table is under way. *)
Request(load, initial, cursor) ==
  IF load # NoLoad \/ (~initial /\ cursor = 0)
  THEN load
  ELSE [step |-> "sent", initial |-> initial, before |-> IF initial THEN 0 ELSE cursor]

----------------------------------------------------------------------------
(* The server's own steps; the tab notices nothing until a frame arrives.  *)
(* No more messages are under way than a page holds.                       *)
Serve == /\ Work
         /\ Cardinality(Coming("message")') <= PageSize
         /\ UNCHANGED <<link, up, typed, view, drops, failures, refused>>

Connect ==
  /\ link = "connecting"
  /\ Accept
  /\ UNCHANGED <<link, up, typed, view, drops, failures, refused>>

OnOpen ==
  /\ link = "connecting" /\ joined
  /\ link' = "open"
  /\ taskLoad' = Request(taskLoad, TRUE, taskCursor)
  /\ messageLoad' = Request(messageLoad, TRUE, messageCursor)
  /\ UNCHANGED <<server, up, typed, org, tasks, taskCursor, messages, messageCursor, feed,
                 loaded, drops, failures, refused>>

OnMessage ==
  /\ link = "open" /\ down # <<>>
  /\ down' = Tail(down)
  /\ LET frame == Head(down)
     IN  \/ /\ frame.kind = "org"
            /\ org' = frame.org
            /\ UNCHANGED <<tasks, messages, feed>>
         \/ /\ frame.kind = "task"
            /\ tasks' = UpsertTask(frame.task)
            /\ UNCHANGED <<org, messages, feed>>
         \/ /\ frame.kind = "message"
            /\ messages' = AppendMessage(frame.seq)
            /\ UNCHANGED <<org, tasks, feed>>
         \/ /\ frame.kind = "event"
            /\ feed' = PushEvent(frame.seq)
            /\ UNCHANGED <<org, tasks, messages>>
  /\ UNCHANGED <<clock, rows, log, acked, watermark, timer, joined, told, marks, link, up, typed,
                 taskCursor, taskLoad, messageCursor, messageLoad, drops, failures, refused,
                 loaded>>

(* The socket is lost, with what was under way on it. *)
OnClose ==
  /\ drops < MaxDrops
  /\ link = "open"
  /\ Forget
  /\ link' = "closed" /\ up' = <<>> /\ drops' = drops + 1
  /\ UNCHANGED <<typed, view, failures, refused>>

(* The reconnect timer. *)
Reconnect ==
  /\ link = "closed"
  /\ link' = "connecting"
  /\ UNCHANGED <<server, up, typed, view, drops, failures, refused>>

(* The dashboard shows its lists, buttons and form once it has an org state. *)
LoadMoreTasks ==
  /\ org # NoOrg /\ taskCursor # 0 /\ taskLoad = NoLoad
  /\ taskLoad' = Request(taskLoad, FALSE, taskCursor)
  /\ UNCHANGED <<server, link, up, typed, org, tasks, taskCursor, messages, messageCursor,
                 messageLoad, feed, drops, failures, refused, loaded>>

LoadMoreMessages ==
  /\ org # NoOrg /\ messageCursor # 0 /\ messageLoad = NoLoad
  /\ messageLoad' = Request(messageLoad, FALSE, messageCursor)
  /\ UNCHANGED <<server, link, up, typed, org, tasks, taskCursor, taskLoad, messages,
                 messageCursor, feed, drops, failures, refused, loaded>>

(* The server reads the page it was asked for. *)
AnswerTasks ==
  /\ taskLoad.step = "sent"
  /\ taskLoad' = [step |-> "answered", initial |-> taskLoad.initial,
                  page |-> PageTasks(taskLoad.before), newest |-> Len(rows)]
  /\ UNCHANGED <<server, link, up, typed, org, tasks, taskCursor, messages, messageCursor,
                 messageLoad, feed, drops, failures, refused, loaded>>

AnswerMessages ==
  /\ messageLoad.step = "sent"
  /\ messageLoad' = [step |-> "answered", initial |-> messageLoad.initial,
                     page |-> PageMessages(messageLoad.before)]
  /\ UNCHANGED <<server, link, up, typed, org, tasks, taskCursor, taskLoad, messages,
                 messageCursor, feed, drops, failures, refused, loaded>>

(* The page arrives. *)
ShowTasks ==
  /\ taskLoad.step = "answered"
  /\ taskCursor' = taskLoad.page.next
  /\ tasks' = TasksPage(taskLoad.page.items, taskLoad.initial)
  /\ loaded' = IF taskLoad.initial THEN taskLoad.newest ELSE loaded
  /\ taskLoad' = NoLoad
  /\ UNCHANGED <<server, link, up, typed, org, messages, messageCursor, messageLoad, feed,
                 drops, failures, refused>>

ShowMessages ==
  /\ messageLoad.step = "answered"
  /\ messageCursor' = messageLoad.page.next
  /\ messages' = MessagesPage(messageLoad.page.items, messageLoad.initial)
  /\ messageLoad' = NoLoad
  /\ UNCHANGED <<server, link, up, typed, org, tasks, taskCursor, taskLoad, feed, drops,
                 failures, refused, loaded>>

(* A request fails; the error is swallowed. *)
LoadFails ==
  /\ failures < MaxFailures
  /\ failures' = failures + 1
  /\ \/ taskLoad # NoLoad /\ taskLoad' = NoLoad /\ UNCHANGED messageLoad
     \/ messageLoad # NoLoad /\ messageLoad' = NoLoad /\ UNCHANGED taskLoad
  /\ UNCHANGED <<server, link, up, typed, org, tasks, taskCursor, messages, messageCursor,
                 feed, drops, refused, loaded>>

(* sendMessage() sends if the socket is open. *)
MaySend == link = "open"

(* The principal submits a message: the form is cleared if it was sent, and *)
(* complains otherwise.                                                     *)
Submit ==
  /\ org # NoOrg /\ MaySend
  /\ typed < MaxTyped
  /\ typed' = typed + 1
  /\ up' = Append(up, typed')
  /\ UNCHANGED <<server, link, view, drops, failures, refused>>

(* Mutation of OnPrincipalMessage: the newest message is published first. *)
OnPrincipalMessageNewest ==
  /\ up # <<>>
  /\ Publish(Last(up))
  /\ Cardinality(Coming("message")') <= PageSize
  /\ up' = Front(up)
  /\ UNCHANGED <<link, typed, view, drops, failures, refused>>

(* The server publishes it as the principal's message to the executive. *)
OnPrincipalMessage ==
  /\ up # <<>>
  /\ Publish(Head(up))
  /\ Cardinality(Coming("message")') <= PageSize
  /\ up' = Tail(up)
  /\ UNCHANGED <<link, typed, view, drops, failures, refused>>

(* Publishing throws before anything is written; the server only reports   *)
(* it on its console, and the form was cleared long ago.                   *)
PrincipalMessageFails ==
  /\ up # <<>>
  /\ failures < MaxFailures
  /\ failures' = failures + 1 /\ refused' = refused \union {Head(up)}
  /\ up' = Tail(up)
  /\ UNCHANGED <<server, link, typed, view, drops>>

Next ==
  \/ Serve
  \/ Connect
  \/ OnOpen
  \/ OnMessage
  \/ OnClose
  \/ Reconnect
  \/ LoadMoreTasks
  \/ LoadMoreMessages
  \/ AnswerTasks
  \/ AnswerMessages
  \/ ShowTasks
  \/ ShowMessages
  \/ LoadFails
  \/ Submit
  \/ OnPrincipalMessage
  \/ PrincipalMessageFails

Spec == Init /\ [][Next]_vars

(* Timers fire and the network delivers what it does not lose. *)
FlushFires == Flush /\ UNCHANGED <<link, up, typed, view, drops, failures, refused>>

FairSpec ==
  /\ Spec
  /\ WF_vars(FlushFires)
  /\ WF_vars(Connect)
  /\ WF_vars(OnOpen)
  /\ WF_vars(OnMessage)
  /\ WF_vars(Reconnect)

----------------------------------------------------------------------------
LoadTypeOK(load) == load.step \in {"none", "sent", "answered"}

(* Every variable has its type, and frames reach only a connected tab. *)
TypeOK ==
  /\ ServerTypeOK
  /\ link \in {"closed", "connecting", "open"}
  /\ link = "open" => joined
  /\ up \in Seq(1..MaxTyped) /\ typed \in 0..MaxTyped
  /\ org.upTo \in -1..Len(log)
  /\ taskCursor \in 0..Len(rows) /\ messageCursor \in 0..Len(log)
  /\ LoadTypeOK(taskLoad) /\ LoadTypeOK(messageLoad)
  /\ Shown \subseteq DOMAIN rows
  /\ ToSet(messages) \subseteq DOMAIN log
  /\ Len(feed) <= MaxFeed
  /\ drops \in 0..MaxDrops /\ failures \in 0..MaxFailures /\ refused \subseteq 1..MaxTyped
  /\ loaded \in 0..Len(rows)

(* No message is shown twice, however pages, deltas, failures and          *)
(* reconnects interleave; and on the first connection the conversation is  *)
(* oldest first, whichever of a page and the deltas arrives first.         *)
NoMessageTwice ==
  \A j, k \in DOMAIN messages : j < k =>
    /\ messages[j] # messages[k]
    /\ drops = 0 => messages[j] < messages[k]

(* No task is listed twice, though one that is not listed is prepended by  *)
(* its delta and found again on a later page (upsertTask, tasksPage).      *)
NoTaskTwice == \A j, k \in DOMAIN tasks : j # k => tasks[j].id # tasks[k].id

(* Paging skips nothing: every task from the cursor up to the newest one   *)
(* the first page knew is listed, whatever was created and whatever load   *)
(* was skipped or failed meanwhile ("never skipped by a tie", pageTasks).  *)
PagesSkipNothing ==
  \A r \in DOMAIN rows : r <= loaded /\ r >= taskCursor => r \in Shown

(* While the first connection lasts, the frames under way bring the latest *)
(* events in their order and without a gap, and the live feed holds the    *)
(* events just before them, newest first.                                  *)
FeedIsUnbroken ==
  drops = 0 /\ joined =>
    \E next \in 1..(Len(log) + 1) :
      /\ Carried("event") = next..Len(log)
      /\ \A j, k \in Coming("event") : j < k => down[j].seq < down[k].seq
      /\ \A k \in DOMAIN feed : feed[k] = next - k

(* What the principal types is published in the order typed and once; a    *)
(* message is lost only with its connection, or because publishing it      *)
(* threw, which nobody is told of (ws-server.ts:161-165).                  *)
SentOnceInOrder ==
  /\ \A i, j \in DOMAIN log : i < j /\ log[i] > 0 /\ log[j] > 0 => log[i] < log[j]
  /\ drops = 0 => LET sent == typed - Len(up)
                  IN  /\ ToSet(log) \ {Reply, Other} = (1..sent) \ refused
                      /\ up = [k \in 1..Len(up) |-> sent + k]

(* The organization shown catches up with every published event, over any  *)
(* finite number of lost connections: each event schedules a flush and     *)
(* each new connection is seeded.                                          *)
OrgCatchesUp == <>[](org.upTo = Len(log))

(* Once no flush is scheduled and nothing is under way, the organization   *)
(* shown to an open tab has every published event, whichever connections   *)
(* were lost, and to whomever the flushes in between were sent.            *)
OrgIsTold == link = "open" /\ down = <<>> /\ ~timer => org.upTo = Len(log)

(* What protocol.ts says of a conversation message: the "client appends    *)
(* it".  At rest, all messages from the cursor on are shown.               *)
ConversationIsComplete ==
  link = "open" /\ down = <<>> /\ messageLoad = NoLoad =>
    \A i \in DOMAIN log : IsPrincipalMessage(log[i]) /\ i >= messageCursor => i \in ToSet(messages)

=============================================================================
