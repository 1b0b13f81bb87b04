# Verification of xevos

TLA+ models of `src/packages/core`, the TypeScript process that runs a
hierarchy of LLM agents over a durable event bus, and of the state its web
client keeps, with the TLC runs that check them and the TLAPS proofs about
them. Paths below are relative to `src/packages/core/src` unless they start
with `src/` or `README.md`.

## 1. The system

One Node process, one SQLite file (better-sqlite3: every query is synchronous),
one JavaScript thread. A synchronous function is atomic towards the rest of the
process; handlers interleave at every `await`; a process death falls between
any two database writes that are not in one transaction. Workers that write code
have a Docker container each; a browser tab shows the whole over a WebSocket.

| Component | State | Operations | Hard behaviour | What makes it correct |
|---|---|---|---|---|
| Event bus, mailbox, store (`core/event-bus/`) | `events` and `inbox` tables; per-endpoint queue, waiter, slot in flight; the `seq` counter | publish, subscribe, unsubscribe, takeNext, recover | crash between two writes; acknowledgement one step after the work; late subscription | at-least-once, in order, nothing stranded, ids unique |
| Agent loop (`core/agents/`) | `running`, the launch-time config, the sandbox | take, perceive, reason, act, record turn, escalate on error | terminated in mid-turn; fails half-way with events already published; crash between record and acknowledgement | no turn vanishes, silence after termination, memory follows mailbox |
| Tools (`core/services/tool/`) | none | tools of a role; yielding tools; org and task tools | tool calls of one model step run in parallel | each publishes what its agent may publish |
| Code tools (`core/services/tool/definitions/code/`) | files of the worker's container | read, write, edit, multi-edit, insert, search, bash | read, change and write back are commands of their own, the last in pieces; a command fails or the container stops in between | a call does as it says unless others change the file under it |
| AgentService (`core/services/agent.ts`) | `agents` table (status, `manages`, `reportsTo`), map of live loops | create, suspend, resume, terminate | parallel tool calls and the bus handler run `create` concurrently and await between read and write | caps, one mailbox per live agent, `manages` matches `reportsTo` |
| TaskService (`core/services/task.ts`) | `tasks` table | create, transition, update, archive | read, await, write; two entry points with different rules | only table transitions, completion is the manager's, one archive per task |
| MemoryService (`core/services/memory.ts`) | `agent_memory`, warehouse rows and vectors | assembleContext, recordTurn, closeTask | a model call between copying the turns and clearing them | no turn is lost, one archive per task |
| AuditService (`core/services/audit.ts`) | none of its own; reads the worker's turns | wait for the submission turn, assess, publish a verdict | races the worker's recordTurn and its next turn in the sandbox | every request is reviewed, on a log that has its submission |
| Model pool (`core/utils.ts`) | per-key next-free time, semaphore, waiters | reserveKey, acquire, release, withModel | requests queue for a slot with a key window already reserved | at most the cap at once, windows of a key spaced apart |
| Docker sandbox (`core/sandbox/`) | container state | start, exec, readFile, writeFile, stop | started by the agent's turn, stopped by the Auditor and by termination | running during rework |
| Principal (`core/principal/`) | none | send, receive | publishes outside every handler | reaches the executive, once, in order |
| Observer server (`observer/`) | sockets, a debounced timer, a watermark | seed, tap, flush, pages | deltas are asked for by time; many events share one flush | every change is told |
| Web client stream (`src/apps/web/lib/use-xevos-stream.ts`) | the tab's copy of tasks, messages, feed, org | reduce frames and pages, load more, reconnect, send | pages, deltas and reconnects in any order | nothing twice, nothing skipped |
| Prompts, embeddings, schema, documentation | | | texts, external models, table types | not modelled |

Who calls whom: agents act only through tools; org and task tools call
AgentService and TaskService directly, in the tool call of the model's step;
everything else goes over the bus as events. TaskService publishes delegation and
status events, AuditService consumes `review_presentation_request` and publishes
the verdict, MemoryService is called by the agent loop and by TaskService on a
terminal transition. The observer taps the bus, reads the store and feeds the tab;
what the principal types comes back over the same socket.

What would hurt, part by part, and where a property speaks of it, is the list
`hazards` of `PROJECT.json`; the sections below say which behaviours the models
keep and why.

## 2. Modules

| Module | Models | Run | Theorems |
|---|---|---|---|
| `EventBus` | bus, mailboxes, store, consumer loops, boot, recovery and crashes | `bus` | `EventBusProofs` |
| `AtLeastOnce` | what the bus promises its users, without mailboxes, rows or crashes | as a property of `bus` and `loop` | refined in `EventBusProofs` and `AgentLoopProofs` |
| `AgentLoop` | the run loops of the agents with their role tools, escalation, termination and crashes, over mailboxes as `EventBus` keeps them | `loop` | `AgentLoopProofs` |
| `AgentService` | create, suspend, resume, terminate, boot and crash over the agents table | `agents`, `agents_reports` | `AgentServiceProofs` |
| `TaskService` | the task board, `transition`, `archive`, `closeTask`, `recordTurn` | `tasks` | `TaskServiceProofs` |
| `ModelPool` | API keys, request slots and the queue for them | `pool` | `ModelPoolProofs` |
| `Auditor` | reviews, the workers' turns around them, and the containers they share | `audit`, `audit_log` | `AuditorProofs` |
| `FileTools` | the nine code tools on one file of a container that stops and starts | `files` | `FileToolsProofs` |
| `Observer` | the observer server and the rows it reads | with `Dashboard` | |
| `Dashboard` | `Observer` composed with one browser tab and the socket between them | `ui`, `conversation`, `ui_conversation` | `DashboardProofs` |

Where an instance needs model values, an `MC` module names them; there is one
`.cfg` per run. Definitions named "Mutation of ..." in a comment are broken
variants of the operator below them. Nothing uses them; putting one in the
operator's place is how each property was seen to fail.

### EventBus

| Code | Model |
|---|---|
| `events` table (`store.ts`) | `log`, records of `seq` and `target` |
| `inbox` table | `inbox`, row `r` at index `r`, with target, event and status |
| status column of `agents` | `roster` |
| `EventBus.seq`, `mailboxes` | `seq`, `subscribed` |
| `Mailbox.queue`, `waiter`, `inFlight` | the variables of these names, one per endpoint |
| `publish` (`index.ts:148-177`) | `PublishAppend`, then `Deliver` or `Discard` |
| `takeNext`, `ackInFlight` | `TakeNext` with `Ack` |
| a loop's `await handle(event)` settling | `HandlerReturns` |
| `main()` up to `recover()`, each round of it, its end | `Boot`, `RecoverRow`, `RecoverEnd` |
| create, suspend, resume, terminate, as the bus sees them | `CreateAgent`, `SuspendAgent`, `ResumeAgent`, `TerminateAgent` |

`publishing` stands for the point between the two writes of one `publish`.
JavaScript cannot interleave there, so every action but `Crash` waits for it;
the process can die there. A crash keeps `log`, `inbox` and `roster` and drops
everything else. `handled`, `joined` and `gap` are history: how often a row was
handled, where the inbox ended when an endpoint subscribed, and which endpoints
had pending rows that some boot passed over, being suspended at the time.

Suspending writes a status and nothing else: the loop goes on with the config it
was launched with. A suspended agent loses its mailbox only at the next boot,
and a resume after it subscribes an empty one. That is the one way in which a
live agent comes to have pending rows its mailbox does not hold, and the reason
for `joined` and `gap` in the properties.

### AgentLoop

`EventBus` follows an event to the handler and back; `AgentLoop` opens the
handler. `inbox[a]` is the list of pending rows of `a`, taken at the promise
`EventBus` keeps: the first one is in hand until the loop goes round.
`turn[a].step` is where the loop is: `Take` (takeNext), `PrepareSandbox`,
`Perceive` (context), `Reason` (the model picks tool calls), `RunTool` (one of
the parallel calls), `Observe` (all have returned, `stopWhen`), `RecordTurn`,
`GoRound`. `Fail` is any throw outside a tool call: `onError()` runs
`escalate_blocker` in the agent's name and nothing is recorded. `Escalate` may fail
as well: the executor catches what the tool throws, `onError()` does not look at
the result, and the event may have got into the log without the inbox, or nowhere.
`unheard` (history) has the events lost that way. `Sends` says what
each tool may publish, `RoleTools` which role has it (`default-tools.ts`).
`Stop` is termination, which leaves the open turn alone; `Crash` relaunches the
rest, which find their event in hand again. `stopped[a]` is the length of the log
when `a` was terminated. The fields `by` and `cause` of an event, and `begun`,
are history. The organization is fixed here, and suspension is no action: it does
not touch a running loop.

### AgentService

An id is a pair of role and serial. `rows` is the agents table, `counters` the
serial counters, `loops` the map of running agents as a count per id, so that a
second loop would show. A call of `create()` is three actions, cut at its two
awaits: `BeginCreate` (checks, mint, insert), `RecordReport` (the creator's
`manages` from the row read at the start), `LaunchChild`. Any number of tool
calls and the service's consume loop run it at once. `handleResume` shares its
end with `create()`. `Walk` is `depthOf`; it is a recursive function over a
bounded number of steps, since `reportsTo` of a deleted superior dangles.

### TaskService

`board` holds status and worker of a task; title, criteria, budget and review
text decide nothing. `memory` and `warehouse` hold turns as numbers. A call is a
record with the step it is at: `read` (the row is read, the await after it is
open), `closing`, `learning` (the worker's turns are copied, the model is
asked), `archiving` (the memory is cleared, the archive row is not written).
A close works for the worker of the row its update returned, whoever has the task
by then. The last stretch has no await in it; only a crash falls there, and `Free`
says so. `RecordTurn` may come at any other time. `Patch` is `handleUpdate`, which
writes any status.

### ModelPool

`now` is the clock; a caller goes from `idle` through `sleeping` (its key is
reserved, its window lies ahead) and perhaps `waiting` to `running`. Timers fire
at their time or later.

### Auditor

`turn` is what each worker's loop is at, `audit` what the Auditor is at with the
request at the head of `mailbox`. Of the Docker container the model keeps
`absent`, `running` and `exited`. `start()` looks (`docker ps`) and then acts, in
two actions; `docker stop` is a command that is issued (`stops`) and takes
effect later (`StopTakesEffect`), and goes on when the process that issued it
dies. The Auditor waits for its own stop, an agent that is terminated does not.
A worker records the turn in which it submitted after that turn's tools ran, so
the Auditor may look first. How long an assessment takes is open: `Assess` and
`AssessFails` end it, if anything does.

### FileTools

A text is a sequence of tokens, a token a string some call looks for or puts in.
A call is a chain of `docker exec` commands with an await between them: `Decide`
(the file is read, or `test -e` asked, and the new text computed),
`MakeDirectory`, and the shell of `writeFile()`: `Truncate` (the redirection
empties the file or creates it), `Put` (`cat` writes a further piece, each string
at its own place whatever others have done to the file), `Close`. The shell keeps
the file it opened (`linked`): when a bash command removes or replaces that file,
the rest goes nowhere. Any command may fail, in a running container too; `Breaks`
is a shell that fails after it emptied the file. `StopContainer` kills the shells
that write.

`Edit`, `Edits` and `Insert` are what the tools do to a text. Where a single match
is replaced, JavaScript's `replace` reads four patterns in the new string
(`Expansion`): "$&" is the match, "$`" what is ahead of it, "$'" what is behind it,
"$$" is "$". An anchored insert hands it anchor and text in one string, in which a
pattern may form where the two meet (`Together`, `Meet`). `undisturbed` and
`before` are history: whether nobody changed the file since the call was made, and
the file at that moment; so is `last`, the last call to empty the file with the
texts of those that were writing then.

### Observer and Dashboard

`rows` is the tasks table with a version and `updatedAt`, `log` the events
table. `Publish` is the tap (an event frame, a message frame if the principal is a
party, a scheduled flush), `Flush` the debounced timer (org state, tasks changed
since `watermark`), `Page` and its two uses the keyset pages. Nothing is kept per
socket but the socket, so one tab stands for all. `Dashboard` adds the reducer
(`UpsertTask`, `AppendMessage`, `PushEvent`, `TasksPage`, `MessagesPage`), the
connection (`Connect`, `OnOpen`, `OnClose`, `Reconnect`), page requests that are
answered at one moment and shown at another, and the uplink (`Submit`,
`OnPrincipalMessage`, and `PrincipalMessageFails` for a publish that throws, which
the server reports on its console only). A cursor of 0 is null. `told`, `marks`,
`loaded`, `refused` and the field `upTo` are history.

## 3. What the runs check

### Passing

**`bus`** (376,452 states). One service, the executive, one further agent that
may be created, suspended, resumed and terminated; three events, two crashes.

- `EventIdsIncrease`: ids stay strictly increasing over restarts, though the
  counter is volatile.
- `MailboxHoldsPendingRowsInOrder`: rows are handed out in row order, none twice.
- `NoStrandedRow`: after recovery the mailbox of a live endpoint holds every
  pending row addressed to it, those older than a late subscription excepted.
- `HandledAfterEarlierConsumed`: an endpoint touches an event only when all
  before it are acknowledged, so a crash repeats one event per endpoint at most.
- `RepeatedOnlyByCrashes`: an event is handled once, plus once per crash at most.
- `ImplementsPromise`: the bus implements `AtLeastOnce`, with a row as an item
  that is queued, handled or settled.
- `AcceptedIsConsumed` (liveness): every durable row is acknowledged in the end,
  unless its agent left the roster or is suspended, a boot passed over its
  backlog, or the executive was terminated (no boot succeeds after that).

**`loop`** (200,167). The ladder of one department (executive, head, manager,
worker with a sandbox), two parallel tool calls per step, one failing turn, one
termination, one crash.

- `NoTurnVanishes`: an event no longer pending is in its agent's memory, or its
  superior got an escalation for it into its mailbox; so whatever a half-finished
  turn published is accounted for. It takes two failures to lose one: the superior
  was terminated before, or the escalation of the failed turn failed too.
- `NothingAfterStop`: a terminated agent publishes for one event at most, which it
  had been sent before.
- `MemoryFollowsMailbox`: turns are recorded in the order of the events, and one
  is recorded again only after a crash between record and acknowledgement.
- `ImplementsPromise`: the loops keep the promise of `AtLeastOnce` to those who
  publish, with `handled` as "a loop has begun it".
- `MailboxesDrain` (liveness): if every model ends its turns, every mailbox of an
  agent that is not terminated is drained.

**`agents`** (127,587). Two tool calls (symmetric) and the consume loop on a
three-rung ladder, one crash, fan-out ceiling 1, size ceiling 3, so that both
ceilings are met by calls that race: `SizeCapHolds`, `IdsAreNeverReused`,
`OneLoopPerAgent`, `ActiveAgentsRun` (the exception is a child whose creator was
terminated half-way through `create()`), and `ListsAreBounded`: the list the
fan-out check looks at never outgrows the ceiling, although calls write it from
stale copies. The number of reports does outgrow it: the list then names one of
several, see `agents_reports`.

**`tasks`** (561,724). Two tasks of one worker, three transitions by a tool call
and the consume loop, one update request, one recorded turn, the worker may be
deleted, learnings fail, one crash. `OnlyManagerCompletes`; and for tasks that
are *uncontested* (no two calls had the row read at once, no patch touched it)
`UncontestedTasksFollowTheTable` (an action property) and
`UncontestedTasksAreArchivedOnce`. `TurnsAreKeptUnlessExposed`: a turn is
*exposed* if it was recorded while its worker's memory was being closed, or if
the process died between the clear and the archive; these are the only ways to
lose one, so two closes of one worker that overlap, and a learning that fails,
lose nothing. `ClosedIsArchived` (liveness): a closed task is archived in the end
unless its close was given up.

**`pool`** (286,770). Four callers, two keys, two slots: `SlotsAreConserved`,
`WindowsAreSpaced`, and `ReservedCallsRun` (liveness, if those who hold a slot give
it back).

**`audit`** (252,696). An engineer and a researcher, two turns, two requests, one
cleared memory, one crash: `WorkersHaveTheirSandbox` (rework finds its container
running even when the Auditor stopped it in the middle of a start, unless a stop
took effect during the turn itself), `ReviewedBeforeAcknowledged` (a request
leaves the mailbox with a verdict or a failed assessment only), and `ReviewsEnd`
(liveness: if no assessment lasts for ever, every request is answered or its
assessment fails; no submission that never lands and no container keeps the Auditor
waiting).

**`files`** (98,246). Two calls at once, of eleven operations on a file that exists
or not; commands fail, bash commands remove the file or put another in its place,
the container stops once. `UndisturbedDoesAsSaid` (action property): a call under
which nobody changes the file, whatever else is open and whenever the container
stops, does all its description says if it succeeds (all edits of a `multi_edit`);
leaves the file as it found it if it refuses; and leaves it alone or with the
beginning of the new text if it throws. What an edit does to a text is stated apart
from how the tools compute it (`Edited`, `Inserted`), and `Literal` names the
exceptions, the patterns of `replace`. `LastWriterIsWhole`: once the last call to
empty the file has written its text, the file is at least that long, and at each
place it has that text or what a call that was already writing at that moment puts
there; with no such call, the text and nothing else. Of a last call whose shell failed
or was killed nothing is claimed. `CallsEnd` (liveness): every
call but a bash command ends, through stops.

**`ui`** (2,427,997). Tasks that are there at first, created and updated while the
tab loads its pages of one row, one lost connection. `OnlyTiesAreMissed`: a
change no delta told of is newer than the watermark, or was written in the very
millisecond of one that was told. `NoTaskTwice`, `PagesSkipNothing`: every task
from the cursor up to the newest the first page knew is listed, whatever was
created or skipped meanwhile.

**`conversation`** (1,503,803). The principal types two messages, replies come as
deltas and on pages, a load or a publish fails, a connection is lost. `NoMessageTwice` (and in order on the
first connection), `FeedIsUnbroken` (the feed and the frames under way are the
latest events without a gap), `SentOnceInOrder` (what is typed is published in the order
typed and once; it is lost only with its connection or with a publish that throws), `OrgIsTold` (an open tab with
nothing under way and no flush scheduled shows the organization as of the last
event), `OrgCatchesUp` (liveness: it comes to that).

The type invariant of every module is a theorem (section 6); `ui` checks its own as
well.

### Violated

These runs each state what the repository says of itself and end with TLC's
counterexample.

| Run | Statement | What happens |
|---|---|---|
| `agents_reports` | README.md:184-185, no lost-update races | two `create()` calls of one creator read the same list; the later write drops the earlier child |
| `audit_log` | audit.ts:148-151, the poll waits for the submission's turn | any earlier submission in the memory ends the poll |
| `ui_conversation` | observer/protocol.ts:115, the client appends a message delta | a message shown before the first page arrives is left out of the page as known and then replaced by it; after a reconnect, so is everything shown before |

### Known divergences without a run

Each is behaviour the models contain; a passing property names it as an exception
or does not claim the opposite.

- The audit-log row and the inbox row are two writes: a crash between them, or a
  target without a mailbox, leaves an event in the log nobody receives
  (README.md:191-192 says every targeted event is persisted to the inbox).
- `transition()` checks the row it read before an await: a second call moves a
  completed task to failed (docs/system-overview.md:440 calls these statuses
  terminal). Hence *uncontested*.
- A turn recorded while the learning is extracted is deleted with the memory
  (docs/system-overview.md:829-831). Hence *exposed*.
- A key's window is reserved before the wait for a slot, so calls that queued
  send requests of one key back to back (utils.ts:45-46).
- A resumed agent keeps the backlog a boot passed over until another restart
  (`gap`); there is no boot without the executive (`Headless`).
- More reports than the fan-out ceiling (`ListsAreBounded` is about the list); a
  child left unlaunched when its creator goes (`ActiveAgentsRun`), or launched
  after it was terminated.
- A terminated agent stays in its superior's `manages`, which `buildSystemPrompt`
  resolves from the launch-time copy: after a restart every turn of that superior
  throws and is escalated.
- The executive escalates to `principal`, which has no mailbox: its failing turns
  are in the log only. That is an escalation sent, as `NoTurnVanishes` says, not
  one read.
- The Auditor stops the container under a worker's next turn (`pulled`); a failed
  assessment sends no verdict (`failed`).
- Two edits of one model step on one file lose one, and two shells that write it at
  once mix their texts (`LastWriterIsWhole` says how far).
- `write_file` asks `test -e` in a shell: where that cannot run, as in a stopped
  container, it reads as "no file", and a file that is there is overwritten though
  the tool is to fail then (write-file.ts:24). A file created after the test is
  overwritten as well. `undisturbed` excludes both.
- A shell that fails after the redirection leaves an empty file or the beginning of
  the text; the call throws, but the old text is gone.
- The patterns of `replace` in the new string of a single edit or in what an
  anchored insert puts in the anchor's place are read, which is not what the tools
  describe (`Literal`). The instance has a "$`" in a single edit, a "$&" that stays
  as it is under `replace_all`, and a "$" inserted behind a "$", which has no effect.
- A turn that fails when its escalation fails too is acknowledged, recorded nowhere
  and reported to nobody (`unheard`; executor.ts:46-58). A complaint to a superior
  that was terminated is in the log only.
- A message of the principal whose publish throws is gone: the form was cleared and
  the tab is not told (`refused`; ws-server.ts:161-165).
- The Auditor takes one review at a time, and an assessment that never ends (a bash
  command without a time limit, a slot of the pool that is never given back) keeps
  all later ones waiting. Hence the condition of `ReviewsEnd`.
- A first page of tasks that was read before an update and arrives after its delta
  puts the older row back, and the update is not sent again, since the watermark has
  moved on (observer/protocol.ts:109 says the client upserts a delta by id). It is
  the same replacement as in `ui_conversation`.
- The org state counts pending rows when it is built; consuming a row publishes
  nothing, so a shown `queueDepth` may be stale until the next event.
- The archive row of a learning is committed before its vector: a crash in between
  leaves a learning that recall never finds.

## 4. Bounds

- *Bus.* Three events are what it takes to have one in flight, one queued and
  one in the middle of a publish; with two crashes a recovery can itself be cut
  short and run again. Two agents and one service give every kind of endpoint:
  always subscribed, subscribed at boot, subscribed late.
- *Loop.* Two events beside automatic escalations: one in hand and one queued, or
  one that answers another. Two calls per step are a yielding and a publishing
  one, or two that publish. One failure, with an escalation that succeeds or fails,
  one termination and one crash can each fall before, in or after the same turn.
- *Agents.* Two parallel tool calls and the loop are three overlapping
  `create()`s, one more than any of the races needs. The size ceiling is the
  number of agents a two-level tree needs; `MaxSerial` 2 lets an id follow a
  deleted one. `agents_reports` has looser ceilings and no crash.
- *Tasks.* Two tasks are what two closes of one worker need. `MaxCalls` is needed
  beside the other bounds because a contested task can leave its terminal status,
  so calls could go on for ever; three calls take one task to completion while
  another call overlaps. Of the statuses, one open and two terminal ones.
- *Pool.* Four callers on two slots make a queue of two. The clock runs over two
  intervals, so a key frees up again and is reserved again; `ReservedCallsRun`
  excuses a call whose window lies beyond it.
- *Audit.* Two turns of the engineer are a submission and the rework; two
  requests make the second one wait behind the first, or be a resubmission.
  `Attempts` is 2 instead of the code's constant: the poll goes round once and
  gives up once.
- *Files.* Two open calls are what the overlaps of one file need: one that empties
  the file before, while and after the other writes it. Texts of up to three tokens
  hold a string never, once and twice, and are written in up to three pieces.
- *UI.* Pages of one row, two rows: a page, the page after it, and a row that is on
  neither. `ui` leaves out messages and `conversation` leaves out tasks, since the
  reducer keeps the two lists apart. Two typed messages have an order, and one of
  them can fail or be lost ahead of the other. The clock ticks once and rows of an
  earlier process are older, so a row shares a millisecond with the watermark or does
  not. `Serve` and `OnPrincipalMessage` keep at most a page of messages under way.

No `.cfg` checks for deadlock: once the bounds are used up an instance has
nothing to do, and the real system, too, may stop for good (without an executive
no boot succeeds) or idle until the Principal writes.

## 5. Fairness

Only what the runtime owes is assumed; nobody is obliged to publish, create,
ask, crash or close. Weak fairness is enough everywhere, as nothing else disables
these actions.

- *Bus*: a process that is down is booted again, recovery goes on, `publish`
  returns, a handler returns (model calls give up after `maxRetries`), a loop
  comes back for more.
- *Loop*: `Proceed`, all that goes on without the model. Of the model nothing is
  assumed in the specification: the tool loop has no cap, so `MailboxesDrain`
  states as its condition that each model leaves its turn again and again.
- *Tasks*: an open call goes on: an await is resolved, a model call answers or
  fails.
- *Pool*: timers fire, a model call returns or throws, and `release` is in a
  `finally`. That a call returns is a condition on what it runs: the tool loop inside
  `withModel` has no cap.
- *Audit*: the Auditor's awaits other than the assessment are resolved, and
  `docker stop` returns. Nothing is assumed of the assessment, which waits for a slot
  of the pool and may run bash without a time limit; `ReviewsEnd` has it as its
  condition that each one ends.
- *Files*: every command ends, save one a model wrote itself, which has no limit
  on its time. A container is not obliged to be started again.
- *UI*: the flush timer and the reconnect timer fire, a socket is accepted, and
  frames that are not lost arrive.

## 6. What is proved

TLAPS checks the theorems for every value of the constants the assumptions
allow: any number of endpoints, agents, callers, keys, slots, tasks and crashes.
The assumptions are on the constants only (`EndpointsAssumption`,
`LimitsAssumption`, `StaffAssumption`, `PoolAssumption`, `LadderAssumption` and
the like): disjoint sets, natural bounds, at least one slot and one key. TLC
evaluates them in each run. In every proof module an invariant `IInv` is shown to
hold initially and to be kept by each action (one lemma per action or group), and
the properties follow from it.

- **`EventBusProofs`**: all safety properties of `bus`, and `Refinement`: every
  step of the bus is a step of `AtLeastOnce` or a stutter.
  *Why `IInv` is needed*: that rows are not stranded depends on how far recovery
  has come (`RowsAreHeld` speaks of rows below `recoverAt` while it runs), that
  slots are in order depends on recovery pushing rows above all it has pushed
  (`SlotsBelow`), and that one crash repeats an event once depends on every slot
  in a mailbox having been handled at most `crashes` times
  (`HandlingsAreCounted`). Unique ids follow from the log being numbered
  1, 2, ... (`LogIsNumbered`), which makes `MaxSeq` its length. For the
  refinement, `Deliver` accepts an item, a `HandlerReturns` handles it the first
  time and stutters when it repeats it, `TakeNext` settles it, and `Boot` passes
  over backlogs; `InFlightComesFirst` is what allows a handling.
- **`AgentLoopProofs`**: type correctness, the three safety properties of `loop`,
  and `Refinement`: every step of the loops is a step of `AtLeastOnce` or a stutter.
  A turn that leaves the mailbox was recorded, complained of or unheard because it
  was when it ended (`HandledIsKept`), and a complaint that was heard stays so;
  silence needs that a terminated agent gets
  nothing any more and publishes only for what is in its hand (`StoppedAreDeaf`);
  and a record is repeated as often as the process died because the records of
  the event in hand are counted with one to spare while its turn is open
  (`RepeatsAreCounted`), none being later than what is pending
  (`MemoryIsBehind`). For the refinement, a queued
  event is an item under its number in the log: the tool call or the failure that
  publishes it accepts it, `Take` handles it the first time, `GoRound` settles it,
  and a crash passes over nothing.
- **`AgentServiceProofs`**: all properties of `agents`. The size cap is inductive
  because check and insert are one step. Fresh ids need `SerialsAreCounted`
  (every id ever given out lies at or below its counter); `ActiveAgentsRun`
  needs `InsertedUnderCreator`, which ties an open call to the row it inserted;
  `ListsAreBounded` needs `SnapshotsHaveRoom`, since what is written is not the
  list but an old copy of it.
- **`TaskServiceProofs`**: all safety properties of `tasks`,
  `UncontestedTasksFollowTheTable` among them as a property of steps. The heart
  is `ReadsAreFresh` (the row a call read is still the row, unless the task is
  contested), `ClosesOnce` (an uncontested task has an entry or one open close)
  and `CopiesCoverMemory` (what a close copied is all the worker remembers but
  for exposed turns), which is why clearing loses nothing else.
- **`ModelPoolProofs`**: type correctness, conservation of slots, exactness of the
  queue, spacing of windows. Slots are counted as the cardinality of the running
  callers, so the hand-over step is the one where a caller leaves and another
  joins that set.
- **`AuditorProofs`**: type correctness, `WorkersHaveTheirSandbox` and
  `ReviewedBeforeAcknowledged`. A turn that starts and has seen its container
  running finds it running still, unless it was pulled (`TurnsAreSound`); a
  review that is done has answered or failed its request, which is the first of
  the mailbox (`ReviewIsSound`).
- **`FileToolsProofs`**: both safety properties of `files`, for any number of calls
  and pieces, any texts and edits, and any stops. `ShellsAreInPlace` says where a
  shell is with its text, `LastIsInFile` that up to the place the last call to empty
  the file has reached every string is accounted for, and beyond it only calls of
  `mixed` have written; that takes knowing that every shell writing the file then was
  in `mixed` and none has come since. `UndisturbedAreOnTheirOwn` says that a call
  which is undisturbed finds the file as it was when it was made until it empties
  it, and from then on the beginning of its own text, and that it has planned what
  its decision on that file is. What several edits compute is a recursive
  function over their number; that each result is a text and does what `Exactly` says
  is proved by induction (`NumbersReach`, which is about a set and not about a
  predicate, so that the provers can use it).
- **`DashboardProofs`**: all safety properties of `ui` and `conversation`, for any
  size of a page and any number of connections. `Arrange` sorts a set by counting
  predecessors, so that it lists every member once and in order (`Arranged`) needs
  cardinalities and no recursion; pages (`PageFacts`), filtered pages
  (`FilterFacts`) and the order of task deltas rest on it. Beside the types
  (`TypeInv`) there is one invariant per list:
  - `IInv` for `OnlyTiesAreMissed`: a row written now is newer than the watermark or
    as old, and the watermark is one of the times sent (`MarksAreTimed`).
  - `PagesFollow` for the task list: the answer under way lists all rows from its
    next cursor to the present one, because the cursor does not move while a load
    is open.
  - `SentIsNewer` for the uplink: what is under way is newer than all in the log and
    all that was refused.
  - `FeedInv` for the feed: before the first connection it is empty.
  - `FramesAreLatest`, `FirstShown` and `FirstLoads` for the conversation. What is
    under way when the first page is read is on that page, since no more messages
    are under way than a page holds: this is where the bound in `Serve` is needed.
  - `OrgIsComing` for the organization: while no flush is scheduled, some org frame
    under way and all behind it tell of the last event, or the last one shown did.

So every safety and action property of a passing run is a theorem, both
refinements of `AtLeastOnce` included. Only model-checked: the liveness properties
(`AcceptedIsConsumed`, `MailboxesDrain`, `ClosedIsArchived`, `ReservedCallsRun`,
`ReviewsEnd`, `CallsEnd`, `OrgCatchesUp`), since fairness and `ENABLED` are out of
the prover's reach, and the violated statements, which have counterexamples.

## 7. Not modelled

- What a model decides, prompts, and the texts of events, tasks and turns. Every
  decision is a choice of the model; in `AgentLoop` it is a choice among the tools
  its role is granted.
- Several requests inside one slot: the SDK may send a request per step of a
  tool loop within one `withModel`. `ModelPool` counts calls.
- Who receives a verdict, and what it says; delivery is the bus's.
- `task_update_request`, suspension, resumption and termination have no tool that
  emits them. They are actions of the models, since the services handle them.
  `information_response` is published by no code that answers a request; what a
  model answers is a message.
- Departments split the serials of a role and nothing else. KPIs, objectives and
  budgets are data no branch looks at.
- Vector search and embeddings: they read, but for an index row whose loss the
  code accepts.
- `web_search` calls an external service; its result is text. `assertAllowed`,
  `DockerSandbox.remove`, `close()` of the observer and `stop()` of the Auditor
  have no caller. Leaving the page disposes of the tab's state, and nothing is
  shown afterwards. `/health` and `/org` answer from functions that are modelled.
- In the code tools: strings to look for and anchors that consist of several tokens
  or overlap, texts of tokens of different length that write over each other, bash
  commands that change the file in several steps, a `docker exec` other than bash that
  never ends, and an error on the pipe to a child that is gone, which has no listener
  and ends the process.
- A publish of the principal's or of a tool that throws after its log row was written
  (`Escalate` has it), and a flush whose query throws (ws-server.ts:122-126), which
  is given up until the next event.
- Clipping, numbering and glob patterns of the code tools, and rendering in the
  web application.
- The database schema, types and migrations, and the documentation: the modules
  take their value sets from the first and their promises from the second.

## 8. What is left

1. An `Organization` that composes the lifecycle of `AgentService` with the loops
   of `AgentLoop` and the board of `TaskService`: delegations to agents that are
   created and terminated while they work, and superiors whose reports are gone.
   `AgentLoop` fixes the organization, so these show as assumptions there.
2. Two tabs in `Dashboard` would show nothing new as long as the server keeps
   nothing per socket; a cursor kept by the server would.
3. Proofs: with the modules as they are, what is left is liveness. Of the safety
   side, the composition above would bring the theorems of `AgentService` and
   `AgentLoop` together.
