------------------------------ MODULE Auditor ------------------------------
(***************************************************************************)
(* Reviews: the Auditor of core/services/audit.ts, the turns of the workers*)
(* that submit to it (core/agents/index.ts) and the Docker containers they *)
(* share (core/sandbox/docker-sandbox.ts).                                 *)
(*                                                                         *)
(* A worker submits within a turn and records the turn afterwards; the     *)
(* Auditor polls for that record, attaches to the worker's container,      *)
(* probes it, asks a model, pauses the container and replies.  Nothing     *)
(* keeps the worker from beginning its next turn meanwhile.                *)
(***************************************************************************)
EXTENDS Integers, Sequences, FiniteSets

CONSTANTS
  Workers,
  Coding,       \* the engineering workers: those with a sandbox
  Attempts,     \* ACTION_LOG_POLL_ATTEMPTS
  MaxTurns,     \* bound on turns begun
  MaxRequests,  \* bound on review requests
  MaxCloses,    \* bound on cleared memories
  MaxCrashes    \* bound on process deaths

ASSUME ReviewAssumption ==
  /\ Coding \subseteq Workers
  /\ Attempts \in Nat \ {0}
  /\ MaxTurns \in Nat /\ MaxRequests \in Nat /\ MaxCloses \in Nat /\ MaxCrashes \in Nat

States  == {"absent", "running", "exited"}
NoTurn  == [step |-> "idle", seen |-> "absent", request |-> 0]
NoAudit == [step |-> "idle", attempt |-> 0, log |-> {}, seen |-> "absent", attached |-> FALSE]

VARIABLES
  turn,       \* what each worker's loop is at, the container state it saw, its request
  prepared,   \* workers whose current process has prepared its sandbox
  memory,     \* the requests among the recorded tool calls of each worker
  container,  \* the state of each coding worker's container
  stops,      \* docker stop commands under way: by the Auditor, by the agent
  retired,    \* workers whose loop was stopped
  mailbox,    \* the Auditor's requests, the one in flight first: [number, from]
  audit,      \* what the Auditor is at with the first of them
  requests,   \* requests made so far
  (* history, read by the properties only *)
  pulled,     \* workers whose container was stopped during their turn
  answered,   \* requests with a verdict
  failed,     \* requests whose assessment threw
  stale,      \* requests assessed on a log that ends before them, poll not given up
  turns,
  closes,
  crashes

vars == <<turn, prepared, memory, container, stops, retired, mailbox, audit, requests,
          pulled, answered, failed, stale, turns, closes, crashes>>
loops    == <<turn, prepared, retired, turns>>
verdicts == <<answered, failed, stale>>

Stoppers == {"auditor", "agent"}
Request  == Head(mailbox)
Submitter == Request.from
Step(s)  == [audit EXCEPT !.step = s]

(* What start() makes of a container in state now that it saw in state seen:
   docker start works on any container, docker run on none that exists. *)
Starts(seen, now) == seen # "absent" \/ now = "absent"
Started(seen, now) == IF seen = "running" THEN now ELSE "running"

Init ==
  /\ turn = [w \in Workers |-> NoTurn]
  /\ prepared = {}
  /\ memory = [w \in Workers |-> {}]
  /\ container = [w \in Coding |-> "absent"]
  /\ stops = [w \in Coding |-> {}]
  /\ retired = {}
  /\ mailbox = <<>>
  /\ audit = NoAudit
  /\ requests = 0
  /\ pulled = {}
  /\ answered = {} /\ failed = {} /\ stale = {}
  /\ turns = 0 /\ closes = 0 /\ crashes = 0

-----------------------------------------------------------------------------
(* The workers *)

(* Mutation of BeginTurn: the sandbox is started on the first turn only. *)
BeginTurnOnce(w) ==
  /\ turn[w].step = "idle" /\ w \notin retired
  /\ turns < MaxTurns
  /\ turns' = turns + 1
  /\ turn' = [turn EXCEPT ![w].step = IF w \in Coding \ prepared THEN "starting" ELSE "working",
                          ![w].seen = IF w \in Coding THEN container[w] ELSE "absent"]
  /\ pulled' = pulled \ {w}
  /\ UNCHANGED <<prepared, memory, container, stops, retired, mailbox, audit, requests, verdicts,
                 closes, crashes>>

(* handle(): a coding worker looks at its container first, on every turn. *)
BeginTurn(w) ==
  /\ turn[w].step = "idle" /\ w \notin retired
  /\ turns < MaxTurns
  /\ turns' = turns + 1
  /\ turn' = [turn EXCEPT ![w].step = IF w \in Coding THEN "starting" ELSE "working",
                          ![w].seen = IF w \in Coding THEN container[w] ELSE "absent"]
  /\ pulled' = pulled \ {w}
  /\ UNCHANGED <<prepared, memory, container, stops, retired, mailbox, audit, requests, verdicts,
                 closes, crashes>>

(* prepareSandbox(), once docker ps has answered. *)
StartSandbox(w) ==
  /\ turn[w].step = "starting"
  /\ Starts(turn[w].seen, container[w])
  /\ container' = [container EXCEPT ![w] = Started(turn[w].seen, @)]
  /\ turn' = [turn EXCEPT ![w].step = "working"]
  /\ prepared' = prepared \cup {w}
  /\ UNCHANGED <<memory, stops, retired, mailbox, audit, requests, pulled, verdicts, turns,
                 closes, crashes>>

(* request_review: the request is published, and the turn ends with it. *)
Submit(w) ==
  /\ turn[w].step = "working"
  /\ requests < MaxRequests
  /\ requests' = requests + 1
  /\ mailbox' = Append(mailbox, [number |-> requests + 1, from |-> w])
  /\ turn' = [turn EXCEPT ![w].step = "recording", ![w].request = requests + 1]
  /\ UNCHANGED <<prepared, memory, container, stops, retired, audit, pulled, verdicts, turns,
                 closes, crashes>>

(* recordTurn(): only now the submission is in the worker's memory. *)
RecordTurn(w) ==
  /\ turn[w].step = "recording"
  /\ memory' = [memory EXCEPT ![w] = @ \cup {turn[w].request}]
  /\ turn' = [turn EXCEPT ![w] = NoTurn]
  /\ UNCHANGED <<prepared, container, stops, retired, mailbox, audit, requests, pulled, verdicts,
                 turns, closes, crashes>>

(* A turn that fails, in its sandbox or its model call, or submits nothing. *)
EndTurn(w) ==
  /\ turn[w].step \in {"starting", "working"}
  /\ turn' = [turn EXCEPT ![w] = NoTurn]
  /\ UNCHANGED <<prepared, memory, container, stops, retired, mailbox, audit, requests, pulled,
                 verdicts, turns, closes, crashes>>

(* stop() of a terminated agent: nobody waits for docker stop, and
   an open turn goes on. *)
Retire(w) ==
  /\ w \notin retired
  /\ retired' = retired \cup {w}
  /\ stops' = IF w \in Coding THEN [stops EXCEPT ![w] = @ \cup {"agent"}] ELSE stops
  /\ UNCHANGED <<turn, prepared, memory, container, mailbox, audit, requests, pulled, verdicts,
                 turns, closes, crashes>>

(* closeTask() of one of the worker's tasks clears its memory. *)
CloseTask(w) ==
  /\ closes < MaxCloses
  /\ closes' = closes + 1
  /\ memory' = [memory EXCEPT ![w] = {}]
  /\ UNCHANGED <<loops, container, stops, mailbox, audit, requests, pulled, verdicts, crashes>>

-----------------------------------------------------------------------------
(* The Auditor *)

TakeRequest ==
  /\ audit.step = "idle"
  /\ mailbox # <<>>
  /\ audit' = Step("polling")
  /\ UNCHANGED <<loops, memory, container, stops, mailbox, requests, pulled, verdicts, closes,
                 crashes>>

(* Mutation of Poll: it never gives up. *)
PollForever ==
  /\ audit.step = "polling"
  /\ memory[Submitter] # {}
  /\ audit' = [audit EXCEPT !.step = IF Submitter \in Coding THEN "attaching" ELSE "assessing",
                            !.log = memory[Submitter]]
  /\ stale' = IF Request.number \notin memory[Submitter]
              THEN stale \cup {Request.number} ELSE stale
  /\ UNCHANGED <<loops, memory, container, stops, mailbox, requests, pulled, answered, failed,
                 closes, crashes>>

(* loadActionLog(), one attempt: any submission of the worker will do; after
   the last attempt the log is taken as it is. *)
Poll ==
  /\ audit.step = "polling"
  /\ LET found == memory[Submitter] # {}
         goOn  == found \/ audit.attempt + 1 = Attempts
     IN  /\ audit' = [audit EXCEPT
                        !.step = IF ~goOn THEN "polling"
                                 ELSE IF Submitter \in Coding THEN "attaching" ELSE "assessing",
                        !.attempt = @ + 1,
                        !.log = memory[Submitter]]
         /\ stale' = IF found /\ Request.number \notin memory[Submitter]
                     THEN stale \cup {Request.number} ELSE stale
  /\ UNCHANGED <<loops, memory, container, stops, mailbox, requests, pulled, answered, failed,
                 closes, crashes>>

(* The Auditor's start() of the submitter's container: look, then act. *)
Inspect ==
  /\ audit.step = "attaching"
  /\ audit' = [audit EXCEPT !.step = "inspected", !.seen = container[Submitter]]
  /\ UNCHANGED <<loops, memory, container, stops, mailbox, requests, pulled, verdicts, closes,
                 crashes>>

Attach ==
  /\ audit.step = "inspected"
  /\ Starts(audit.seen, container[Submitter])
  /\ container' = [container EXCEPT ![Submitter] = Started(audit.seen, @)]
  /\ audit' = [audit EXCEPT !.step = "assessing", !.attached = TRUE]
  /\ UNCHANGED <<loops, memory, stops, mailbox, requests, pulled, verdicts, closes, crashes>>

(* start() threw: the review goes on without a sandbox. *)
AttachFails ==
  /\ audit.step = "inspected"
  /\ audit' = Step("assessing")
  /\ UNCHANGED <<loops, memory, container, stops, mailbox, requests, pulled, verdicts, closes,
                 crashes>>

(* The workspace is empty, or assess() returned: there is a verdict.  A sandbox
   is stopped before it is sent. *)
Assess ==
  /\ audit.step = "assessing"
  /\ \/ /\ audit.attached
        /\ stops' = [stops EXCEPT ![Submitter] = @ \cup {"auditor"}]
        /\ audit' = Step("pausing")
     \/ /\ ~audit.attached
        /\ audit' = Step("replying")
        /\ UNCHANGED stops
  /\ UNCHANGED <<loops, memory, container, mailbox, requests, pulled, verdicts, closes, crashes>>

(* assess() threw: consume() logs it and goes on. *)
AssessFails ==
  /\ audit.step = "assessing"
  /\ failed' = failed \cup {Request.number}
  /\ audit' = Step("done")
  /\ UNCHANGED <<loops, memory, container, stops, mailbox, requests, pulled, answered, stale,
                 closes, crashes>>

(* Mutation of Paused: the review ends when the sandbox is paused. *)
PausedWithoutReply ==
  /\ audit.step = "pausing"
  /\ "auditor" \notin stops[Submitter]
  /\ audit' = Step("done")
  /\ UNCHANGED <<loops, memory, container, stops, mailbox, requests, pulled, verdicts, closes,
                 crashes>>

(* docker stop has returned. *)
Paused ==
  /\ audit.step = "pausing"
  /\ "auditor" \notin stops[Submitter]
  /\ audit' = Step("replying")
  /\ UNCHANGED <<loops, memory, container, stops, mailbox, requests, pulled, verdicts, closes,
                 crashes>>

(* The verdict is published to the manager of the task, or to the submitter. *)
Reply ==
  /\ audit.step = "replying"
  /\ answered' = answered \cup {Request.number}
  /\ audit' = Step("done")
  /\ UNCHANGED <<loops, memory, container, stops, mailbox, requests, pulled, failed, stale, closes,
                 crashes>>

(* The next takeNext() acknowledges the request. *)
Acknowledge ==
  /\ audit.step = "done"
  /\ mailbox' = Tail(mailbox)
  /\ audit' = NoAudit
  /\ UNCHANGED <<loops, memory, container, stops, requests, pulled, verdicts, closes, crashes>>

-----------------------------------------------------------------------------
(* Docker and the process *)

(* docker stop takes its time: docker ps says running until the container is
   killed. *)
StopTakesEffect(w, s) ==
  /\ s \in stops[w]
  /\ stops' = [stops EXCEPT ![w] = @ \ {s}]
  /\ container' = [container EXCEPT ![w] = IF @ = "running" THEN "exited" ELSE @]
  /\ pulled' = IF turn[w].step = "idle" THEN pulled ELSE pulled \cup {w}
  /\ UNCHANGED <<loops, memory, mailbox, audit, requests, verdicts, closes, crashes>>

(* The process dies and is restarted: turns and the review are gone, mailbox,
   memories and containers are not, and the request in flight is replayed. *)
Crash ==
  /\ crashes < MaxCrashes
  /\ crashes' = crashes + 1
  /\ turn' = [w \in Workers |-> NoTurn]
  /\ prepared' = {}
  /\ audit' = NoAudit
  /\ UNCHANGED <<memory, container, stops, retired, mailbox, requests, pulled, verdicts, turns, closes>>

-----------------------------------------------------------------------------
(* Specification *)

WorkerStep(w) ==
  BeginTurn(w) \/ StartSandbox(w) \/ Submit(w) \/ RecordTurn(w) \/ EndTurn(w) \/ Retire(w) \/ CloseTask(w)

(* What goes on without the assessment. *)
ReviewGoesOn ==
  \/ TakeRequest \/ Poll \/ Inspect \/ Attach \/ AttachFails
  \/ Paused \/ Reply \/ Acknowledge

Review == ReviewGoesOn \/ Assess \/ AssessFails

Next ==
  \/ \E w \in Workers : WorkerStep(w)
  \/ Review
  \/ \E w \in Coding, s \in Stoppers : StopTakesEffect(w, s)
  \/ Crash

Spec == Init /\ [][Next]_vars

(* The Auditor's awaits are resolved, and docker stop returns.  Nothing is
   assumed of the assessment: it waits for a slot of the model pool, and its
   model may run commands in the sandbox that have no time limit. *)
FairSpec ==
  /\ Spec
  /\ WF_vars(ReviewGoesOn)
  /\ \A w \in Coding : WF_vars(\E s \in Stoppers : StopTakesEffect(w, s))

-----------------------------------------------------------------------------
(* Properties *)

Numbers == 1..MaxRequests

(* Every variable ranges over the values the code can store in it. *)
TypeOK ==
  /\ turn \in [Workers -> [step : {"idle", "starting", "working", "recording"}, seen : States,
                           request : 0..MaxRequests]]
  /\ prepared \subseteq Coding
  /\ memory \in [Workers -> SUBSET Numbers]
  /\ container \in [Coding -> States]
  /\ stops \in [Coding -> SUBSET Stoppers]
  /\ retired \subseteq Workers
  /\ mailbox \in Seq([number : Numbers, from : Workers])
  /\ audit \in [step : {"idle", "polling", "attaching", "inspected", "assessing", "pausing",
                        "replying", "done"},
                attempt : 0..Attempts, log : SUBSET Numbers, seen : States, attached : BOOLEAN]
  /\ audit.step # "idle" => mailbox # <<>>
  /\ requests \in 0..MaxRequests
  /\ pulled \subseteq Workers
  /\ answered \subseteq Numbers /\ failed \subseteq Numbers /\ stale \subseteq Numbers
  /\ turns \in Nat /\ closes \in Nat /\ crashes \in Nat

(* Rework after a review finds a running container although the Auditor stopped
   it, in the middle of a start() or not, unless a docker stop hit the container
   during the turn itself (agents/index.ts:188-192). *)
WorkersHaveTheirSandbox ==
  \A w \in Coding : turn[w].step = "working" /\ w \notin pulled => container[w] = "running"

Pending == {mailbox[i].number : i \in 1..Len(mailbox)}

(* A request leaves the mailbox only with a verdict or a failed assessment, over
   crashes and however the sandbox behaves (audit.ts:177-186, 252-304). *)
ReviewedBeforeAcknowledged == (1..requests) \ Pending \subseteq answered \cup failed

(* If no assessment lasts for ever, a request is answered, or its assessment
   fails, in the end: no worker that crashed, was stopped or lost its memory
   keeps the Auditor waiting, nor do its containers (audit.ts:156-161).  The
   condition is not the Auditor's to keep (audit.ts:340-347, bash.ts:28). *)
AssessmentsEnd == []<>(audit.step # "assessing")
ReviewsEnd ==
  AssessmentsEnd => \A n \in Numbers : n <= requests ~> n \in answered \cup failed

(* audit.ts:150-151 "poll the (shared, in-memory) store until that turn lands
   rather than reviewing against a stale log": a poll that succeeds has found the
   submission under review. *)
LogsAreFresh == stale = {}

=============================================================================
