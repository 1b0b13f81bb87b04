--------------------------- MODULE AuditorProofs ----------------------------
(* Theorems of Auditor: for any workers and any bounds, over crashes. *)
EXTENDS Auditor, SequenceTheorems, TLAPS

(* What the steps of a turn and of a review rely on. *)
TurnsAreSound ==
  \A w \in Workers :
    /\ turn[w].step = "recording" => turn[w].request # 0
    /\ turn[w].step = "starting" =>
         /\ w \in Coding
         /\ turn[w].seen = "running" /\ w \notin pulled => container[w] = "running"

ReviewIsSound ==
  /\ audit.step = "idle" => audit = NoAudit
  /\ audit.step = "polling" => audit.attempt < Attempts
  /\ audit.step \in {"attaching", "inspected", "pausing"} \/ audit.attached => Submitter \in Coding
  /\ audit.step = "done" => Request.number \in answered \cup failed

(* The inductive invariant: a review is of the first request, an attached
   container is a coding worker's, and a container seen running still runs
   unless it was pulled. *)
IInv ==
  /\ TypeOK
  /\ TurnsAreSound
  /\ ReviewIsSound
  /\ WorkersHaveTheirSandbox
  /\ ReviewedBeforeAcknowledged

Requested == [number : Numbers, from : Workers]
Turns     == [step : {"idle", "starting", "working", "recording"}, seen : States,
              request : 0..MaxRequests]
Audits    == [step : {"idle", "polling", "attaching", "inspected", "assessing", "pausing",
                      "replying", "done"},
              attempt : 0..Attempts, log : SUBSET Numbers, seen : States, attached : BOOLEAN]

(* A new request goes behind the one under review. *)
LEMMA Arriving ==
  ASSUME NEW q \in Seq(Requested), NEW r \in Requested
  PROVE  /\ Append(q, r) \in Seq(Requested) /\ Append(q, r) # <<>>
         /\ q # <<>> => Head(Append(q, r)) = Head(q)
         /\ {Append(q, r)[i].number : i \in 1..Len(Append(q, r))}
              = {q[i].number : i \in 1..Len(q)} \cup {r.number}
  <1>1. Append(q, r) \in Seq(Requested) /\ Append(q, r) # <<>>
    BY AppendProperties
  <1>2. q # <<>> => Head(Append(q, r)) = Head(q)
    OBVIOUS
  <1>3. /\ Len(q) \in Nat /\ Len(Append(q, r)) = Len(q) + 1
        /\ \A i \in 1..Len(q) : Append(q, r)[i] = q[i]
        /\ Append(q, r)[Len(q) + 1] = r
    OBVIOUS
  <1>4. \A i \in 1..Len(Append(q, r)) : i \in 1..Len(q) \/ i = Len(q) + 1
    BY <1>3
  <1>5. Len(q) + 1 \in 1..Len(Append(q, r)) /\ 1..Len(q) \subseteq 1..Len(Append(q, r))
    BY <1>3
  <1>6. {Append(q, r)[i].number : i \in 1..Len(Append(q, r))}
          = {q[i].number : i \in 1..Len(q)} \cup {r.number}
    BY <1>3, <1>4, <1>5
  <1> QED BY <1>1, <1>2, <1>6

(* Acknowledging takes the number of the first request away, and no other. *)
LEMMA Leaving ==
  ASSUME NEW q \in Seq(Requested), q # <<>>
  PROVE  /\ Tail(q) \in Seq(Requested) /\ Head(q) \in Requested
         /\ \A i \in 1..Len(q) : \/ q[i] = Head(q)
                                 \/ \E j \in 1..Len(Tail(q)) : Tail(q)[j] = q[i]
  <1>1. Tail(q) \in Seq(Requested) /\ Head(q) \in Requested /\ Head(q) = q[1]
    OBVIOUS
  <1>2. /\ Len(q) \in Nat \ {0} /\ Len(Tail(q)) = Len(q) - 1
        /\ \A j \in 1..Len(Tail(q)) : Tail(q)[j] = q[j + 1]
    OBVIOUS
  <1>3. ASSUME NEW i \in 1..Len(q), i # 1
        PROVE  \E j \in 1..Len(Tail(q)) : Tail(q)[j] = q[i]
    <2>1. i - 1 \in 1..Len(Tail(q)) /\ (i - 1) + 1 = i
      BY <1>2, <1>3
    <2> QED BY <1>2, <2>1
  <1> QED BY <1>1, <1>3

LEMMA InitHolds == Init => IInv
  <1> SUFFICES ASSUME Init PROVE IInv
    OBVIOUS
  <1> USE DEF Init
  <1>1. TypeOK
    <2>1. /\ NoTurn \in [step : {"idle", "starting", "working", "recording"}, seen : States,
                         request : 0..MaxRequests]
          /\ NoAudit \in [step : {"idle", "polling", "attaching", "inspected", "assessing",
                                  "pausing", "replying", "done"},
                          attempt : 0..Attempts, log : SUBSET Numbers, seen : States,
                          attached : BOOLEAN]
          /\ 0 \in 0..MaxRequests
      BY ReviewAssumption DEF NoTurn, NoAudit, States
    <2>2. mailbox \in Seq([number : Numbers, from : Workers])
      OBVIOUS
    <2>3. audit.step = "idle"
      BY DEF NoAudit
    <2> QED BY <2>1, <2>2, <2>3 DEF TypeOK, States
  <1>2. TurnsAreSound /\ WorkersHaveTheirSandbox
    BY ReviewAssumption DEF TurnsAreSound, WorkersHaveTheirSandbox, NoTurn
  <1>3. ReviewIsSound
    BY DEF ReviewIsSound, NoAudit
  <1>4. ReviewedBeforeAcknowledged
    BY DEF ReviewedBeforeAcknowledged
  <1> QED BY <1>1, <1>2, <1>3, <1>4 DEF IInv

-----------------------------------------------------------------------------
(* The workers *)

(* What the review relies on is untouched. *)
LEMMA ReviewUntouched ==
  ASSUME IInv, UNCHANGED <<mailbox, audit, requests, answered, failed>>
  PROVE  ReviewIsSound' /\ ReviewedBeforeAcknowledged'
  BY DEF IInv, ReviewIsSound, ReviewedBeforeAcknowledged, Pending, Request, Submitter

LEMMA TurnsHold ==
  ASSUME IInv, NEW w \in Workers,
         BeginTurn(w) \/ StartSandbox(w) \/ RecordTurn(w) \/ EndTurn(w)
  PROVE  IInv'
  <1> USE DEF IInv
  <1>1. ReviewIsSound' /\ ReviewedBeforeAcknowledged'
    BY ReviewUntouched DEF BeginTurn, StartSandbox, RecordTurn, EndTurn, verdicts
  <1>2. CASE BeginTurn(w)
    <2> USE <1>2 DEF BeginTurn, verdicts
    <2> DEFINE step == IF w \in Coding THEN "starting" ELSE "working"
               seen == IF w \in Coding THEN container[w] ELSE "absent"
    <2>0. turn' \in [Workers -> Turns]
      <3>1. step \in {"starting", "working"} /\ seen \in States
        BY DEF TypeOK, States
      <3>2. turn' = [turn EXCEPT ![w].step = step, ![w].seen = seen]
        OBVIOUS
      <3> HIDE DEF step, seen
      <3>3. turn \in [Workers -> Turns]
        BY DEF TypeOK, Turns
      <3>4. [turn[w] EXCEPT !.step = step, !.seen = seen] \in Turns
        BY <3>1, <3>3 DEF Turns
      <3>5. turn' = [turn EXCEPT ![w] = [turn[w] EXCEPT !.step = step, !.seen = seen]]
        BY <3>2, <3>3
      <3> QED BY <3>3, <3>4, <3>5
    <2>1. TypeOK'
      BY <2>0 DEF TypeOK, Turns
    <2>2. TurnsAreSound'
      BY DEF TurnsAreSound, TypeOK
    <2>3. WorkersHaveTheirSandbox'
      BY ReviewAssumption DEF WorkersHaveTheirSandbox, TypeOK
    <2> QED BY <1>1, <2>1, <2>2, <2>3
  <1>3. CASE StartSandbox(w)
    <2> USE <1>3 DEF StartSandbox, verdicts
    <2>1. w \in Coding /\ Started(turn[w].seen, container[w]) \in States
      BY DEF TurnsAreSound, TypeOK, Started, States
    <2>2. TypeOK'
      BY <2>1 DEF TypeOK
    <2>3. /\ w \notin pulled => container'[w] = "running"
          /\ \A v \in Coding \ {w} : container'[v] = container[v]
      BY <2>1 DEF TurnsAreSound, TypeOK, Started
    <2>4. TurnsAreSound'
      BY <2>3 DEF TurnsAreSound, TypeOK
    <2>5. WorkersHaveTheirSandbox'
      BY <2>3, ReviewAssumption DEF WorkersHaveTheirSandbox, TypeOK
    <2> QED BY <1>1, <2>2, <2>4, <2>5
  <1>4. CASE RecordTurn(w) \/ EndTurn(w)
    <2>1. turn' = [turn EXCEPT ![w] = NoTurn] /\ UNCHANGED <<pulled, container>>
      BY <1>4 DEF RecordTurn, EndTurn, verdicts
    <2>2. NoTurn \in Turns /\ NoTurn.step = "idle"
      BY ReviewAssumption DEF NoTurn, States, Turns
    <2>3. turn' \in [Workers -> Turns]
      BY <2>1, <2>2 DEF TypeOK, Turns
    <2>4. memory' \in [Workers -> SUBSET Numbers]
      <3>1. turn[w].step = "recording" => turn[w].request \in Numbers
        BY ReviewAssumption DEF TurnsAreSound, TypeOK, Numbers
      <3>2. CASE RecordTurn(w)
        <4>1. memory' = [memory EXCEPT ![w] = memory[w] \cup {turn[w].request}]
          BY <3>2 DEF RecordTurn
        <4>2. memory[w] \cup {turn[w].request} \in SUBSET Numbers
          BY <3>1, <3>2 DEF RecordTurn, TypeOK
        <4> QED BY <4>1, <4>2 DEF TypeOK
      <3>3. CASE EndTurn(w)
        BY <3>3 DEF EndTurn, TypeOK
      <3> QED BY <1>4, <3>2, <3>3
    <2>5. TypeOK'
      BY <1>4, <2>3, <2>4 DEF RecordTurn, EndTurn, TypeOK, Turns, verdicts
    <2>6. \A v \in Workers : turn'[v] = NoTurn \/ turn'[v] = turn[v]
      BY <2>1 DEF TypeOK
    <2>7. TurnsAreSound' /\ WorkersHaveTheirSandbox'
      BY <2>1, <2>2, <2>6, ReviewAssumption DEF TurnsAreSound, WorkersHaveTheirSandbox
    <2> QED BY <1>1, <2>5, <2>7
  <1> QED BY <1>2, <1>3, <1>4

LEMMA SubmitHolds ==
  ASSUME IInv, NEW w \in Workers, Submit(w)
  PROVE  IInv'
  <1> USE DEF IInv, Submit, verdicts
  <1> DEFINE r == [number |-> requests + 1, from |-> w]
  <1>1. r \in Requested /\ requests + 1 \in Numbers /\ mailbox \in Seq(Requested)
    BY ReviewAssumption DEF TypeOK, Requested, Numbers
  <1>2. /\ mailbox' \in Seq(Requested) /\ mailbox' # <<>>
        /\ mailbox # <<>> => Head(mailbox') = Head(mailbox)
        /\ Pending' = Pending \cup {requests + 1}
    <2>1. mailbox' = Append(mailbox, r)
      OBVIOUS
    <2> HIDE DEF r
    <2>2. /\ mailbox' \in Seq(Requested) /\ mailbox' # <<>>
          /\ mailbox # <<>> => Head(mailbox') = Head(mailbox)
          /\ {mailbox'[i].number : i \in 1..Len(mailbox')}
               = {mailbox[i].number : i \in 1..Len(mailbox)} \cup {r.number}
      BY <1>1, <2>1, Arriving
    <2>3. r.number = requests + 1
      BY DEF r
    <2> QED BY <2>2, <2>3 DEF Pending
  <1>3. TypeOK'
    <2>1. requests + 1 \in 0..MaxRequests
      BY <1>1, ReviewAssumption DEF Numbers
    <2>2. turn' \in [Workers -> Turns]
      BY <2>1 DEF TypeOK, Turns
    <2> HIDE DEF r
    <2> QED BY <1>2, <2>1, <2>2 DEF TypeOK, Requested, Turns
  <1>4. TurnsAreSound' /\ WorkersHaveTheirSandbox'
    <2>1. /\ turn'[w].step = "recording" /\ turn'[w].request = requests + 1
          /\ \A v \in Workers \ {w} : turn'[v] = turn[v]
      BY DEF TypeOK
    <2>2. requests + 1 # 0
      BY <1>1, ReviewAssumption DEF Numbers
    <2> QED BY <2>1, <2>2, ReviewAssumption DEF TurnsAreSound, WorkersHaveTheirSandbox
  <1>5. ReviewIsSound'
    <2>1. audit.step # "idle" => mailbox # <<>>
      BY DEF TypeOK
    <2>2. audit.step # "idle" => Request' = Request /\ Submitter' = Submitter
      BY <1>2, <2>1 DEF Request, Submitter
    <2>3. audit.attached => audit.step # "idle"
      BY DEF ReviewIsSound, NoAudit
    <2> QED BY <2>2, <2>3 DEF ReviewIsSound
  <1>6. ReviewedBeforeAcknowledged'
    <2>1. 1..requests' = 1..requests \cup {requests + 1}
      BY DEF TypeOK
    <2> QED BY <1>2, <2>1 DEF ReviewedBeforeAcknowledged
  <1> QED BY <1>3, <1>4, <1>5, <1>6

LEMMA LeavingWorkHolds ==
  ASSUME IInv, NEW w \in Workers, Retire(w) \/ CloseTask(w)
  PROVE  IInv'
  <1> USE DEF IInv, Retire, CloseTask, verdicts, loops
  <1>1. ReviewIsSound' /\ ReviewedBeforeAcknowledged'
    BY ReviewUntouched
  <1>2. TypeOK'
    <2>1. stops' \in [Coding -> SUBSET Stoppers]
      <3>1. "agent" \in Stoppers
        BY DEF Stoppers
      <3> QED BY <3>1 DEF TypeOK
    <2>2. memory' \in [Workers -> SUBSET Numbers] /\ retired' \subseteq Workers
      BY DEF TypeOK
    <2>3. closes' \in Nat
      BY DEF TypeOK
    <2> QED BY <2>1, <2>2, <2>3 DEF TypeOK
  <1>3. TurnsAreSound' /\ WorkersHaveTheirSandbox'
    BY DEF TurnsAreSound, WorkersHaveTheirSandbox
  <1> QED BY <1>1, <1>2, <1>3

-----------------------------------------------------------------------------
(* The Auditor *)

(* While a review is under way it is of a request in the mailbox. *)
LEMMA UnderReview ==
  ASSUME IInv, audit.step # "idle"
  PROVE  mailbox # <<>> /\ Request \in Requested /\ Submitter \in Workers /\ Request.number \in Numbers
  <1>1. mailbox # <<>> /\ mailbox \in Seq(Requested)
    BY DEF IInv, TypeOK, Requested
  <1>2. Request \in Requested
    BY <1>1, Leaving DEF Request
  <1> QED BY <1>1, <1>2 DEF Submitter, Requested

(* Steps of a review that touch neither the turns nor the containers. *)
LEMMA WorkersUntouched ==
  ASSUME IInv, UNCHANGED <<turn, pulled, container>>
  PROVE  TurnsAreSound' /\ WorkersHaveTheirSandbox'
  BY DEF IInv, TurnsAreSound, WorkersHaveTheirSandbox

LEMMA PollHolds == ASSUME IInv, Poll PROVE IInv'
  <1> USE DEF IInv, Poll, loops, verdicts
  <1>1. TurnsAreSound' /\ WorkersHaveTheirSandbox'
    BY WorkersUntouched
  <1>2. Submitter \in Workers /\ Request.number \in Numbers
    BY UnderReview
  <1> DEFINE goOn == memory[Submitter] # {} \/ audit.attempt + 1 = Attempts
             next == IF ~goOn THEN "polling"
                     ELSE IF Submitter \in Coding THEN "attaching" ELSE "assessing"
  <1>3. audit' = [audit EXCEPT !.step = next, !.attempt = @ + 1, !.log = memory[Submitter]]
    OBVIOUS
  <1>4. next \in {"polling", "attaching", "assessing"} /\ memory[Submitter] \in SUBSET Numbers
    BY <1>2 DEF TypeOK
  <1>5. /\ audit.attempt + 1 \in 0..Attempts
        /\ next = "polling" => audit.attempt + 1 < Attempts
        /\ next = "attaching" => Submitter \in Coding
        /\ audit.attached => Submitter \in Coding
    BY ReviewAssumption DEF TypeOK, ReviewIsSound
  <1>6. stale' \subseteq Numbers
    BY <1>2 DEF TypeOK
  <1> HIDE DEF next
  <1>7. /\ audit'.step = next /\ audit'.attempt = audit.attempt + 1
        /\ audit'.attached = audit.attached
        /\ audit' \in [step : {"idle", "polling", "attaching", "inspected", "assessing", "pausing",
                               "replying", "done"},
                       attempt : 0..Attempts, log : SUBSET Numbers, seen : States,
                       attached : BOOLEAN]
    BY <1>3, <1>4, <1>5 DEF TypeOK
  <1>8. TypeOK'
    BY <1>6, <1>7 DEF TypeOK
  <1>9. ReviewIsSound'
    BY <1>4, <1>5, <1>7 DEF ReviewIsSound, Submitter, Request
  <1>10. ReviewedBeforeAcknowledged'
    BY DEF ReviewedBeforeAcknowledged, Pending
  <1> QED BY <1>1, <1>8, <1>9, <1>10

LEMMA AttachHolds == ASSUME IInv, Attach PROVE IInv'
  <1> USE DEF IInv, Attach, loops, verdicts
  <1>1. Submitter \in Coding
    BY DEF ReviewIsSound
  <1>2. /\ container'[Submitter] \in States
        /\ container[Submitter] = "running" => container'[Submitter] = "running"
        /\ \A v \in Coding \ {Submitter} : container'[v] = container[v]
    BY <1>1 DEF TypeOK, Started, States
  <1>3. TypeOK'
    BY <1>1, <1>2 DEF TypeOK
  <1>4. TurnsAreSound' /\ WorkersHaveTheirSandbox'
    BY <1>2 DEF TurnsAreSound, WorkersHaveTheirSandbox
  <1>5. ReviewIsSound'
    BY <1>1 DEF ReviewIsSound, Submitter, Request, TypeOK
  <1>6. ReviewedBeforeAcknowledged'
    BY DEF ReviewedBeforeAcknowledged, Pending
  <1> QED BY <1>3, <1>4, <1>5, <1>6

LEMMA QuietStepsHold ==
  ASSUME IInv, TakeRequest \/ Inspect \/ AttachFails \/ Assess \/ Paused
  PROVE  IInv'
  <1> USE DEF IInv, TakeRequest, Inspect, AttachFails, Assess, Paused, Step, loops, verdicts
  <1>1. TurnsAreSound' /\ WorkersHaveTheirSandbox'
    BY WorkersUntouched
  <1>2. audit.attached \/ audit.step \in {"attaching", "inspected", "pausing"} => Submitter \in Coding
    BY DEF ReviewIsSound
  <1>3. TypeOK'
    <2>1. audit' \in Audits
      <3>1. audit.step = "attaching" => container[Submitter] \in States
        BY <1>2 DEF TypeOK
      <3> QED BY <3>1 DEF TypeOK, Audits
    <2>2. stops' \in [Coding -> SUBSET Stoppers]
      <3>1. "auditor" \in Stoppers
        BY DEF Stoppers
      <3>2. CASE UNCHANGED stops
        BY <3>2 DEF TypeOK
      <3>3. CASE /\ audit.attached
                 /\ stops' = [stops EXCEPT ![Submitter] = @ \cup {"auditor"}]
        BY <1>2, <3>1, <3>3 DEF TypeOK
      <3> QED BY <3>2, <3>3
    <2>3. mailbox # <<>>
      BY DEF TypeOK
    <2> QED BY <2>1, <2>2, <2>3 DEF TypeOK, Audits
  <1>4. ReviewIsSound'
    <2>1. Request' = Request /\ Submitter' = Submitter
      BY DEF Request, Submitter
    <2>2. /\ audit'.step \in {"polling", "inspected", "assessing", "pausing", "replying"}
          /\ audit'.step = "polling" => audit.step = "idle" /\ audit'.attempt = audit.attempt
          /\ audit'.step \in {"inspected", "pausing"} =>
               audit.attached \/ audit.step \in {"attaching", "inspected", "pausing"}
          /\ audit'.attached = audit.attached
      BY DEF TypeOK
    <2>3. audit.step = "idle" => audit.attempt < Attempts
      BY ReviewAssumption DEF ReviewIsSound, NoAudit
    <2> QED BY <1>2, <2>1, <2>2, <2>3 DEF ReviewIsSound
  <1>5. ReviewedBeforeAcknowledged'
    BY DEF ReviewedBeforeAcknowledged, Pending
  <1> QED BY <1>1, <1>3, <1>4, <1>5

LEMMA VerdictsHold == ASSUME IInv, AssessFails \/ Reply PROVE IInv'
  <1> USE DEF IInv, AssessFails, Reply, Step, loops, verdicts
  <1>1. TurnsAreSound' /\ WorkersHaveTheirSandbox'
    BY WorkersUntouched
  <1>2. Request.number \in Numbers
    BY UnderReview
  <1>3. TypeOK'
    BY <1>2 DEF TypeOK
  <1>4. ReviewIsSound'
    BY DEF ReviewIsSound, Submitter, Request, TypeOK
  <1>5. ReviewedBeforeAcknowledged'
    BY DEF ReviewedBeforeAcknowledged, Pending
  <1> QED BY <1>1, <1>3, <1>4, <1>5

LEMMA AcknowledgeHolds == ASSUME IInv, Acknowledge PROVE IInv'
  <1> USE DEF IInv, Acknowledge, loops, verdicts
  <1>1. TurnsAreSound' /\ WorkersHaveTheirSandbox'
    BY WorkersUntouched
  <1>2. /\ mailbox' \in Seq(Requested)
        /\ \A i \in 1..Len(mailbox) :
             mailbox[i] = Request \/ \E j \in 1..Len(mailbox') : mailbox'[j] = mailbox[i]
    <2>1. mailbox \in Seq(Requested) /\ mailbox # <<>>
      BY DEF TypeOK, Requested
    <2> QED BY <2>1, Leaving DEF Request
  <1>3. TypeOK'
    BY <1>2, ReviewAssumption DEF TypeOK, Requested, NoAudit, States
  <1>4. ReviewIsSound'
    BY DEF ReviewIsSound, NoAudit
  <1>5. ReviewedBeforeAcknowledged'
    <2>1. \A n \in Pending : n = Request.number \/ n \in Pending'
      BY <1>2 DEF Pending
    <2>2. Request.number \in answered \cup failed
      BY DEF ReviewIsSound
    <2> QED BY <2>1, <2>2 DEF ReviewedBeforeAcknowledged
  <1> QED BY <1>1, <1>3, <1>4, <1>5

-----------------------------------------------------------------------------
(* Docker and the process *)

LEMMA StopTakesEffectHolds ==
  ASSUME IInv, NEW w \in Coding, NEW s \in Stoppers, StopTakesEffect(w, s)
  PROVE  IInv'
  <1> USE DEF IInv, StopTakesEffect, loops, verdicts
  <1>1. ReviewIsSound' /\ ReviewedBeforeAcknowledged'
    BY ReviewUntouched
  <1>2. w \in Workers
    BY ReviewAssumption
  <1>3. TypeOK'
    BY <1>2 DEF TypeOK, States
  <1>4. TurnsAreSound' /\ WorkersHaveTheirSandbox'
    BY DEF TurnsAreSound, WorkersHaveTheirSandbox, TypeOK
  <1> QED BY <1>1, <1>3, <1>4

LEMMA CrashHolds == ASSUME IInv, Crash PROVE IInv'
  <1> USE DEF IInv, Crash, verdicts
  <1>1. NoTurn \in [step : {"idle", "starting", "working", "recording"}, seen : States,
                    request : 0..MaxRequests]
    BY ReviewAssumption DEF NoTurn, States
  <1>2. NoAudit \in [step : {"idle", "polling", "attaching", "inspected", "assessing", "pausing",
                             "replying", "done"},
                     attempt : 0..Attempts, log : SUBSET Numbers, seen : States,
                     attached : BOOLEAN] /\ NoAudit.step = "idle"
    BY ReviewAssumption DEF NoAudit, States
  <1>3. TypeOK'
    BY <1>1, <1>2 DEF TypeOK
  <1>4. TurnsAreSound' /\ WorkersHaveTheirSandbox'
    BY ReviewAssumption DEF TurnsAreSound, WorkersHaveTheirSandbox, NoTurn
  <1>5. ReviewIsSound'
    BY DEF ReviewIsSound, NoAudit
  <1>6. ReviewedBeforeAcknowledged'
    BY DEF ReviewedBeforeAcknowledged, Pending
  <1> QED BY <1>3, <1>4, <1>5, <1>6

LEMMA NextHolds == IInv /\ [Next]_vars => IInv'
  <1> SUFFICES ASSUME IInv, [Next]_vars PROVE IInv'
    OBVIOUS
  <1>1. CASE \E w \in Workers : WorkerStep(w)
    BY <1>1, TurnsHold, SubmitHolds, LeavingWorkHolds DEF WorkerStep
  <1>2. CASE Review
    BY <1>2, PollHolds, AttachHolds, QuietStepsHold, VerdictsHold, AcknowledgeHolds DEF Review, ReviewGoesOn
  <1>3. CASE \E w \in Coding, s \in Stoppers : StopTakesEffect(w, s)
    BY <1>3, StopTakesEffectHolds
  <1>4. CASE Crash
    BY <1>4, CrashHolds
  <1>5. CASE UNCHANGED vars
    BY <1>5 DEF IInv, vars, TypeOK, TurnsAreSound, ReviewIsSound, WorkersHaveTheirSandbox,
                ReviewedBeforeAcknowledged, Pending, Request, Submitter
  <1> QED BY <1>1, <1>2, <1>3, <1>4, <1>5 DEF Next

(* The inductive invariant holds in every reachable state. *)
THEOREM Invariance == Spec => []IInv
  <1> QED BY InitHolds, NextHolds, PTL DEF Spec

(* Type correctness of the reviews: a review under way has its request in the
   mailbox, and no poll counts past its attempts. *)
THEOREM TypeCorrectness == Spec => []TypeOK
  <1>1. IInv => TypeOK
    BY DEF IInv
  <1> QED BY <1>1, Invariance, PTL

(* A coding worker that works has its container running, however the Auditor's
   and the agents' docker stops and starts interleave, unless a stop hit the
   container during that very turn (agents/index.ts:188-192). *)
THEOREM SandboxesRun == Spec => []WorkersHaveTheirSandbox
  <1>1. IInv => WorkersHaveTheirSandbox
    BY DEF IInv
  <1> QED BY <1>1, Invariance, PTL

(* Every request that left the mailbox has a verdict or a failed assessment, for
   any number of requests and crashes (audit.ts:177-186). *)
THEOREM NothingLeavesUnreviewed == Spec => []ReviewedBeforeAcknowledged
  <1>1. IInv => ReviewedBeforeAcknowledged
    BY DEF IInv
  <1> QED BY <1>1, Invariance, PTL
=============================================================================
