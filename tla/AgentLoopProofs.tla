-------------------------- MODULE AgentLoopProofs ---------------------------
(* Theorems of AgentLoop: for any organization, any choice of tools by the
   models, and any number of failures, terminations and crashes. *)
EXTENDS AgentLoop, SequenceTheorems, FiniteSetTheorems, TLAPS

Entries == [kind : Kinds, to : Addressees, queued : BOOLEAN, by : Agents \union {Principal},
            cause : Nat]

(* Pending events are in the order they were published. *)
InboxesAreSorted ==
  \A a \in Agents : \A i, j \in DOMAIN inbox[a] : i < j => inbox[a][i] < inbox[a][j]

Answered(a, i) == Complained(a, i) \/ i \in unheard

(* A turn that is over was recorded or complained of, or nobody heard of it. *)
HandledIsKept ==
  \A a \in Agents : AtStep(a, "handled") =>
    InHand(a) \in ToSet(memory[a]) \/ Answered(a, InHand(a))

(* A terminated agent gets nothing any more, and publishes for the event in its hand. *)
StoppedAreDeaf ==
  \A a \in Agents : ~Running(a) =>
    /\ \A i \in DOMAIN inbox[a] : inbox[a][i] <= stopped[a]
    /\ \A k \in Events : k > stopped[a] /\ log[k].by = a =>
         inbox[a] # <<>> /\ log[k].cause = InHand(a)

(* What is recorded is no later than what is pending. *)
MemoryIsBehind ==
  \A a \in Agents : \A j \in DOMAIN memory[a], i \in DOMAIN inbox[a] : memory[a][j] <= inbox[a][i]

(* The records of the event in hand are counted by the crashes, with room for
   the one that is still to come. *)
RepeatsAreCounted ==
  \A a \in Agents : inbox[a] # <<>> =>
    \A j \in DOMAIN memory[a] : memory[a][j] = InHand(a) =>
      /\ Len(memory[a]) - j <= crashes
      /\ turn[a].step \notin {"handled", "ended"} => Len(memory[a]) + 1 - j <= crashes

IInv ==
  /\ TypeOK
  /\ InboxesAreSorted
  /\ HandledIsKept
  /\ NoTurnVanishes
  /\ StoppedAreDeaf
  /\ MemoryIsBehind
  /\ RepeatsAreCounted
  /\ MemoryFollowsMailbox

-----------------------------------------------------------------------------
(* Facts about the state *)

LEMMA LogFacts ==
  ASSUME TypeOK
  PROVE  /\ Len(log) \in Nat /\ Events = 1..Len(log)
         /\ \A i \in Events : log[i] \in Entries
         /\ \A a \in Agents :
              /\ Len(inbox[a]) \in Nat /\ DOMAIN inbox[a] = 1..Len(inbox[a])
              /\ \A i \in DOMAIN inbox[a] : inbox[a][i] \in Events
              /\ Len(memory[a]) \in Nat /\ DOMAIN memory[a] = 1..Len(memory[a])
              /\ \A i \in DOMAIN memory[a] : memory[a][i] \in Events
              /\ stopped[a] \in Int
              /\ inbox[a] # <<>> => 1 \in DOMAIN inbox[a] /\ InHand(a) = inbox[a][1] /\ InHand(a) \in Events
         /\ crashes \in Nat
  <1>1. log \in Seq(Entries)
    BY DEF TypeOK, Entries
  <1>2. Len(log) \in Nat /\ Events = 1..Len(log) /\ \A i \in Events : log[i] \in Entries
    BY <1>1 DEF Events
  <1>3. ASSUME NEW a \in Agents
        PROVE  /\ Len(inbox[a]) \in Nat /\ DOMAIN inbox[a] = 1..Len(inbox[a])
               /\ \A i \in DOMAIN inbox[a] : inbox[a][i] \in Events
               /\ Len(memory[a]) \in Nat /\ DOMAIN memory[a] = 1..Len(memory[a])
               /\ \A i \in DOMAIN memory[a] : memory[a][i] \in Events
               /\ stopped[a] \in Int
               /\ inbox[a] # <<>> =>
                    1 \in DOMAIN inbox[a] /\ InHand(a) = inbox[a][1] /\ InHand(a) \in Events
    <2>1. inbox[a] \in Seq(Events) /\ memory[a] \in Seq(Events) /\ stopped[a] \in -1..Len(log)
      BY DEF TypeOK
    <2>2. inbox[a] # <<>> => 1 \in DOMAIN inbox[a] /\ InHand(a) = inbox[a][1]
      BY <2>1 DEF InHand
    <2>3. /\ Len(inbox[a]) \in Nat /\ DOMAIN inbox[a] = 1..Len(inbox[a])
          /\ \A i \in DOMAIN inbox[a] : inbox[a][i] \in Events
      BY <2>1, LenProperties, ElementOfSeq
    <2>4. /\ Len(memory[a]) \in Nat /\ DOMAIN memory[a] = 1..Len(memory[a])
          /\ \A i \in DOMAIN memory[a] : memory[a][i] \in Events
      BY <2>1, LenProperties, ElementOfSeq
    <2>5. stopped[a] \in Int
      BY <1>2, <2>1
    <2> QED BY <2>2, <2>3, <2>4, <2>5
  <1>4. crashes \in Nat
    BY LadderAssumption DEF TypeOK
  <1> QED BY <1>2, <1>3, <1>4

(* What a tool call publishes is an envelope. *)
LEMMA CallsAreEnvelopes ==
  ASSUME NEW a \in Agents, NEW step \in Steps[a]
  PROVE  step.calls \subseteq Envelopes /\ step.last \in BOOLEAN
  <1>1. ASSUME NEW t PROVE Sends(a, t) \subseteq Envelopes
    BY LadderAssumption
    DEF Sends, SendMessage, RequestInformation, EscalateBlocker, RequestReview, RespondToPrincipal,
        Delegate, Envelope, Envelopes, Kinds, Addressees
  <1>2. ASSUME NEW c \in ToolCalls(a) PROVE c.sends \subseteq Envelopes
    BY <1>1, <1>2 DEF ToolCalls
  <1>3. PICK f \in [1..MaxCalls -> ToolCalls(a)] :
          step = [calls |-> UNION {f[n].sends : n \in 1..MaxCalls},
                  last  |-> \E n \in 1..MaxCalls : f[n].yields]
    BY DEF Steps
  <1> QED BY <1>2, <1>3

-----------------------------------------------------------------------------
(* Publishing *)

(* The new event is the last of the log, and the last of the inbox of a running
   target. *)
LEMMA Publishing ==
  ASSUME TypeOK, NEW env \in Envelopes, NEW by \in Agents \union {Principal}, NEW cause \in Nat,
         cause <= Len(log),
         NEW queued \in BOOLEAN, queued => Subscribed(env.to), Post(env, queued, by, cause)
  PROVE  LET new == Len(log) + 1
         IN  /\ log' \in Seq(Entries) /\ Len(log') = new /\ Events' = Events \union {new}
             /\ \A i \in Events : log'[i] = log[i]
             /\ log'[new] = [kind |-> env.kind, to |-> env.to, queued |-> queued,
                             by |-> by, cause |-> cause]
             /\ \A a \in Agents :
                  \/ inbox'[a] = inbox[a] /\ ~(log'[new].queued /\ log'[new].to = a)
                  \/ inbox'[a] = Append(inbox[a], new) /\ Running(a)
             /\ inbox' \in [Agents -> Seq(Events')]
  <1> DEFINE new   == Len(log) + 1
             entry == [kind |-> env.kind, to |-> env.to, queued |-> queued,
                       by |-> by, cause |-> cause]
  <1>1. log \in Seq(Entries) /\ entry \in Entries /\ log' = Append(log, entry)
    BY DEF TypeOK, Entries, Envelopes, Post
  <1> HIDE DEF entry
  <1>2. /\ log' \in Seq(Entries) /\ Len(log') = new /\ log'[new] = entry
        /\ \A i \in 1..Len(log) : log'[i] = log[i]
    BY <1>1, AppendProperties
  <1>3. Len(log) \in Nat /\ Events = 1..Len(log) /\ Events' = 1..new
    BY <1>1, <1>2 DEF Events
  <1>4. entry.queued = queued /\ entry.to = env.to
    BY DEF entry
  <1>5. inbox' = IF queued THEN [inbox EXCEPT ![env.to] = Append(@, new)] ELSE inbox
    BY <1>2 DEF Post
  <1>6. queued => env.to \in Agents /\ Running(env.to)
    BY DEF Subscribed, Running
  <1>7. \A a \in Agents : \/ inbox'[a] = inbox[a] /\ ~(log'[new].queued /\ log'[new].to = a)
                          \/ inbox'[a] = Append(inbox[a], new) /\ Running(a)
    BY <1>2, <1>4, <1>5, <1>6 DEF TypeOK
  <1>8. inbox' \in [Agents -> Seq(Events')]
    <2>1. ASSUME NEW a \in Agents PROVE inbox'[a] \in Seq(Events')
      <3>1. inbox[a] \in Seq(Events') /\ new \in Events'
        <4>1. Events \subseteq Events' /\ inbox[a] \in Seq(Events)
          BY <1>3 DEF TypeOK
        <4> QED BY <1>3, <4>1, SeqMonotonic
      <3>2. Append(inbox[a], new) \in Seq(Events')
        BY <3>1, AppendProperties
      <3> QED BY <1>7, <3>1, <3>2
    <2>2. inbox' = [a \in Agents |-> inbox'[a]]
      BY <1>5, <1>6 DEF TypeOK
    <2> QED BY <2>1, <2>2
  <1> QED BY <1>2, <1>3, <1>7, <1>8 DEF entry

(* To publish is to post, queued if the target is subscribed. *)
LEMMA PublishPosts ==
  ASSUME NEW env, NEW by, NEW cause, Publish(env, by, cause)
  PROVE  \E queued \in BOOLEAN : /\ queued => Subscribed(env.to)
                                 /\ ~queued => ~Subscribed(env.to)
                                 /\ Post(env, queued, by, cause)
  <1>1. Subscribed(env.to) \in BOOLEAN
    BY DEF Subscribed
  <1> QED BY <1>1 DEF Publish

(* What the whole state keeps of a publication: by the principal, or by an agent
   for the event in its hand. *)
LEMMA PublishingKeeps ==
  ASSUME IInv, NEW env \in Envelopes, NEW by \in Agents \union {Principal}, NEW cause \in Nat,
         cause <= Len(log),
         NEW queued \in BOOLEAN, queued => Subscribed(env.to), Post(env, queued, by, cause),
         by \in Agents => inbox[by] # <<>> /\ cause = InHand(by),
         unheard \subseteq unheard', UNCHANGED <<memory, stopped, begun, crashes>>
  PROVE  /\ log' \in Seq(Entries) /\ inbox' \in [Agents -> Seq(Events')]
         /\ \A i \in Events' : log'[i].cause < i /\ (log'[i].queued => log'[i].to \in Agents)
         /\ memory' \in [Agents -> Seq(Events')] /\ stopped' \in [Agents -> -1..Len(log')]
         /\ begun' \subseteq Events' /\ Events \subseteq Events'
         /\ \A a \in Agents : inbox[a] # <<>> => inbox'[a] # <<>> /\ InHand(a)' = InHand(a)
         /\ \A a \in Agents : \A i \in Events : Answered(a, i) => Answered(a, i)'
         /\ InboxesAreSorted' /\ NoTurnVanishes' /\ StoppedAreDeaf' /\ MemoryIsBehind'
         /\ MemoryFollowsMailbox'
         /\ \A a \in Agents : inbox[a] = <<>> =>
              \A j \in DOMAIN memory'[a] : inbox'[a] # <<>> => memory'[a][j] # InHand(a)'
  <1> DEFINE new == Len(log) + 1
  <1>1. /\ log' \in Seq(Entries) /\ Len(log') = new /\ Events' = Events \union {new}
        /\ \A i \in Events : log'[i] = log[i]
        /\ log'[new].to = env.to /\ log'[new].by = by /\ log'[new].cause = cause
        /\ log'[new].queued = queued
        /\ \A a \in Agents :
             \/ inbox'[a] = inbox[a] /\ ~(log'[new].queued /\ log'[new].to = a)
             \/ inbox'[a] = Append(inbox[a], new) /\ Running(a)
        /\ inbox' \in [Agents -> Seq(Events')]
    <2>1. TypeOK
      BY DEF IInv
    <2>2. log'[new] = [kind |-> env.kind, to |-> env.to, queued |-> queued,
                       by |-> by, cause |-> cause]
      BY <2>1, Publishing
    <2>3. /\ log' \in Seq(Entries) /\ Len(log') = new /\ Events' = Events \union {new}
          /\ \A i \in Events : log'[i] = log[i]
          /\ inbox' \in [Agents -> Seq(Events')]
      BY <2>1, Publishing
    <2>4. \A a \in Agents :
             \/ inbox'[a] = inbox[a] /\ ~(log'[new].queued /\ log'[new].to = a)
             \/ inbox'[a] = Append(inbox[a], new) /\ Running(a)
      BY <2>1, Publishing
    <2> QED BY <2>2, <2>3, <2>4
  <1>2. TypeOK
    BY DEF IInv
  <1>3. Len(log) \in Nat /\ Events = 1..Len(log) /\ new \in Nat /\ new \notin Events
    BY <1>2, LogFacts
  <1>4. \A i \in Events' : log'[i].cause < i /\ (log'[i].queued => log'[i].to \in Agents)
    <2>1. \A i \in Events : log'[i].cause < i /\ (log'[i].queued => log'[i].to \in Agents)
      BY <1>1, <1>2 DEF TypeOK
    <2>2. log'[new].cause < new /\ (log'[new].queued => log'[new].to \in Agents)
      <3>1. log'[new].cause < new
        BY <1>1, <1>3
      <3>2. queued => env.to \in Agents
        BY DEF Subscribed
      <3> QED BY <1>1, <3>1, <3>2, Zenon
    <2> QED BY <1>1, <2>1, <2>2
  <1>5. /\ memory' \in [Agents -> Seq(Events')] /\ stopped' \in [Agents -> -1..Len(log')]
        /\ begun' \subseteq Events'
    <2>1. Seq(Events) \subseteq Seq(Events')
      BY <1>1, SeqMonotonic
    <2> QED BY <1>1, <1>2, <1>3, <2>1 DEF TypeOK
  (* An inbox as it was, or with the new event behind. *)
  <1>6. ASSUME NEW a \in Agents
        PROVE  /\ DOMAIN inbox[a] \subseteq DOMAIN inbox'[a]
               /\ \A i \in DOMAIN inbox[a] : inbox'[a][i] = inbox[a][i] /\ inbox[a][i] < new
               /\ \A i \in DOMAIN inbox'[a] \ DOMAIN inbox[a] :
                    inbox'[a][i] = new /\ \A j \in DOMAIN inbox'[a] : j <= i
               /\ ~Running(a) => inbox'[a] = inbox[a]
               /\ log'[new].queued /\ log'[new].to = a => new \in ToSet(inbox'[a])
    <2>1. /\ Len(inbox[a]) \in Nat /\ DOMAIN inbox[a] = 1..Len(inbox[a])
          /\ \A i \in DOMAIN inbox[a] : inbox[a][i] \in Events
      BY <1>2, LogFacts
    <2>2. CASE inbox'[a] = inbox[a] /\ ~(log'[new].queued /\ log'[new].to = a)
      BY <1>3, <2>1, <2>2
    <2>3. CASE inbox'[a] = Append(inbox[a], new) /\ Running(a)
      <3>1. inbox[a] \in Seq(Events')
        BY <1>1, <1>2, SeqMonotonic DEF TypeOK
      <3>2. /\ Len(inbox'[a]) = Len(inbox[a]) + 1 /\ DOMAIN inbox'[a] = 1..(Len(inbox[a]) + 1)
            /\ \A i \in 1..Len(inbox[a]) : inbox'[a][i] = inbox[a][i]
            /\ inbox'[a][Len(inbox[a]) + 1] = new
        BY <1>1, <2>3, <3>1, AppendProperties
      <3>3. DOMAIN inbox'[a] = DOMAIN inbox[a] \union {Len(inbox[a]) + 1}
        BY <2>1, <3>2
      <3>4. /\ DOMAIN inbox[a] \subseteq DOMAIN inbox'[a]
            /\ \A i \in DOMAIN inbox[a] : inbox'[a][i] = inbox[a][i] /\ inbox[a][i] < new
        BY <1>3, <2>1, <3>2, <3>3
      <3>5. \A i \in DOMAIN inbox'[a] \ DOMAIN inbox[a] :
              inbox'[a][i] = new /\ \A j \in DOMAIN inbox'[a] : j <= i
        BY <2>1, <3>2, <3>3
      <3>6. new \in ToSet(inbox'[a])
        BY <3>2, <3>3 DEF ToSet
      <3> QED BY <2>3, <3>4, <3>5, <3>6
    <2> QED BY <1>1, <2>2, <2>3
  <1>7. \A a \in Agents : inbox[a] # <<>> => inbox'[a] # <<>> /\ InHand(a)' = InHand(a)
    <2> SUFFICES ASSUME NEW a \in Agents, inbox[a] # <<>>
                 PROVE  inbox'[a] # <<>> /\ InHand(a)' = InHand(a)
      OBVIOUS
    <2>1. 1 \in DOMAIN inbox[a] /\ InHand(a) = inbox[a][1]
      BY <1>2, LogFacts
    <2>2. inbox'[a] # <<>> /\ inbox'[a][1] = inbox[a][1]
      BY <1>6, <2>1
    <2>3. InHand(a)' = inbox'[a][1]
      BY <1>1, <2>2 DEF InHand
    <2> QED BY <2>1, <2>2, <2>3
  <1>8. \A a \in Agents : \A i \in Events : Answered(a, i) => Answered(a, i)'
    BY <1>1 DEF Answered, Complained, Told
  <1>9. InboxesAreSorted'
    <2> SUFFICES ASSUME NEW a \in Agents, NEW i \in DOMAIN inbox'[a], NEW j \in DOMAIN inbox'[a],
                        i < j
                 PROVE  inbox'[a][i] < inbox'[a][j]
      BY DEF InboxesAreSorted
    <2>1. i \in Nat /\ j \in Nat
      BY <1>1, LenProperties
    <2>2. i \in DOMAIN inbox[a]
      BY <1>6, <2>1
    <2>3. CASE j \in DOMAIN inbox[a]
      BY <1>6, <2>2, <2>3 DEF IInv, InboxesAreSorted
    <2>4. CASE j \notin DOMAIN inbox[a]
      BY <1>6, <2>2, <2>4
    <2> QED BY <2>3, <2>4
  <1>10. NoTurnVanishes'
    <2> SUFFICES ASSUME NEW i \in Events', NEW a, a = log'[i].to, log'[i].queued,
                        i \notin ToSet(inbox'[a])
                 PROVE  i \in ToSet(memory'[a]) \/ Answered(a, i)'
      BY DEF NoTurnVanishes, Answered
    <2>1. i \in Events /\ log'[i] = log[i] /\ a \in Agents
      BY <1>1, <1>2, <1>4, <1>6 DEF TypeOK
    <2>2. i \notin ToSet(inbox[a])
      BY <1>6, <2>1 DEF ToSet
    <2>3. i \in ToSet(memory[a]) \/ Answered(a, i)
      BY <2>1, <2>2 DEF IInv, NoTurnVanishes, Answered
    <2> QED BY <1>8, <2>1, <2>3
  <1>11. StoppedAreDeaf'
    <2> SUFFICES ASSUME NEW a \in Agents, ~Running(a)'
                 PROVE  /\ \A i \in DOMAIN inbox'[a] : inbox'[a][i] <= stopped'[a]
                        /\ \A k \in Events' : k > stopped'[a] /\ log'[k].by = a =>
                             inbox'[a] # <<>> /\ log'[k].cause = InHand(a)'
      BY DEF StoppedAreDeaf
    <2>1. ~Running(a) /\ inbox'[a] = inbox[a] /\ stopped'[a] = stopped[a]
      BY <1>6 DEF Running
    <2>2. InHand(a)' = InHand(a)
      BY <2>1 DEF InHand
    <2>3. ASSUME NEW k \in Events', k > stopped'[a], log'[k].by = a
          PROVE  inbox'[a] # <<>> /\ log'[k].cause = InHand(a)'
      <3>1. CASE k \in Events
        BY <1>1, <2>1, <2>2, <2>3, <3>1 DEF IInv, StoppedAreDeaf
      <3>2. CASE k = new
        BY <1>1, <2>1, <2>2, <2>3, <3>2
      <3> QED BY <1>1, <3>1, <3>2
    <2> QED BY <2>1, <2>3 DEF IInv, StoppedAreDeaf
  <1>12. MemoryIsBehind'
    <2> SUFFICES ASSUME NEW a \in Agents, NEW j \in DOMAIN memory'[a], NEW i \in DOMAIN inbox'[a]
                 PROVE  memory'[a][j] <= inbox'[a][i]
      BY DEF MemoryIsBehind
    <2>1. memory[a][j] \in Events /\ j \in DOMAIN memory[a] /\ memory'[a][j] = memory[a][j]
      BY <1>2, LogFacts
    <2>2. CASE i \in DOMAIN inbox[a]
      BY <1>6, <2>1, <2>2 DEF IInv, MemoryIsBehind
    <2>3. CASE i \notin DOMAIN inbox[a]
      BY <1>3, <1>6, <2>1, <2>3
    <2> QED BY <2>2, <2>3
  <1>13. MemoryFollowsMailbox'
    BY DEF IInv, MemoryFollowsMailbox
  <1>14. \A a \in Agents : inbox[a] = <<>> =>
           \A j \in DOMAIN memory'[a] : inbox'[a] # <<>> => memory'[a][j] # InHand(a)'
    <2> SUFFICES ASSUME NEW a \in Agents, inbox[a] = <<>>, NEW j \in DOMAIN memory'[a],
                        inbox'[a] # <<>>
                 PROVE  memory'[a][j] # InHand(a)'
      OBVIOUS
    <2>1. inbox'[a] \in Seq(Events')
      BY <1>1
    <2>2. 1 \in DOMAIN inbox'[a] /\ InHand(a)' = inbox'[a][1]
      BY <2>1 DEF InHand
    <2>3. inbox'[a][1] = new
      BY <1>6, <2>2
    <2>4. memory'[a][j] \in Events
      BY <1>2, LogFacts
    <2> QED BY <1>3, <2>2, <2>3, <2>4
  <1> QED BY <1>1, <1>4, <1>5, <1>7, <1>8, <1>9, <1>10, <1>11, <1>12, <1>13, <1>14

(* An agent that stays at its step keeps what is known of its turn. *)
LEMMA OthersGoOn ==
  ASSUME IInv, NEW env \in Envelopes, NEW by \in Agents \union {Principal}, NEW cause \in Nat,
         cause <= Len(log),
         NEW queued \in BOOLEAN, queued => Subscribed(env.to), Post(env, queued, by, cause),
         by \in Agents => inbox[by] # <<>> /\ cause = InHand(by),
         unheard \subseteq unheard', UNCHANGED <<memory, stopped, begun, crashes>>,
         NEW b \in Agents, turn'[b].step = turn[b].step
  PROVE  /\ AtStep(b, "handled")' => InHand(b)' \in ToSet(memory'[b]) \/ Answered(b, InHand(b))'
         /\ inbox'[b] # <<>> =>
              \A j \in DOMAIN memory'[b] : memory'[b][j] = InHand(b)' =>
                /\ Len(memory'[b]) - j <= crashes'
                /\ turn'[b].step \notin {"handled", "ended"} => Len(memory'[b]) + 1 - j <= crashes'
  <1>1. /\ \A a \in Agents : inbox[a] # <<>> => inbox'[a] # <<>> /\ InHand(a)' = InHand(a)
        /\ \A a \in Agents : \A i \in Events : Answered(a, i) => Answered(a, i)'
        /\ \A a \in Agents : inbox[a] = <<>> =>
              \A j \in DOMAIN memory'[a] : inbox'[a] # <<>> => memory'[a][j] # InHand(a)'
    BY PublishingKeeps
  <1>2. ASSUME AtStep(b, "handled")'
        PROVE  InHand(b)' \in ToSet(memory'[b]) \/ Answered(b, InHand(b))'
    <2>1. AtStep(b, "handled") /\ inbox[b] # <<>>
      BY <1>2 DEF AtStep, IInv, TypeOK
    <2>2. InHand(b) \in Events /\ (InHand(b) \in ToSet(memory[b]) \/ Answered(b, InHand(b)))
      BY <2>1, LogFacts DEF IInv, HandledIsKept
    <2>3. InHand(b)' = InHand(b)
      BY <1>1, <2>1
    <2>4. Answered(b, InHand(b)) => Answered(b, InHand(b))'
      BY <1>1, <2>2, <2>3 DEF Answered, Complained, Told
    <2> QED BY <2>2, <2>3, <2>4
  <1>3. ASSUME inbox'[b] # <<>>, NEW j \in DOMAIN memory'[b], memory'[b][j] = InHand(b)'
        PROVE  /\ Len(memory'[b]) - j <= crashes'
               /\ turn'[b].step \notin {"handled", "ended"} => Len(memory'[b]) + 1 - j <= crashes'
    BY <1>1, <1>3 DEF IInv, RepeatsAreCounted
  <1> QED BY <1>2, <1>3

-----------------------------------------------------------------------------
(* The steps *)

LEMMA InitHolds == Init => IInv
  <1> SUFFICES ASSUME Init PROVE IInv
    OBVIOUS
  <1> USE DEF Init
  <1>1. Events = {} /\ Len(log) = 0 /\ \A a \in Agents : inbox[a] = <<>> /\ DOMAIN memory[a] = {}
    BY DEF Events
  <1>2. Waiting \in Turns /\ Waiting.step = "waiting"
    BY DEF Waiting, Turns
  <1>3. TypeOK
    <2>1. inbox \in [Agents -> Seq(Events)] /\ memory \in [Agents -> Seq(Events)]
      BY EmptySeq
    <2>2. log \in Seq([kind : Kinds, to : Addressees, queued : BOOLEAN,
                       by : Agents \union {Principal}, cause : Nat])
      BY EmptySeq
    <2>3. turn \in [Agents -> Turns] /\ \A a \in Agents : turn[a].step = "waiting"
      BY <1>2
    <2>4. stopped \in [Agents -> -1..Len(log)] /\ 0 \in 0..MaxFailures /\ 0 \in 0..MaxCrashes
      BY <1>1, LadderAssumption
    <2> QED BY <1>1, <2>1, <2>2, <2>3, <2>4 DEF TypeOK, AtStep
  <1>4. InboxesAreSorted /\ HandledIsKept /\ NoTurnVanishes
    BY <1>1, <1>2 DEF InboxesAreSorted, HandledIsKept, NoTurnVanishes, AtStep
  <1>5. StoppedAreDeaf /\ MemoryIsBehind /\ RepeatsAreCounted /\ MemoryFollowsMailbox
    BY <1>1 DEF StoppedAreDeaf, MemoryIsBehind, RepeatsAreCounted, MemoryFollowsMailbox, Running
  <1> QED BY <1>3, <1>4, <1>5 DEF IInv

LEMMA PrincipalSendsHolds == ASSUME IInv, PrincipalSends PROVE IInv'
  <1>1. PICK a \in Executives, queued \in BOOLEAN :
          /\ queued => Subscribed(Envelope("message", a).to)
          /\ Post(Envelope("message", a), queued, Principal, 0)
    BY PublishPosts DEF PrincipalSends
  <1>2. Envelope("message", a) \in Envelopes /\ 0 <= Len(log) /\ Principal \notin Agents
    <2>1. a \in Agents
      BY DEF Executives
    <2>2. Len(log) \in Nat
      BY LogFacts DEF IInv
    <2> QED BY <2>1, <2>2, LadderAssumption DEF Envelope, Envelopes, Kinds, Addressees
  <1>3. UNCHANGED <<turn, memory, stopped, begun, unheard, failures, crashes>>
    BY DEF PrincipalSends
  <1> DEFINE K == /\ log' \in Seq(Entries) /\ inbox' \in [Agents -> Seq(Events')]
                  /\ \A i \in Events' : log'[i].cause < i /\ (log'[i].queued => log'[i].to \in Agents)
                  /\ memory' \in [Agents -> Seq(Events')] /\ stopped' \in [Agents -> -1..Len(log')]
                  /\ begun' \subseteq Events' /\ Events \subseteq Events'
  <1>4. /\ K
        /\ \A b \in Agents : inbox[b] # <<>> => inbox'[b] # <<>> /\ InHand(b)' = InHand(b)
        /\ \A b \in Agents : \A i \in Events : Answered(b, i) => Answered(b, i)'
        /\ InboxesAreSorted' /\ NoTurnVanishes' /\ StoppedAreDeaf' /\ MemoryIsBehind'
        /\ MemoryFollowsMailbox'
        /\ \A b \in Agents : inbox[b] = <<>> =>
              \A j \in DOMAIN memory'[b] : inbox'[b] # <<>> => memory'[b][j] # InHand(b)'
    BY <1>1, <1>2, <1>3, PublishingKeeps
  <1>5. TypeOK'
    BY <1>3, <1>4 DEF IInv, TypeOK, Entries, AtStep, Running
  <1>6. \A b \in Agents :
          /\ AtStep(b, "handled")' => InHand(b)' \in ToSet(memory'[b]) \/ Answered(b, InHand(b))'
          /\ inbox'[b] # <<>> =>
               \A j \in DOMAIN memory'[b] : memory'[b][j] = InHand(b)' =>
                 /\ Len(memory'[b]) - j <= crashes'
                 /\ turn'[b].step \notin {"handled", "ended"} => Len(memory'[b]) + 1 - j <= crashes'
    BY <1>1, <1>2, <1>3, OthersGoOn
  <1>7. HandledIsKept' /\ RepeatsAreCounted'
    BY <1>6 DEF HandledIsKept, RepeatsAreCounted
  <1> QED BY <1>4, <1>5, <1>7 DEF IInv

(* A step of a turn that is not its end: nothing is published or recorded. *)
LEMMA WorkHolds ==
  ASSUME IInv, NEW a \in Agents,
         Take(a) \/ PrepareSandbox(a) \/ Perceive(a) \/ Reason(a) \/ Observe(a)
  PROVE  IInv'
  <1> DEFINE Undone == {"preparing", "perceiving", "reasoning", "acting", "recording"}
  <1>1. UNCHANGED <<log, inbox, memory, stopped, unheard, failures, crashes>>
    BY DEF Take, PrepareSandbox, Perceive, Reason, Observe
  <1>2. turn[a] \in Turns /\ turn[a].step \in Undone \union {"waiting"} /\ inbox[a] # <<>>
    BY DEF IInv, TypeOK, Take, PrepareSandbox, Perceive, Reason, Observe, AtStep
  <1>3. PICK t \in Turns : t.step \in Undone /\ turn' = [turn EXCEPT ![a] = t]
    <2>1. CASE Take(a)
      <3>1. [step |-> IF Owns(a) THEN "preparing" ELSE "perceiving"] \in Turns
        BY DEF Turns
      <3> QED BY <2>1, <3>1 DEF Take
    <2>2. CASE PrepareSandbox(a)
      <3>1. [turn[a] EXCEPT !.step = "perceiving"] \in Turns
        BY <1>2, <2>2 DEF Turns, PrepareSandbox, AtStep
      <3>2. [turn[a] EXCEPT !.step = "perceiving"].step = "perceiving"
        BY <1>2 DEF Turns
      <3> QED BY <2>2, <3>1, <3>2 DEF PrepareSandbox, IInv, TypeOK
    <2>3. CASE Perceive(a)
      <3>1. [turn[a] EXCEPT !.step = "reasoning"] \in Turns
        BY <1>2, <2>3 DEF Turns, Perceive, AtStep
      <3>2. [turn[a] EXCEPT !.step = "reasoning"].step = "reasoning"
        BY <1>2 DEF Turns
      <3> QED BY <2>3, <3>1, <3>2 DEF Perceive, IInv, TypeOK
    <2>4. CASE Reason(a)
      <3>1. PICK step \in Steps[a] :
              turn' = [turn EXCEPT ![a] = [step |-> "acting", calls |-> step.calls, last |-> step.last]]
        BY <2>4 DEF Reason
      <3>2. [step |-> "acting", calls |-> step.calls, last |-> step.last] \in Turns
        BY CallsAreEnvelopes DEF Turns
      <3> QED BY <3>1, <3>2
    <2>5. CASE Observe(a)
      <3>1. [step |-> IF turn[a].last THEN "recording" ELSE "reasoning"] \in Turns
        BY DEF Turns
      <3> QED BY <2>5, <3>1 DEF Observe
    <2> QED BY <2>1, <2>2, <2>3, <2>4, <2>5
  <1>4. turn'[a] = t /\ \A b \in Agents \ {a} : turn'[b] = turn[b]
    BY <1>3 DEF IInv, TypeOK
  <1>5. begun' \subseteq Events
    BY <1>2, LogFacts DEF IInv, TypeOK, Take, PrepareSandbox, Perceive, Reason, Observe
  <1>6. turn' \in [Agents -> Turns]
    BY <1>3 DEF IInv, TypeOK
  <1>7. TypeOK'
    BY <1>1, <1>2, <1>3, <1>4, <1>5, <1>6 DEF IInv, TypeOK, Events, AtStep, Running
  <1>8. InboxesAreSorted' /\ NoTurnVanishes' /\ StoppedAreDeaf' /\ MemoryIsBehind'
        /\ MemoryFollowsMailbox'
    BY <1>1 DEF IInv, InboxesAreSorted, NoTurnVanishes, StoppedAreDeaf, MemoryIsBehind,
                MemoryFollowsMailbox, Events, Answered, Complained, Told, Running, InHand
  <1>9. HandledIsKept'
    BY <1>1, <1>3, <1>4 DEF IInv, HandledIsKept, AtStep, InHand, Answered, Complained, Told, Events
  <1>10. RepeatsAreCounted'
    <2> SUFFICES ASSUME NEW b \in Agents, inbox[b] # <<>>, NEW j \in DOMAIN memory[b],
                        memory[b][j] = InHand(b)
                 PROVE  /\ Len(memory[b]) - j <= crashes
                        /\ turn'[b].step \notin {"handled", "ended"} =>
                             Len(memory[b]) + 1 - j <= crashes
      BY <1>1 DEF RepeatsAreCounted, InHand
    <2>1. CASE b = a
      BY <1>2, <2>1 DEF IInv, RepeatsAreCounted
    <2>2. CASE b # a
      BY <1>4, <2>2 DEF IInv, RepeatsAreCounted
    <2> QED BY <2>1, <2>2
  <1> QED BY <1>7, <1>8, <1>9, <1>10 DEF IInv

LEMMA RunToolHolds == ASSUME IInv, NEW a \in Agents, RunTool(a) PROVE IInv'
  <1>1. /\ AtStep(a, "acting") /\ turn[a] \in Turns /\ inbox[a] # <<>>
        /\ turn[a] \in [step : {"acting"}, calls : SUBSET Envelopes, last : BOOLEAN]
    BY DEF RunTool, IInv, TypeOK, AtStep, Turns
  <1>2. PICK env \in turn[a].calls :
          /\ IF Refused(env) THEN UNCHANGED <<log, inbox>> ELSE Publish(env, a, InHand(a))
          /\ turn' = [turn EXCEPT ![a].calls = @ \ {env}]
    BY DEF RunTool
  <1>3. UNCHANGED <<memory, stopped, begun, unheard, failures, crashes>>
    BY DEF RunTool
  <1>4. env \in Envelopes /\ InHand(a) \in Events /\ InHand(a) \in Nat /\ InHand(a) <= Len(log)
    BY <1>1, LogFacts DEF IInv
  <1>5. /\ turn' \in [Agents -> Turns]
        /\ \A b \in Agents : turn'[b].step = turn[b].step
    <2>1. /\ [turn[a] EXCEPT !.calls = @ \ {env}] \in Turns
          /\ [turn[a] EXCEPT !.calls = @ \ {env}].step = turn[a].step
      BY <1>1 DEF Turns
    <2> QED BY <1>2, <2>1 DEF IInv, TypeOK
  <1>6. CASE Refused(env)
    <2>1. UNCHANGED <<log, inbox, memory, stopped, begun, unheard, failures, crashes>>
      BY <1>2, <1>3, <1>6
    <2>2. TypeOK'
      BY <1>5, <2>1 DEF IInv, TypeOK, Events, AtStep, Running
    <2>3. /\ InboxesAreSorted' /\ NoTurnVanishes' /\ StoppedAreDeaf' /\ MemoryIsBehind'
          /\ MemoryFollowsMailbox'
      BY <2>1 DEF IInv, InboxesAreSorted, NoTurnVanishes, StoppedAreDeaf, MemoryIsBehind,
                  MemoryFollowsMailbox, Events, Answered, Complained, Told, Running, InHand
    <2>4. HandledIsKept' /\ RepeatsAreCounted'
      BY <1>5, <2>1 DEF IInv, HandledIsKept, RepeatsAreCounted, AtStep, InHand, Answered, Complained, Told, Events
    <2> QED BY <2>2, <2>3, <2>4 DEF IInv
  <1>7. CASE ~Refused(env)
    <2>1. PICK queued \in BOOLEAN :
            (queued => Subscribed(env.to)) /\ Post(env, queued, a, InHand(a))
      BY <1>2, <1>7, PublishPosts
    <2>2. /\ log' \in Seq(Entries) /\ inbox' \in [Agents -> Seq(Events')]
          /\ \A i \in Events' : log'[i].cause < i /\ (log'[i].queued => log'[i].to \in Agents)
          /\ memory' \in [Agents -> Seq(Events')] /\ stopped' \in [Agents -> -1..Len(log')]
          /\ begun' \subseteq Events' /\ Events \subseteq Events'
          /\ \A b \in Agents : inbox[b] # <<>> => inbox'[b] # <<>>
          /\ InboxesAreSorted' /\ NoTurnVanishes' /\ StoppedAreDeaf' /\ MemoryIsBehind'
          /\ MemoryFollowsMailbox'
      BY <1>1, <1>3, <1>4, <2>1, PublishingKeeps
    <2>3. TypeOK'
      BY <1>3, <1>5, <2>2 DEF IInv, TypeOK, Entries, AtStep, Running
    <2>4. \A b \in Agents :
            /\ AtStep(b, "handled")' => InHand(b)' \in ToSet(memory'[b]) \/ Answered(b, InHand(b))'
            /\ inbox'[b] # <<>> =>
                 \A j \in DOMAIN memory'[b] : memory'[b][j] = InHand(b)' =>
                   /\ Len(memory'[b]) - j <= crashes'
                   /\ turn'[b].step \notin {"handled", "ended"} => Len(memory'[b]) + 1 - j <= crashes'
      BY <1>1, <1>3, <1>4, <1>5, <2>1, OthersGoOn
    <2>5. HandledIsKept' /\ RepeatsAreCounted'
      BY <2>4 DEF HandledIsKept, RepeatsAreCounted
    <2> QED BY <2>2, <2>3, <2>5 DEF IInv
  <1> QED BY <1>6, <1>7

LEMMA FailHolds == ASSUME IInv, NEW a \in Agents, Fail(a) PROVE IInv'
  <1> DEFINE env == EscalateBlocker(a)
  <1>1. /\ turn' = [turn EXCEPT ![a] = [step |-> "handled"]]
        /\ failures < MaxFailures /\ failures' = failures + 1
        /\ UNCHANGED <<memory, stopped, begun, crashes>>
        /\ unheard \subseteq unheard' /\ unheard' \subseteq unheard \union {InHand(a)}
    BY DEF Fail, Escalate
  <1>2. inbox[a] # <<>> /\ turn[a].step \notin {"handled", "ended"}
    BY DEF Fail, IInv, TypeOK
  <1>3. /\ env \in Envelopes /\ env.kind = "escalation_request" /\ env.to = Boss[a]
        /\ InHand(a) \in Events /\ InHand(a) \in Nat /\ InHand(a) <= Len(log)
    <2>1. InHand(a) \in Events /\ InHand(a) \in Nat /\ InHand(a) <= Len(log)
      BY <1>2, LogFacts DEF IInv
    <2> QED BY <2>1, LadderAssumption DEF EscalateBlocker, Envelope, Envelopes, Kinds, Addressees
  <1> HIDE DEF env
  <1>4. \/ UNCHANGED <<log, inbox>> /\ InHand(a) \in unheard'
        \/ \E queued \in BOOLEAN : /\ queued => Subscribed(env.to)
                                   /\ ~queued /\ Subscribed(env.to) => InHand(a) \in unheard'
                                   /\ Post(env, queued, a, InHand(a))
    BY PublishPosts DEF Fail, Escalate, env
  <1>5. /\ turn' \in [Agents -> Turns] /\ turn'[a].step = "handled"
        /\ \A b \in Agents \ {a} : turn'[b] = turn[b]
    <2>1. [step |-> "handled"] \in Turns
      BY DEF Turns
    <2> QED BY <1>1, <2>1 DEF IInv, TypeOK
  <1>6. failures' \in 0..MaxFailures /\ unheard' \subseteq Events
    BY <1>1, <1>3, LadderAssumption DEF IInv, TypeOK
  (* The escalation got nowhere. *)
  <1>7. ASSUME UNCHANGED <<log, inbox>>, InHand(a) \in unheard' PROVE IInv'
    <2>1. \A b \in Agents : \A i : Answered(b, i) => Answered(b, i)'
      BY <1>1, <1>7 DEF Answered, Complained, Told, Events
    <2>2. TypeOK'
      BY <1>1, <1>2, <1>5, <1>6, <1>7 DEF IInv, TypeOK, Events, AtStep, Running
    <2>3. InboxesAreSorted' /\ StoppedAreDeaf' /\ MemoryIsBehind' /\ MemoryFollowsMailbox'
      BY <1>1, <1>7 DEF IInv, InboxesAreSorted, StoppedAreDeaf, MemoryIsBehind, MemoryFollowsMailbox,
                        Events, Running, InHand
    <2>4. NoTurnVanishes'
      <3> SUFFICES ASSUME NEW i \in Events, log[i].queued, NEW b, b = log[i].to, i \notin ToSet(inbox[b])
                   PROVE  i \in ToSet(memory[b]) \/ Answered(b, i)'
        BY <1>1, <1>7 DEF NoTurnVanishes, Events, Answered
      <3>1. b \in Agents
        BY DEF IInv, TypeOK
      <3>2. i \in ToSet(memory[b]) \/ Answered(b, i)
        BY DEF IInv, NoTurnVanishes, Answered
      <3> QED BY <2>1, <3>1, <3>2
    <2>5. HandledIsKept'
      <3> SUFFICES ASSUME NEW b \in Agents, turn'[b].step = "handled", NEW i, i = InHand(b)
                   PROVE  i \in ToSet(memory[b]) \/ Answered(b, i)'
        <4>1. \A b \in Agents : InHand(b)' = InHand(b)
          BY <1>7 DEF InHand
        <4> QED BY <1>1, <4>1 DEF HandledIsKept, AtStep, Answered, Complained
      <3>1. CASE b = a
        BY <1>7, <3>1 DEF Answered
      <3>2. CASE b # a
        <4>1. i \in ToSet(memory[b]) \/ Answered(b, i)
          BY <1>5, <3>2 DEF IInv, HandledIsKept, AtStep
        <4> QED BY <2>1, <4>1
      <3> QED BY <3>1, <3>2
    <2>6. RepeatsAreCounted'
      BY <1>1, <1>2, <1>5, <1>7 DEF IInv, RepeatsAreCounted, InHand
    <2> QED BY <2>2, <2>3, <2>4, <2>5, <2>6 DEF IInv
  (* It got into the log, and into the inbox of a superior that is subscribed, or nobody
     heard of it. *)
  <1>8. ASSUME NEW queued \in BOOLEAN, queued => Subscribed(env.to),
               ~queued /\ Subscribed(env.to) => InHand(a) \in unheard',
               Post(env, queued, a, InHand(a))
        PROVE  IInv'
    <2>1. /\ log' \in Seq(Entries) /\ inbox' \in [Agents -> Seq(Events')]
          /\ \A i \in Events' : log'[i].cause < i /\ (log'[i].queued => log'[i].to \in Agents)
          /\ memory' \in [Agents -> Seq(Events')] /\ stopped' \in [Agents -> -1..Len(log')]
          /\ begun' \subseteq Events' /\ Events \subseteq Events'
          /\ \A b \in Agents : inbox[b] # <<>> => inbox'[b] # <<>> /\ InHand(b)' = InHand(b)
          /\ InboxesAreSorted' /\ NoTurnVanishes' /\ StoppedAreDeaf' /\ MemoryIsBehind'
          /\ MemoryFollowsMailbox'
      BY <1>1, <1>2, <1>3, <1>8, PublishingKeeps
    <2>2. TypeOK'
      BY <1>1, <1>2, <1>5, <1>6, <2>1 DEF IInv, TypeOK, Entries, AtStep, Running
    <2>3. InHand(a)' = InHand(a)
      BY <1>2, <2>1
    <2>4. Answered(a, InHand(a))'
      <3>1. PICK new \in Nat : new = Len(log) + 1
        BY <1>3, LogFacts DEF IInv
      <3>2. PICK i \in Events : i = InHand(a)
        BY <1>3
      <3>3. /\ new \in Events' /\ log'[new].by = a /\ log'[new].cause = i
            /\ log'[new].kind = "escalation_request" /\ log'[new].to = Boss[a]
            /\ log'[new].queued = queued
        <4>1. TypeOK
          BY DEF IInv
        <4>2. /\ Events' = Events \union {new}
              /\ log'[new] = [kind |-> env.kind, to |-> env.to, queued |-> queued,
                              by |-> a, cause |-> i]
          BY <1>3, <1>8, <3>1, <3>2, <4>1, Publishing
        <4> QED BY <1>3, <4>2
      <3>4. Answered(a, i)'
        <4>1. CASE queued \/ ~Subscribed(env.to)
          <5>1. Told(a, new)'
            <6>1. CASE queued
              BY <3>3, <6>1 DEF Told
            <6>2. CASE Boss[a] = Principal
              BY <6>2 DEF Told
            <6>3. CASE Boss[a] \in Agents /\ ~Subscribed(env.to)
              <7>1. stopped[Boss[a]] # -1 /\ stopped[Boss[a]] \in -1..Len(log) /\ Len(log) \in Nat
                BY <1>3, <6>3, LogFacts DEF IInv, TypeOK, Subscribed
              <7>2. stopped'[Boss[a]] \in 0..(new - 1)
                BY <1>1, <3>1, <7>1
              <7> QED BY <7>2 DEF Told
            <6> QED BY <4>1, <6>1, <6>2, <6>3, LadderAssumption
          <5> QED BY <3>3, <5>1 DEF Answered, Complained
        <4>2. CASE InHand(a) \in unheard'
          BY <3>2, <4>2 DEF Answered
        <4> QED BY <1>8, <4>1, <4>2
      <3>5. InHand(a)' = i
        BY <2>3, <3>2
      <3> QED BY <3>4, <3>5 DEF Answered, Complained
    <2>5. \A b \in Agents \ {a} :
            /\ AtStep(b, "handled")' => InHand(b)' \in ToSet(memory'[b]) \/ Answered(b, InHand(b))'
            /\ inbox'[b] # <<>> =>
                 \A j \in DOMAIN memory'[b] : memory'[b][j] = InHand(b)' =>
                   /\ Len(memory'[b]) - j <= crashes'
                   /\ turn'[b].step \notin {"handled", "ended"} => Len(memory'[b]) + 1 - j <= crashes'
      BY <1>1, <1>2, <1>3, <1>5, <1>8, OthersGoOn
    <2>6. \A j \in DOMAIN memory'[a] : memory'[a][j] = InHand(a)' => Len(memory'[a]) - j <= crashes'
      BY <1>1, <1>2, <2>3 DEF IInv, RepeatsAreCounted
    <2>7. HandledIsKept'
      BY <2>4, <2>5 DEF HandledIsKept
    <2>8. RepeatsAreCounted'
      BY <1>5, <2>5, <2>6 DEF RepeatsAreCounted
    <2> QED BY <2>1, <2>2, <2>7, <2>8 DEF IInv
  <1> QED BY <1>4, <1>7, <1>8

LEMMA RecordTurnHolds == ASSUME IInv, NEW a \in Agents, RecordTurn(a) PROVE IInv'
  <1> DEFINE i == InHand(a)
  <1>1. /\ memory' = [memory EXCEPT ![a] = Append(@, i)]
        /\ turn' = [turn EXCEPT ![a] = [step |-> "handled"]]
        /\ UNCHANGED <<log, inbox, stopped, begun, unheard, failures, crashes>>
    BY DEF RecordTurn
  <1>2. turn[a].step = "recording" /\ inbox[a] # <<>>
    BY DEF RecordTurn, AtStep, IInv, TypeOK
  <1>3. i \in Events /\ i \in Nat /\ 1 \in DOMAIN inbox[a] /\ i = inbox[a][1]
    BY <1>2, LogFacts DEF IInv
  <1> HIDE DEF i
  <1>4. /\ turn' \in [Agents -> Turns] /\ turn'[a].step = "handled"
        /\ \A b \in Agents \ {a} : turn'[b] = turn[b]
    <2>1. [step |-> "handled"] \in Turns
      BY DEF Turns
    <2> QED BY <1>1, <2>1 DEF IInv, TypeOK
  <1> DEFINE n == Len(memory[a]) + 1
  <1>5. /\ memory' \in [Agents -> Seq(Events)]
        /\ \A b \in Agents \ {a} : memory'[b] = memory[b]
        /\ n \in Nat /\ n >= 1 /\ Len(memory'[a]) = n /\ DOMAIN memory'[a] = 1..n
        /\ DOMAIN memory[a] = 1..(n - 1)
        /\ \A j \in 1..(n - 1) : memory'[a][j] = memory[a][j] /\ memory[a][j] \in Nat
        /\ memory'[a][n] = i
    <2>1. memory \in [Agents -> Seq(Events)] /\ memory[a] \in Seq(Events)
      BY DEF IInv, TypeOK
    <2>2. memory' \in [Agents -> Seq(Events)] /\ memory'[a] = Append(memory[a], i)
          /\ \A b \in Agents \ {a} : memory'[b] = memory[b]
      BY <1>1, <1>3, <2>1, AppendProperties
    <2>3. /\ Len(memory[a]) \in Nat /\ DOMAIN memory[a] = 1..Len(memory[a])
          /\ \A j \in DOMAIN memory[a] : memory[a][j] \in Nat
      BY LogFacts DEF IInv
    <2>4. /\ memory'[a] \in Seq(Events) /\ Len(memory'[a]) = n /\ memory'[a][n] = i
          /\ \A j \in 1..(n - 1) : memory'[a][j] = memory[a][j]
      BY <1>3, <2>1, <2>2, <2>3, AppendProperties
    <2>5. DOMAIN memory'[a] = 1..n
      BY <2>4, LenProperties
    <2>6. n \in Nat /\ n >= 1 /\ DOMAIN memory[a] = 1..(n - 1)
      BY <2>3
    <2> HIDE DEF n
    <2>7. \A j \in 1..(n - 1) : memory'[a][j] = memory[a][j] /\ memory[a][j] \in Nat
      BY <2>3, <2>4, <2>6
    <2> QED BY <2>2, <2>4, <2>5, <2>6, <2>7
  <1> HIDE DEF n
  <1>6. TypeOK'
    BY <1>1, <1>2, <1>4, <1>5 DEF IInv, TypeOK, Events, AtStep, Running
  <1>7. InboxesAreSorted' /\ StoppedAreDeaf'
    BY <1>1 DEF IInv, InboxesAreSorted, StoppedAreDeaf, Events, Running, InHand
  <1>8. \A b \in Agents : ToSet(memory[b]) \subseteq ToSet(memory'[b])
    BY <1>5 DEF ToSet
  <1>9. NoTurnVanishes'
    <2> SUFFICES ASSUME NEW k \in Events, NEW b, b = log[k].to, log[k].queued, k \notin ToSet(inbox[b])
                 PROVE  k \in ToSet(memory'[b]) \/ Answered(b, k)
      BY <1>1 DEF NoTurnVanishes, Events, Answered, Complained, Told
    <2>1. b \in Agents
      BY DEF IInv, TypeOK
    <2>2. k \in ToSet(memory[b]) \/ Answered(b, k)
      BY DEF IInv, NoTurnVanishes, Answered
    <2> QED BY <1>8, <2>1, <2>2
  <1>10. HandledIsKept'
    <2> SUFFICES ASSUME NEW b \in Agents, AtStep(b, "handled")'
                 PROVE  InHand(b) \in ToSet(memory'[b]) \/ Answered(b, InHand(b))
      BY <1>1 DEF HandledIsKept, InHand, Answered, Complained, Told, Events
    <2>1. CASE b = a
      <3>1. i \in ToSet(memory'[a])
        BY <1>5 DEF ToSet
      <3> QED BY <2>1, <3>1 DEF i
    <2>2. CASE b # a
      BY <1>4, <1>5, <2>2 DEF IInv, HandledIsKept, AtStep
    <2> QED BY <2>1, <2>2
  <1>11. \A j \in 1..(n - 1) : memory[a][j] <= i
    BY <1>3, <1>5 DEF IInv, MemoryIsBehind
  <1>12. MemoryIsBehind'
    <2>1. ASSUME NEW k \in DOMAIN inbox[a] PROVE i <= inbox[a][k]
      <3>1. k \in Nat /\ k >= 1 /\ inbox[a][k] \in Nat
        BY LogFacts DEF IInv
      <3>2. CASE k = 1
        BY <1>3, <3>1, <3>2
      <3>3. CASE k > 1
        BY <1>3, <3>1, <3>3 DEF IInv, InboxesAreSorted
      <3> QED BY <3>1, <3>2, <3>3
    <2>2. ASSUME NEW b \in Agents, NEW j \in DOMAIN memory'[b], NEW k \in DOMAIN inbox[b]
          PROVE  memory'[b][j] <= inbox[b][k]
      <3>1. CASE b = a /\ j = n
        BY <1>5, <2>1, <3>1
      <3>2. CASE b = a /\ j # n
        <4>1. j \in 1..(n - 1)
          BY <1>5, <3>2
        <4> QED BY <1>5, <3>2, <4>1 DEF IInv, MemoryIsBehind
      <3>3. CASE b # a
        BY <1>5, <3>3 DEF IInv, MemoryIsBehind
      <3> QED BY <3>1, <3>2, <3>3
    <2> QED BY <1>1, <2>2 DEF MemoryIsBehind
  <1>13. \A j \in 1..(n - 1) : memory[a][j] = i => n - j <= crashes
    <2> SUFFICES ASSUME NEW j \in 1..(n - 1), memory[a][j] = i
                 PROVE  n - j <= crashes
      OBVIOUS
    <2>1. j \in DOMAIN memory[a] /\ memory[a][j] = InHand(a)
      BY LogFacts DEF IInv, i, n
    <2>2. Len(memory[a]) + 1 - j <= crashes
      BY <1>2, <1>3, <2>1 DEF IInv, RepeatsAreCounted, AtStep
    <2> QED BY <2>2 DEF n
  <1>14. crashes \in Nat
    BY LogFacts DEF IInv
  <1>15. RepeatsAreCounted'
    <2> SUFFICES ASSUME NEW b \in Agents, inbox[b] # <<>>, NEW j \in DOMAIN memory'[b],
                        memory'[b][j] = InHand(b)
                 PROVE  /\ Len(memory'[b]) - j <= crashes
                        /\ turn'[b].step \notin {"handled", "ended"} =>
                             Len(memory'[b]) + 1 - j <= crashes
      BY <1>1 DEF RepeatsAreCounted, InHand
    <2>1. CASE b = a
      <3>1. n - j <= crashes
        BY <1>5, <1>13, <1>14, <2>1 DEF i
      <3> QED BY <1>4, <1>5, <2>1, <3>1
    <2>2. CASE b # a
      BY <1>4, <1>5, <2>2 DEF IInv, RepeatsAreCounted
    <2> QED BY <2>1, <2>2
  <1>16. MemoryFollowsMailbox'
    <2> SUFFICES ASSUME NEW b \in Agents, NEW j \in DOMAIN memory'[b], NEW k \in DOMAIN memory'[b],
                        j < k
                 PROVE  /\ memory'[b][j] <= memory'[b][k]
                        /\ memory'[b][j] = memory'[b][k] => k - j <= crashes
      BY <1>1 DEF MemoryFollowsMailbox
    <2>1. CASE b = a /\ k = n
      <3>1. j \in 1..(n - 1)
        BY <1>5, <2>1
      <3> QED BY <1>5, <1>11, <1>13, <2>1, <3>1
    <2>2. CASE b = a /\ k # n
      <3>1. j \in 1..(n - 1) /\ k \in 1..(n - 1)
        BY <1>5, <2>2
      <3> QED BY <1>5, <2>2, <3>1 DEF IInv, MemoryFollowsMailbox
    <2>3. CASE b # a
      BY <1>5, <2>3 DEF IInv, MemoryFollowsMailbox
    <2> QED BY <2>1, <2>2, <2>3
  <1> QED BY <1>6, <1>7, <1>9, <1>10, <1>12, <1>15, <1>16 DEF IInv

LEMMA GoRoundHolds == ASSUME IInv, NEW a \in Agents, GoRound(a) PROVE IInv'
  <1>1. /\ AtStep(a, "handled") /\ inbox[a] # <<>>
        /\ UNCHANGED <<log, memory, stopped, begun, unheard, failures, crashes>>
    BY DEF GoRound, AtStep, IInv, TypeOK
  <1>2. CASE ~Running(a)
    <2>1. turn' = [turn EXCEPT ![a] = Ended] /\ UNCHANGED inbox
      BY <1>2 DEF GoRound
    <2>2. /\ turn' \in [Agents -> Turns] /\ turn'[a].step = "ended"
          /\ \A b \in Agents \ {a} : turn'[b] = turn[b]
      BY <2>1 DEF Ended, Turns, IInv, TypeOK
    <2>3. TypeOK'
      BY <1>1, <1>2, <2>1, <2>2 DEF IInv, TypeOK, Events, AtStep, Running
    <2>4. InboxesAreSorted' /\ NoTurnVanishes' /\ StoppedAreDeaf' /\ MemoryIsBehind'
          /\ MemoryFollowsMailbox'
      BY <1>1, <2>1 DEF IInv, InboxesAreSorted, NoTurnVanishes, StoppedAreDeaf, MemoryIsBehind,
                        MemoryFollowsMailbox, Events, Answered, Complained, Told, Running, InHand
    <2>5. HandledIsKept'
      BY <1>1, <2>1, <2>2 DEF IInv, HandledIsKept, AtStep, InHand, Answered, Complained, Told, Events
    <2>6. RepeatsAreCounted'
      BY <1>1, <2>1, <2>2 DEF IInv, RepeatsAreCounted, InHand
    <2> QED BY <2>3, <2>4, <2>5, <2>6 DEF IInv
  <1>3. CASE Running(a)
    <2>1. inbox' = [inbox EXCEPT ![a] = Tail(@)] /\ turn' = [turn EXCEPT ![a] = Waiting]
      BY <1>3 DEF GoRound
    <2>2. /\ turn' \in [Agents -> Turns] /\ turn'[a].step = "waiting"
          /\ \A b \in Agents \ {a} : turn'[b] = turn[b]
      BY <2>1 DEF Waiting, Turns, IInv, TypeOK
    <2>3. /\ inbox' \in [Agents -> Seq(Events)]
          /\ \A b \in Agents \ {a} : inbox'[b] = inbox[b]
          /\ Len(inbox[a]) \in Nat /\ Len(inbox[a]) >= 1 /\ DOMAIN inbox[a] = 1..Len(inbox[a])
          /\ DOMAIN inbox'[a] = 1..(Len(inbox[a]) - 1)
          /\ \A k \in 1..(Len(inbox[a]) - 1) : inbox'[a][k] = inbox[a][k + 1]
          /\ InHand(a) = inbox[a][1]
      <3>1. inbox \in [Agents -> Seq(Events)] /\ inbox[a] \in Seq(Events)
        BY DEF IInv, TypeOK
      <3>2. /\ Tail(inbox[a]) \in Seq(Events) /\ Len(Tail(inbox[a])) = Len(inbox[a]) - 1
            /\ \A k \in 1..Len(Tail(inbox[a])) : Tail(inbox[a])[k] = inbox[a][k + 1]
            /\ Head(inbox[a]) = inbox[a][1]
        BY <1>1, <3>1, HeadTailProperties
      <3>3. Len(inbox[a]) \in Nat /\ Len(inbox[a]) >= 1 /\ DOMAIN inbox[a] = 1..Len(inbox[a])
        BY <1>1, <3>1, LenProperties, EmptySeq
      <3>4. inbox'[a] = Tail(inbox[a])
        BY <2>1, <3>1
      <3>5. DOMAIN inbox'[a] = 1..(Len(inbox[a]) - 1)
        BY <3>2, <3>4, LenProperties
      <3>6. inbox' \in [Agents -> Seq(Events)] /\ \A b \in Agents \ {a} : inbox'[b] = inbox[b]
        BY <2>1, <3>1, <3>2
      <3> QED BY <3>2, <3>3, <3>4, <3>5, <3>6 DEF InHand
    <2>4. TypeOK'
      BY <1>1, <2>2, <2>3 DEF IInv, TypeOK, Events, AtStep, Running
    <2>5. \A k \in DOMAIN inbox'[a] : k \in Nat /\ k + 1 \in DOMAIN inbox[a] /\ k + 1 > 1
      BY <2>3
    <2>6. InboxesAreSorted'
      <3> SUFFICES ASSUME NEW b \in Agents, NEW i \in DOMAIN inbox'[b], NEW j \in DOMAIN inbox'[b],
                          i < j
                   PROVE  inbox'[b][i] < inbox'[b][j]
        BY DEF InboxesAreSorted
      <3>1. CASE b = a
        <4>1. /\ i + 1 \in DOMAIN inbox[a] /\ j + 1 \in DOMAIN inbox[a] /\ i + 1 < j + 1
              /\ inbox'[a][i] = inbox[a][i + 1] /\ inbox'[a][j] = inbox[a][j + 1]
          BY <2>3, <3>1
        <4>2. inbox[a][i + 1] < inbox[a][j + 1]
          BY <4>1 DEF IInv, InboxesAreSorted
        <4> QED BY <3>1, <4>1, <4>2
      <3>2. CASE b # a
        BY <2>3, <3>2 DEF IInv, InboxesAreSorted
      <3> QED BY <3>1, <3>2
    <2>7. NoTurnVanishes'
      <3> SUFFICES ASSUME NEW k \in Events, NEW b, b = log[k].to, log[k].queued,
                          k \notin ToSet(inbox'[b])
                   PROVE  k \in ToSet(memory[b]) \/ Answered(b, k)
        BY <1>1 DEF NoTurnVanishes, Events, Answered, Complained, Told
      <3>1. CASE k \in ToSet(inbox[b])
        <4>1. b = a
          BY <2>3, <3>1 DEF IInv, TypeOK
        <4>2. PICK j \in DOMAIN inbox[a] : k = inbox[a][j]
          BY <3>1, <4>1 DEF ToSet
        <4>3. j = 1
          <5>1. ASSUME j # 1 PROVE FALSE
            <6>1. j - 1 \in DOMAIN inbox'[a] /\ inbox'[a][j - 1] = inbox[a][j]
              BY <2>3, <4>2, <5>1
            <6> QED BY <4>1, <4>2, <6>1 DEF ToSet
          <5> QED BY <5>1
        <4>4. k = InHand(a)
          BY <2>3, <4>2, <4>3
        <4> QED BY <1>1, <4>1, <4>4 DEF IInv, HandledIsKept
      <3>2. CASE k \notin ToSet(inbox[b])
        BY <3>2 DEF IInv, NoTurnVanishes, Answered
      <3> QED BY <3>1, <3>2
    <2>8. HandledIsKept'
      <3> SUFFICES ASSUME NEW b \in Agents, AtStep(b, "handled")'
                   PROVE  InHand(b)' \in ToSet(memory[b]) \/ Answered(b, InHand(b)')
        BY <1>1 DEF HandledIsKept, Answered, Complained, Told, Events
      <3>1. b # a
        BY <2>2 DEF AtStep
      <3>2. InHand(b)' = InHand(b) /\ AtStep(b, "handled")
        BY <2>2, <2>3, <3>1 DEF InHand, AtStep
      <3>3. InHand(b) \in ToSet(memory[b]) \/ Answered(b, InHand(b))
        BY <3>2 DEF IInv, HandledIsKept
      <3> HIDE DEF InHand, Answered, Complained, Told
      <3> QED BY <3>2, <3>3
    <2>9. StoppedAreDeaf'
      BY <1>1, <1>3, <2>3 DEF IInv, StoppedAreDeaf, Events, Running, InHand
    <2>10. MemoryIsBehind'
      <3> SUFFICES ASSUME NEW b \in Agents, NEW j \in DOMAIN memory[b], NEW i \in DOMAIN inbox'[b]
                   PROVE  memory[b][j] <= inbox'[b][i]
        BY <1>1 DEF MemoryIsBehind
      <3>1. CASE b = a
        <4>1. i + 1 \in DOMAIN inbox[a] /\ inbox'[a][i] = inbox[a][i + 1]
          BY <2>3, <3>1
        <4> QED BY <3>1, <4>1 DEF IInv, MemoryIsBehind
      <3>2. CASE b # a
        BY <2>3, <3>2 DEF IInv, MemoryIsBehind
      <3> QED BY <3>1, <3>2
    <2>11. RepeatsAreCounted'
      <3> SUFFICES ASSUME NEW b \in Agents, inbox'[b] # <<>>, NEW j \in DOMAIN memory[b],
                          memory[b][j] = InHand(b)'
                   PROVE  /\ Len(memory[b]) - j <= crashes
                          /\ turn'[b].step \notin {"handled", "ended"} =>
                               Len(memory[b]) + 1 - j <= crashes
        BY <1>1 DEF RepeatsAreCounted
      <3>1. CASE b = a
        <4>1. inbox'[a] \in Seq(Events) /\ inbox'[a] # <<>>
          BY <2>3, <3>1
        <4>2. 1 \in DOMAIN inbox'[a] /\ InHand(a)' = inbox'[a][1]
          BY <4>1 DEF InHand
        <4>3. 2 \in DOMAIN inbox[a] /\ 1 \in DOMAIN inbox[a] /\ InHand(a)' = inbox[a][2]
          BY <2>3, <4>2
        <4>4. inbox[a][1] < inbox[a][2] /\ memory[a][j] <= inbox[a][1]
          BY <3>1, <4>3 DEF IInv, InboxesAreSorted, MemoryIsBehind
        <4>5. inbox[a][1] \in Nat /\ inbox[a][2] \in Nat /\ memory[a][j] \in Nat
          BY <3>1, <4>3, LogFacts DEF IInv
        <4> QED BY <3>1, <4>3, <4>4, <4>5
      <3>2. CASE b # a
        BY <2>2, <2>3, <3>2 DEF IInv, RepeatsAreCounted, InHand
      <3> QED BY <3>1, <3>2
    <2>12. MemoryFollowsMailbox'
      BY <1>1 DEF IInv, MemoryFollowsMailbox
    <2> QED BY <2>4, <2>6, <2>7, <2>8, <2>9, <2>10, <2>11, <2>12 DEF IInv
  <1> QED BY <1>2, <1>3

LEMMA StopHolds == ASSUME IInv, NEW a \in Agents, Stop(a) PROVE IInv'
  <1>1. /\ stopped' = [stopped EXCEPT ![a] = Len(log)] /\ Running(a)
        /\ UNCHANGED <<log, inbox, turn, memory, begun, unheard, failures, crashes>>
    BY DEF Stop
  <1>2. /\ stopped' \in [Agents -> -1..Len(log)] /\ stopped'[a] = Len(log)
        /\ \A b \in Agents \ {a} : stopped'[b] = stopped[b]
    BY <1>1, LogFacts DEF IInv, TypeOK
  <1>3. TypeOK'
    BY <1>1, <1>2 DEF IInv, TypeOK, Events, AtStep, Running
  <1>4. InboxesAreSorted' /\ MemoryIsBehind' /\ RepeatsAreCounted' /\ MemoryFollowsMailbox'
    BY <1>1 DEF IInv, InboxesAreSorted, MemoryIsBehind, RepeatsAreCounted, MemoryFollowsMailbox,
                AtStep, InHand
  <1>6. \A b \in Agents : \A i : Answered(b, i) => Answered(b, i)'
    <2>1. ASSUME NEW b \in Agents, NEW j, Told(b, j) PROVE Told(b, j)'
      <3>1. Boss[b] \in Agents => Boss[b] # a \/ stopped[Boss[b]] \notin 0..(j - 1)
        BY <1>1 DEF Running
      <3>2. Boss[b] \in Agents \/ Boss[b] = Principal
        BY LadderAssumption
      <3> QED BY <1>1, <1>2, <2>1, <3>1, <3>2 DEF Told
    <2> QED BY <1>1, <2>1 DEF Answered, Complained, Events
  <1>7. HandledIsKept'
    BY <1>1, <1>6 DEF IInv, HandledIsKept, AtStep, InHand
  <1>8. NoTurnVanishes'
    <2> SUFFICES ASSUME NEW i \in Events, log[i].queued, NEW b, b = log[i].to, i \notin ToSet(inbox[b])
                 PROVE  i \in ToSet(memory[b]) \/ Answered(b, i)'
      BY <1>1 DEF NoTurnVanishes, Events, Answered
    <2>1. b \in Agents
      BY DEF IInv, TypeOK
    <2>2. i \in ToSet(memory[b]) \/ Answered(b, i)
      BY DEF IInv, NoTurnVanishes, Answered
    <2> QED BY <1>6, <2>1, <2>2
  <1>5. StoppedAreDeaf'
    <2> SUFFICES ASSUME NEW b \in Agents, ~Running(b)'
                 PROVE  /\ \A i \in DOMAIN inbox[b] : inbox[b][i] <= stopped'[b]
                        /\ \A k \in Events : k > stopped'[b] /\ log[k].by = b =>
                             inbox[b] # <<>> /\ log[k].cause = InHand(b)
      BY <1>1 DEF StoppedAreDeaf, Events, InHand
    <2>1. CASE b = a
      <3>1. Events = 1..Len(log) /\ Len(log) \in Nat /\ \A i \in DOMAIN inbox[a] : inbox[a][i] \in Events
        BY LogFacts DEF IInv
      <3> QED BY <1>2, <2>1, <3>1
    <2>2. CASE b # a
      BY <1>2, <2>2 DEF IInv, StoppedAreDeaf, Running
    <2> QED BY <2>1, <2>2
  <1> QED BY <1>3, <1>4, <1>5, <1>7, <1>8 DEF IInv

LEMMA CrashHolds == ASSUME IInv, Crash PROVE IInv'
  <1>1. /\ turn' = [a \in Agents |-> IF Running(a) THEN Waiting ELSE Ended]
        /\ crashes < MaxCrashes /\ crashes' = crashes + 1
        /\ UNCHANGED <<log, inbox, memory, stopped, begun, unheard, failures>>
    BY DEF Crash
  <1>2. turn' \in [Agents -> Turns]
        /\ \A a \in Agents : turn'[a].step = IF Running(a) THEN "waiting" ELSE "ended"
    BY <1>1 DEF Waiting, Ended, Turns
  <1>3. TypeOK'
    <2>1. crashes' \in 0..MaxCrashes
      BY <1>1, LadderAssumption DEF IInv, TypeOK
    <2> QED BY <1>1, <1>2, <2>1 DEF IInv, TypeOK, Events, AtStep, Running
  <1>4. InboxesAreSorted' /\ NoTurnVanishes' /\ StoppedAreDeaf' /\ MemoryIsBehind'
    BY <1>1 DEF IInv, InboxesAreSorted, NoTurnVanishes, StoppedAreDeaf, MemoryIsBehind, Events,
                Answered, Complained, Told, Running, InHand
  <1>5. HandledIsKept'
    BY <1>2 DEF HandledIsKept, AtStep
  <1>6. ASSUME NEW a \in Agents, NEW j \in DOMAIN memory[a], NEW k \in DOMAIN memory[a]
        PROVE  k \in Int /\ j \in Int /\ Len(memory[a]) \in Int /\ crashes \in Int
    BY LogFacts DEF IInv
  <1>7. RepeatsAreCounted'
    <2> SUFFICES ASSUME NEW a \in Agents, inbox[a] # <<>>, NEW j \in DOMAIN memory[a],
                        memory[a][j] = InHand(a)
                 PROVE  /\ Len(memory[a]) - j <= crashes + 1
                        /\ Len(memory[a]) + 1 - j <= crashes + 1
      BY <1>1 DEF RepeatsAreCounted, InHand
    <2>1. Len(memory[a]) - j <= crashes
      BY DEF IInv, RepeatsAreCounted
    <2> QED BY <1>6, <2>1
  <1>8. MemoryFollowsMailbox'
    BY <1>1, <1>6 DEF IInv, MemoryFollowsMailbox
  <1> QED BY <1>3, <1>4, <1>5, <1>7, <1>8 DEF IInv

LEMMA NextHolds == IInv /\ [Next]_vars => IInv'
  <1> SUFFICES ASSUME IInv, [Next]_vars PROVE IInv'
    OBVIOUS
  <1>1. CASE PrincipalSends
    BY <1>1, PrincipalSendsHolds
  <1>2. CASE \E a \in Agents : Proceed(a) \/ Reason(a) \/ Fail(a) \/ Stop(a)
    BY <1>2, WorkHolds, RunToolHolds, RecordTurnHolds, GoRoundHolds, FailHolds, StopHolds DEF Proceed
  <1>3. CASE Crash
    BY <1>3, CrashHolds
  <1>4. CASE UNCHANGED vars
    BY <1>4 DEF IInv, vars, TypeOK, InboxesAreSorted, HandledIsKept, NoTurnVanishes, StoppedAreDeaf,
                MemoryIsBehind, RepeatsAreCounted, MemoryFollowsMailbox, Events, Answered, Complained, Told, AtStep,
                Running, InHand
  <1> QED BY <1>1, <1>2, <1>3, <1>4 DEF Next

-----------------------------------------------------------------------------
(* The inductive invariant holds in every reachable state. *)
THEOREM Invariance == Spec => []IInv
  <1> QED BY InitHolds, NextHolds, PTL DEF Spec

(* Type correctness of the loops: a turn is open on an event in hand, and only a
   terminated agent's loop has ended. *)
THEOREM TypeCorrectness == Spec => []TypeOK
  <1>1. IInv => TypeOK
    BY DEF IInv
  <1> QED BY <1>1, Invariance, PTL

(* Every event that left a mailbox was recorded by its agent or complained of to
   its superior, whatever the models do (agents/index.ts:72-111, 215-226). *)
THEOREM TurnsAreAccountedFor == Spec => []NoTurnVanishes
  <1>1. IInv => NoTurnVanishes
    BY DEF IInv
  <1> QED BY <1>1, Invariance, PTL

(* A terminated agent publishes for one event at most, sent before it was
   terminated (agents/index.ts:66-85). *)
THEOREM StoppedAgentsFallSilent == Spec => []NothingAfterStop
  <1>1. IInv => NothingAfterStop
    <2> SUFFICES ASSUME IInv, NEW a \in Agents, ~Running(a)
                 PROVE  LET late == {log[j].cause : j \in {k \in Events : k > stopped[a] /\ log[k].by = a}}
                        IN  Cardinality(late) <= 1 /\ \A i \in late : i <= stopped[a]
      BY DEF NothingAfterStop
    <2> DEFINE late == {log[j].cause : j \in {k \in Events : k > stopped[a] /\ log[k].by = a}}
    <2>1. \A i \in late : inbox[a] # <<>> /\ i = InHand(a)
      BY DEF IInv, StoppedAreDeaf
    <2>2. \A i \in late : i <= stopped[a]
      <3>1. inbox[a] # <<>> => 1 \in DOMAIN inbox[a] /\ InHand(a) = inbox[a][1]
        BY LogFacts DEF IInv
      <3> QED BY <2>1, <3>1 DEF IInv, StoppedAreDeaf
    <2>3. Cardinality(late) <= 1
      <3>1. late \subseteq {InHand(a)}
        BY <2>1
      <3>2. IsFiniteSet({InHand(a)}) /\ Cardinality({InHand(a)}) = 1
        BY FS_Singleton
      <3> HIDE DEF late
      <3>3. Cardinality(late) <= Cardinality({InHand(a)})
        BY <3>1, <3>2, FS_Subset
      <3> QED BY <3>2, <3>3
    <2> QED BY <2>2, <2>3
  <1> QED BY <1>1, Invariance, PTL

(* Memories follow mailboxes, and a turn is recorded once more per crash at most
   (agents/index.ts:105-111, event-bus/index.ts:74-80). *)
THEOREM MemoriesFollowMailboxes == Spec => []MemoryFollowsMailbox
  <1>1. IInv => MemoryFollowsMailbox
    BY DEF IInv
  <1> QED BY <1>1, Invariance, PTL
-----------------------------------------------------------------------------
(* The loops implement AtLeastOnce: a queued event is an item. *)

Queued == {k \in Events : log[k].queued}
Items  == [i \in {k \in Events : log[k].queued} |-> [to |-> log[i].to, state |-> ItemState(i)]]

(* A mailbox holds what was queued for it, and a turn is open on an event that
   was handed out. *)
TurnsAreHandedOut ==
  \A a \in Agents :
    /\ \A k \in DOMAIN inbox[a] : log[inbox[a][k]].queued /\ log[inbox[a][k]].to = a
    /\ turn[a].step \notin {"waiting", "ended"} => InHand(a) \in begun

(* The items as they stay when neither the log nor a mailbox changes. *)
LEMMA ItemsStay ==
  ASSUME UNCHANGED <<log, inbox, begun>>
  PROVE  Items' = Items
  BY DEF Items, Queued, Events, ItemState

(* One item changes its state, and all others stay. *)
LEMMA ItemChange ==
  ASSUME UNCHANGED log, NEW i \in Queued,
         \A k \in Queued \ {i} : ItemState(k)' = ItemState(k)
  PROVE  Items' = [Items EXCEPT ![i].state = ItemState(i)']
  <1>1. Queued' = Queued
    BY DEF Queued, Events
  <1>2. Items' = [k \in Queued |-> [to |-> log[k].to, state |-> ItemState(k)']]
    BY <1>1 DEF Items, Queued
  <1>3. [Items[i] EXCEPT !.state = ItemState(i)'] = [to |-> log[i].to, state |-> ItemState(i)']
    BY DEF Items, Queued
  <1>4. [Items EXCEPT ![i].state = ItemState(i)'] =
          [k \in Queued |-> IF k = i THEN [to |-> log[i].to, state |-> ItemState(i)'] ELSE Items[k]]
    BY <1>3 DEF Items, Queued
  <1>5. \A k \in Queued : k # i => Items[k] = [to |-> log[k].to, state |-> ItemState(k)']
    BY DEF Items, Queued
  <1> HIDE DEF Items, Queued, ItemState
  <1> QED BY <1>2, <1>4, <1>5

(* A publication accepts an item, if its target is subscribed. *)
LEMMA PublishAccepts ==
  ASSUME IInv, TurnsAreHandedOut, NEW env \in Envelopes, NEW by \in Agents \union {Principal},
         NEW cause \in Nat, cause <= Len(log), UNCHANGED begun,
         NEW queued \in BOOLEAN, queued => Subscribed(env.to), Post(env, queued, by, cause),
         \A a \in Agents : \/ turn'[a].step \in {"waiting", "ended"}
                          \/ turn[a].step \notin {"waiting", "ended"}
  PROVE  TurnsAreHandedOut' /\ [Promise!Next]_<<Items, {}>>
  <1>0. TypeOK /\ Len(log) \in Nat /\ Events = 1..Len(log)
    BY LogFacts DEF IInv
  <1> PICK new \in Nat : new = Len(log) + 1
    BY <1>0
  <1>1. /\ Events' = Events \union {new}
        /\ \A i \in Events : log'[i] = log[i]
        /\ log'[new].to = env.to /\ log'[new].queued = queued
        /\ \A a \in Agents :
             \/ inbox'[a] = inbox[a] /\ ~(log'[new].queued /\ log'[new].to = a)
             \/ inbox'[a] = Append(inbox[a], new) /\ Running(a)
    <2>1. log'[new] = [kind |-> env.kind, to |-> env.to, queued |-> queued,
                       by |-> by, cause |-> cause]
      BY <1>0, Publishing
    <2>2. /\ Events' = Events \union {new} /\ \A i \in Events : log'[i] = log[i]
          /\ \A a \in Agents :
               \/ inbox'[a] = inbox[a] /\ ~(log'[new].queued /\ log'[new].to = a)
               \/ inbox'[a] = Append(inbox[a], new) /\ Running(a)
      BY <1>0, Publishing
    <2> QED BY <2>1, <2>2
  <1>2. \A a \in Agents : inbox'[a] = inbox[a] \/ inbox'[a] = Append(inbox[a], new)
    BY <1>1
  <1>3. \A a \in Agents : inbox'[a] # inbox[a] => a = env.to /\ queued
    BY DEF Post
  <1>4. ASSUME NEW a \in Agents
        PROVE  /\ inbox[a] \in Seq(Events) /\ DOMAIN inbox[a] = 1..Len(inbox[a]) /\ Len(inbox[a]) \in Nat
               /\ inbox'[a] = Append(inbox[a], new) =>
                    /\ DOMAIN inbox'[a] = 1..(Len(inbox[a]) + 1)
                    /\ \A k \in 1..Len(inbox[a]) : inbox'[a][k] = inbox[a][k]
                    /\ inbox'[a][Len(inbox[a]) + 1] = new
    <2>1. inbox[a] \in Seq(Events) /\ DOMAIN inbox[a] = 1..Len(inbox[a]) /\ Len(inbox[a]) \in Nat
      BY <1>0, LogFacts DEF TypeOK
    <2>2. inbox[a] \in Seq(Nat) /\ new \in Nat
      BY <1>0, <2>1, SeqMonotonic
    <2>3. /\ Append(inbox[a], new) \in Seq(Nat) /\ Len(Append(inbox[a], new)) = Len(inbox[a]) + 1
          /\ \A k \in 1..Len(inbox[a]) : Append(inbox[a], new)[k] = inbox[a][k]
          /\ Append(inbox[a], new)[Len(inbox[a]) + 1] = new
      BY <2>2, AppendProperties
    <2>4. DOMAIN Append(inbox[a], new) = 1..(Len(inbox[a]) + 1)
      BY <2>3, LenProperties
    <2> QED BY <2>1, <2>3, <2>4
  <1>5. new \notin Events
    BY <1>0
  (* Old events are where they were; the new one is queued where its target is. *)
  <1>6. \A a \in Agents : \A i \in Events : i \in ToSet(inbox'[a]) <=> i \in ToSet(inbox[a])
    <2> SUFFICES ASSUME NEW a \in Agents, inbox'[a] = Append(inbox[a], new), NEW i \in Events
                 PROVE  i \in ToSet(inbox'[a]) <=> i \in ToSet(inbox[a])
      BY <1>2
    <2> DEFINE n == Len(inbox[a]) + 1
    <2>1. /\ DOMAIN inbox'[a] = (DOMAIN inbox[a]) \union {n}
          /\ \A k \in DOMAIN inbox[a] : inbox'[a][k] = inbox[a][k]
          /\ inbox'[a][n] = new
      BY <1>4
    <2> HIDE DEF n
    <2>2. i # new
      BY <1>5
    <2> QED BY <2>1, <2>2 DEF ToSet
  <1>7. log'[new].queued => env.to \in Agents /\ new \in ToSet(inbox'[env.to])
    <2> SUFFICES ASSUME log'[new].queued PROVE env.to \in Agents /\ new \in ToSet(inbox'[env.to])
      OBVIOUS
    <2>1. env.to \in Agents /\ inbox'[env.to] = Append(inbox[env.to], new)
      BY <1>1 DEF Subscribed
    <2>2. Len(inbox[env.to]) + 1 \in 1..(Len(inbox[env.to]) + 1)
      BY <1>4, <2>1
    <2> QED BY <1>4, <2>1, <2>2 DEF ToSet
  <1>8. TurnsAreHandedOut'
    <2> SUFFICES ASSUME NEW a \in Agents
                 PROVE  /\ \A k \in DOMAIN inbox'[a] : /\ log'[inbox'[a][k]].queued
                                                       /\ log'[inbox'[a][k]].to = a
                        /\ turn'[a].step \notin {"waiting", "ended"} => InHand(a)' \in begun
      BY DEF TurnsAreHandedOut
    <2>1. \A k \in DOMAIN inbox[a] : /\ inbox[a][k] \in Events /\ log'[inbox[a][k]].queued
                                     /\ log'[inbox[a][k]].to = a
      BY <1>0, <1>1, LogFacts DEF TurnsAreHandedOut
    <2>2. \A k \in DOMAIN inbox'[a] : log'[inbox'[a][k]].queued /\ log'[inbox'[a][k]].to = a
      <3>1. CASE inbox'[a] = inbox[a]
        BY <2>1, <3>1
      <3>2. CASE inbox'[a] # inbox[a]
        <4>1. inbox'[a] = Append(inbox[a], new) /\ a = env.to /\ queued
          BY <1>2, <1>3, <3>2
        <4>2. 1..(Len(inbox[a]) + 1) = (1..Len(inbox[a])) \union {Len(inbox[a]) + 1}
          BY <1>4
        <4>3. log'[new].to = a /\ log'[new].queued
          BY <1>1, <4>1
        <4>4. ASSUME NEW k \in DOMAIN inbox'[a]
              PROVE  log'[inbox'[a][k]].queued /\ log'[inbox'[a][k]].to = a
          <5>1. k \in 1..Len(inbox[a]) \/ k = Len(inbox[a]) + 1
            BY <1>4, <4>1, <4>2
          <5>2. CASE k \in 1..Len(inbox[a])
            BY <1>4, <2>1, <4>1, <5>2
          <5>3. CASE k = Len(inbox[a]) + 1
            <6>1. inbox'[a][k] = new
              BY <1>4, <4>1, <5>3
            <6> QED BY <4>3, <6>1
          <5> QED BY <5>1, <5>2, <5>3
        <4> QED BY <4>4
      <3> QED BY <3>1, <3>2
    <2>3. ASSUME turn'[a].step \notin {"waiting", "ended"} PROVE InHand(a)' \in begun
      <3>1. turn[a].step \notin {"waiting", "ended"}
        BY <2>3
      <3>2. inbox[a] # <<>> /\ InHand(a) \in begun
        BY <1>0, <3>1 DEF TypeOK, AtStep, TurnsAreHandedOut
      <3>3. 1 \in DOMAIN inbox[a] /\ InHand(a) = inbox[a][1]
        BY <1>0, <3>2, LogFacts
      <3>4. inbox'[a][1] = inbox[a][1]
        BY <1>2, <1>4, <3>3
      <3>5. InHand(a)' = inbox'[a][1]
        <4>1. CASE inbox'[a] = inbox[a]
          BY <3>3, <4>1 DEF InHand
        <4>2. CASE inbox'[a] = Append(inbox[a], new)
          BY <1>4, <4>2 DEF InHand
        <4> QED BY <1>2, <4>1, <4>2
      <3> QED BY <3>2, <3>3, <3>4, <3>5
    <2> QED BY <2>2, <2>3
  <1>9. \A i \in Queued : ItemState(i)' = ItemState(i)
    <2> SUFFICES ASSUME NEW i \in Queued PROVE ItemState(i)' = ItemState(i)
      OBVIOUS
    <2>1. i \in Events /\ log'[i] = log[i] /\ log[i].to \in Agents
      BY <1>0, <1>1 DEF Queued, TypeOK
    <2> QED BY <1>6, <2>1 DEF ItemState
  <1>10. CASE ~log'[new].queued
    <2>1. Queued' = Queued
      BY <1>1, <1>5, <1>10 DEF Queued
    <2>2. \A i \in Queued : log'[i].to = log[i].to
      BY <1>1 DEF Queued
    <2>3. Items' = [i \in Queued |-> [to |-> log'[i].to, state |-> ItemState(i)']]
      BY <2>1 DEF Items, Queued
    <2>4. Items' = Items
      <3> HIDE DEF ItemState
      <3> QED BY <1>9, <2>2, <2>3 DEF Items, Queued
    <2> QED BY <1>8, <2>4
  <1>11. CASE log'[new].queued
    <2>1. Queued' = Queued \union {new} /\ new \notin Queued /\ new \in Nat
      BY <1>0, <1>1, <1>5, <1>11 DEF Queued
    <2>2. ItemState(new)' = "queued"
      <3>1. new \notin begun'
        BY <1>0, <1>5 DEF TypeOK
      <3> QED BY <1>1, <1>7, <1>11, <3>1 DEF ItemState
    <2>3. \A i \in Queued : log'[i].to = log[i].to /\ i < new
      BY <1>0, <1>1 DEF Queued
    <2>4. Items' = [i \in Queued \union {new} |-> [to |-> log'[i].to, state |-> ItemState(i)']]
      BY <2>1 DEF Items, Queued
    <2>5. [to |-> log'[new].to, state |-> ItemState(new)'] = [to |-> env.to, state |-> "queued"]
      BY <1>1, <2>2
    <2>6. \A i \in Queued : Items[i] = [to |-> log'[i].to, state |-> ItemState(i)']
      BY <1>9, <2>3 DEF Items, Queued
    <2>7. Items' = [i \in Queued \union {new} |->
                      IF i = new THEN [to |-> env.to, state |-> "queued"] ELSE Items[i]]
      BY <2>1, <2>4, <2>5, <2>6
    <2>8. DOMAIN Items = Queued /\ DOMAIN Items' = Queued \union {new}
      BY <2>4 DEF Items, Queued
    <2>9. Promise!Accept(new, env.to)
      BY <2>1, <2>3, <2>7, <2>8 DEF Promise!Accept, Promise!Numbers, Items, Queued
    <2>10. new \in DOMAIN Items' \ DOMAIN Items
      BY <2>1, <2>8
    <2> QED BY <1>7, <1>8, <1>11, <2>9, <2>10 DEF Promise!Next, Promise!Numbers, Items, Queued
  <1> QED BY <1>10, <1>11

(* A step that leaves log, mailboxes and what was handed out alone. *)
LEMMA OtherStepsStutter ==
  ASSUME IInv, TurnsAreHandedOut, UNCHANGED <<log, inbox, begun>>,
         \A a \in Agents : \/ turn'[a].step \in {"waiting", "ended"}
                          \/ turn[a].step \notin {"waiting", "ended"}
  PROVE  TurnsAreHandedOut' /\ [Promise!Next]_<<Items, {}>>
  <1>1. TurnsAreHandedOut'
    BY DEF TurnsAreHandedOut, InHand
  <1> QED BY <1>1, ItemsStay

(* A loop that is handed an event handles it, unless it had it before a crash:
   what was queued before is settled, for the mailbox is in order. *)
LEMMA TakeHandles ==
  ASSUME IInv, TurnsAreHandedOut, NEW a \in Agents, Take(a)
  PROVE  TurnsAreHandedOut' /\ [Promise!Next]_<<Items, {}>>
  <1>0. /\ TypeOK /\ inbox[a] # <<>> /\ UNCHANGED <<log, inbox>>
        /\ begun' = begun \union {InHand(a)}
    BY DEF IInv, Take
  <1> PICK i \in Events : i = InHand(a)
    BY <1>0, LogFacts
  <1>1. 1 \in DOMAIN inbox[a] /\ i = inbox[a][1] /\ i \in ToSet(inbox[a])
    BY <1>0, LogFacts DEF ToSet
  <1>2. i \in Queued /\ log[i].to = a
    BY <1>1 DEF TurnsAreHandedOut, Queued
  <1>3. TurnsAreHandedOut'
    <2> SUFFICES ASSUME NEW b \in Agents, turn'[b].step \notin {"waiting", "ended"}
                 PROVE  InHand(b) \in begun'
      BY <1>0 DEF TurnsAreHandedOut, InHand
    <2>1. CASE b = a
      BY <1>0, <2>1
    <2>2. CASE b # a
      <3>1. turn'[b] = turn[b]
        BY <1>0, <2>2 DEF Take, TypeOK
      <3> QED BY <1>0, <3>1 DEF TurnsAreHandedOut
    <2> QED BY <2>1, <2>2
  <1>4. \A k \in Queued \ {i} : ItemState(k)' = ItemState(k)
    BY <1>0 DEF ItemState
  <1>5. ItemState(i)' = "handled" /\ ItemState(i) = IF i \in begun THEN "handled" ELSE "queued"
    BY <1>0, <1>1, <1>2 DEF ItemState
  <1>6. CASE i \in begun
    <2>1. begun' = begun
      BY <1>0, <1>6
    <2> QED BY <1>0, <1>3, <2>1, ItemsStay
  <1>7. CASE i \notin begun
    <2>1. Items' = [Items EXCEPT ![i].state = "handled"]
      BY <1>0, <1>2, <1>4, <1>5, ItemChange
    <2>2. DOMAIN Items = Queued /\ Items[i].state = "queued" /\ Items[i].to = a
      BY <1>2, <1>5, <1>7 DEF Items, Queued
    <2>3. ASSUME NEW k \in Queued, k < i, Items[k].to = a PROVE Items[k].state = "settled"
      <3>1. k \in Events /\ k \in Nat /\ i \in Nat /\ log[k].to = a
        BY <1>0, <2>3, LogFacts DEF Queued, Items
      <3>2. k \notin ToSet(inbox[a])
        <4> SUFFICES ASSUME NEW j \in DOMAIN inbox[a], inbox[a][j] = k PROVE FALSE
          BY DEF ToSet
        <4>1. j \in Nat /\ j >= 1
          BY <1>0, LogFacts
        <4>2. j # 1 /\ 1 < j
          BY <1>1, <2>3, <3>1, <4>1
        <4>3. inbox[a][1] < inbox[a][j]
          BY <1>1, <4>2 DEF IInv, InboxesAreSorted
        <4> QED BY <1>1, <2>3, <3>1, <4>3
      <3> QED BY <3>1, <3>2 DEF Items, Queued, ItemState
    <2>4. \A k \in DOMAIN Items : k < i /\ Items[k].to = Items[i].to => Items[k].state = "settled"
      BY <2>2, <2>3
    <2>5. Promise!Handle(i)
      BY <2>1, <2>2, <2>4 DEF Promise!Handle, Promise!EarlierSettled, Promise!Numbers, Items
    <2> QED BY <1>2, <1>3, <2>2, <2>5 DEF Promise!Next, Promise!Numbers, Items, Queued
  <1> QED BY <1>6, <1>7

(* A loop that goes round settles what it had in hand. *)
LEMMA GoRoundSettles ==
  ASSUME IInv, TurnsAreHandedOut, NEW a \in Agents, GoRound(a), Running(a)
  PROVE  TurnsAreHandedOut' /\ [Promise!Next]_<<Items, {}>>
  <1>0. /\ TypeOK /\ inbox[a] # <<>> /\ UNCHANGED <<log, begun>>
        /\ AtStep(a, "handled")
        /\ inbox' = [inbox EXCEPT ![a] = Tail(@)] /\ turn' = [turn EXCEPT ![a] = Waiting]
    BY DEF IInv, TypeOK, GoRound, AtStep
  <1> PICK i \in Events : i = InHand(a)
    BY <1>0, LogFacts
  <1>1. 1 \in DOMAIN inbox[a] /\ i = inbox[a][1] /\ i \in ToSet(inbox[a])
    BY <1>0, LogFacts DEF ToSet
  <1>2. i \in Queued /\ log[i].to = a /\ i \in begun
    <2>1. i \in Queued /\ log[i].to = a
      BY <1>1 DEF TurnsAreHandedOut, Queued
    <2>2. turn[a].step \notin {"waiting", "ended"}
      BY <1>0 DEF AtStep
    <2> QED BY <2>1, <2>2 DEF TurnsAreHandedOut
  <1>3. /\ Len(inbox[a]) \in Nat /\ DOMAIN inbox[a] = 1..Len(inbox[a]) /\ Len(inbox[a]) >= 1
        /\ DOMAIN inbox'[a] = 1..(Len(inbox[a]) - 1)
        /\ \A k \in 1..(Len(inbox[a]) - 1) : inbox'[a][k] = inbox[a][k + 1]
        /\ \A b \in Agents \ {a} : inbox'[b] = inbox[b] /\ turn'[b] = turn[b]
    <2>1. inbox[a] \in Seq(Events) /\ inbox'[a] = Tail(inbox[a])
          /\ \A b \in Agents \ {a} : inbox'[b] = inbox[b] /\ turn'[b] = turn[b]
      BY <1>0 DEF TypeOK
    <2>2. /\ Tail(inbox[a]) \in Seq(Events) /\ Len(Tail(inbox[a])) = Len(inbox[a]) - 1
          /\ \A k \in 1..Len(Tail(inbox[a])) : Tail(inbox[a])[k] = inbox[a][k + 1]
      BY <1>0, <2>1, HeadTailProperties
    <2>3. DOMAIN Tail(inbox[a]) = 1..(Len(inbox[a]) - 1)
      BY <2>2, LenProperties
    <2>4. Len(inbox[a]) \in Nat /\ DOMAIN inbox[a] = 1..Len(inbox[a]) /\ Len(inbox[a]) >= 1
      BY <1>0, <1>1, LogFacts
    <2> QED BY <2>1, <2>2, <2>3, <2>4
  <1>4. /\ \A k \in 1..(Len(inbox[a]) - 1) : k + 1 \in DOMAIN inbox[a] /\ 1 < k + 1
        /\ \A k \in DOMAIN inbox[a] : k # 1 => k - 1 \in DOMAIN inbox'[a] /\ (k - 1) + 1 = k
    BY <1>3
  <1>5. TurnsAreHandedOut'
    <2> SUFFICES ASSUME NEW b \in Agents
                 PROVE  /\ \A k \in DOMAIN inbox'[b] : /\ log[inbox'[b][k]].queued
                                                       /\ log[inbox'[b][k]].to = b
                        /\ turn'[b].step \notin {"waiting", "ended"} => InHand(b)' \in begun
      BY <1>0 DEF TurnsAreHandedOut
    <2>1. CASE b = a
      <3>1. turn'[a].step = "waiting"
        BY <1>0 DEF TypeOK, Waiting
      <3> QED BY <1>3, <1>4, <2>1, <3>1 DEF TurnsAreHandedOut
    <2>2. CASE b # a
      BY <1>3, <2>2 DEF TurnsAreHandedOut, InHand
    <2> QED BY <2>1, <2>2
  <1>6. i \notin ToSet(inbox'[a])
    <2> SUFFICES ASSUME NEW k \in DOMAIN inbox'[a], inbox'[a][k] = i PROVE FALSE
      BY DEF ToSet
    <2>1. inbox[a][k + 1] = inbox[a][1] /\ k + 1 \in DOMAIN inbox[a] /\ 1 < k + 1
      BY <1>1, <1>3, <1>4
    <2>2. inbox[a][1] < inbox[a][k + 1]
      BY <1>1, <2>1 DEF IInv, InboxesAreSorted
    <2>3. inbox[a][1] \in Nat
      BY <1>0, <1>1, LogFacts
    <2> QED BY <2>1, <2>2, <2>3
  <1>7. \A k \in Queued \ {i} : ItemState(k)' = ItemState(k)
    <2> SUFFICES ASSUME NEW k \in Queued, k # i PROVE ItemState(k)' = ItemState(k)
      OBVIOUS
    <2>1. log[k].to \in Agents
      BY <1>0 DEF Queued, TypeOK
    <2>2. k \in ToSet(inbox'[log[k].to]) <=> k \in ToSet(inbox[log[k].to])
      <3>1. CASE log[k].to = a
        <4>1. ASSUME NEW j \in DOMAIN inbox'[a], inbox'[a][j] = k PROVE k \in ToSet(inbox[a])
          <5>1. j + 1 \in DOMAIN inbox[a] /\ inbox[a][j + 1] = k
            BY <1>3, <1>4, <4>1
          <5> QED BY <5>1 DEF ToSet
        <4>2. ASSUME NEW j \in DOMAIN inbox[a], inbox[a][j] = k PROVE k \in ToSet(inbox'[a])
          <5>1. j # 1
            BY <1>1, <4>2
          <5>2. j - 1 \in DOMAIN inbox'[a] /\ inbox'[a][j - 1] = k
            BY <1>3, <1>4, <4>2, <5>1
          <5> QED BY <5>2 DEF ToSet
        <4> QED BY <3>1, <4>1, <4>2 DEF ToSet
      <3>2. CASE log[k].to # a
        BY <1>3, <2>1, <3>2
      <3> QED BY <3>1, <3>2
    <2> QED BY <1>0, <2>2 DEF ItemState
  <1>8. ItemState(i)' = "settled" /\ ItemState(i) = "handled"
    BY <1>0, <1>1, <1>2, <1>6 DEF ItemState
  <1>9. Items' = [Items EXCEPT ![i].state = "settled"]
    BY <1>0, <1>2, <1>7, <1>8, ItemChange
  <1>10. DOMAIN Items = Queued /\ Items[i].state = "handled"
    BY <1>2, <1>8 DEF Items, Queued
  <1>11. Promise!Settle(i)
    BY <1>9, <1>10 DEF Promise!Settle, Items, Queued
  <1> QED BY <1>2, <1>5, <1>10, <1>11 DEF Promise!Next, Promise!Numbers, Items, Queued

LEMMA StepsKeepThePromise ==
  ASSUME IInv, TurnsAreHandedOut, [Next]_vars
  PROVE  TurnsAreHandedOut' /\ [Promise!Next]_<<Items, {}>>
  <1> DEFINE Goal == TurnsAreHandedOut' /\ [Promise!Next]_<<Items, {}>>
  <1>0. TypeOK
    BY DEF IInv
  <1>1. CASE PrincipalSends
    <2>1. PICK a \in Executives, queued \in BOOLEAN :
            /\ queued => Subscribed(Envelope("message", a).to)
            /\ Post(Envelope("message", a), queued, Principal, 0)
      BY <1>1, PublishPosts DEF PrincipalSends
    <2>2. Envelope("message", a) \in Envelopes /\ 0 <= Len(log)
      BY <1>0, LogFacts DEF Executives, Envelope, Envelopes, Kinds, Addressees
    <2> QED BY <1>1, <2>1, <2>2, PublishAccepts DEF PrincipalSends
  <1>2. ASSUME NEW a \in Agents, Take(a) PROVE Goal
    BY <1>2, TakeHandles
  <1>3. ASSUME NEW a \in Agents, PrepareSandbox(a) \/ Perceive(a) \/ Reason(a) \/ Observe(a)
                                \/ RecordTurn(a)
        PROVE  Goal
    <2>1. \A b \in Agents : \/ turn'[b].step \in {"waiting", "ended"}
                           \/ turn[b].step \notin {"waiting", "ended"}
      <3>1. turn[a].step \notin {"waiting", "ended"}
        BY <1>3 DEF PrepareSandbox, Perceive, Reason, Observe, RecordTurn, AtStep
      <3>2. \A b \in Agents \ {a} : turn'[b] = turn[b]
        BY <1>0, <1>3 DEF PrepareSandbox, Perceive, Reason, Observe, RecordTurn, TypeOK
      <3> QED BY <3>1, <3>2
    <2>2. UNCHANGED <<log, inbox, begun>>
      BY <1>3 DEF PrepareSandbox, Perceive, Reason, Observe, RecordTurn
    <2> QED BY <2>1, <2>2, OtherStepsStutter
  <1>4. ASSUME NEW a \in Agents, RunTool(a) PROVE Goal
    <2>1. /\ turn[a] \in [step : {"acting"}, calls : SUBSET Envelopes, last : BOOLEAN]
          /\ turn[a].step = "acting" /\ inbox[a] # <<>>
      BY <1>0, <1>4 DEF RunTool, TypeOK, AtStep, Turns
    <2>2. PICK env \in turn[a].calls :
            /\ IF Refused(env) THEN UNCHANGED <<log, inbox>> ELSE Publish(env, a, InHand(a))
            /\ turn' = [turn EXCEPT ![a].calls = @ \ {env}]
      BY <1>4 DEF RunTool
    <2>3. env \in Envelopes /\ InHand(a) \in Nat /\ InHand(a) <= Len(log)
      BY <1>0, <2>1, LogFacts
    <2>4. \A b \in Agents : \/ turn'[b].step \in {"waiting", "ended"}
                           \/ turn[b].step \notin {"waiting", "ended"}
      BY <1>0, <2>1, <2>2 DEF TypeOK
    <2>5. UNCHANGED begun
      BY <1>4 DEF RunTool
    <2>6. CASE Refused(env)
      BY <2>2, <2>4, <2>5, <2>6, OtherStepsStutter
    <2>7. CASE ~Refused(env)
      <3>1. \E queued \in BOOLEAN : (queued => Subscribed(env.to)) /\ Post(env, queued, a, InHand(a))
        BY <2>2, <2>7, PublishPosts
      <3> QED BY <2>3, <2>4, <2>5, <3>1, PublishAccepts
    <2> QED BY <2>6, <2>7
  <1>5. ASSUME NEW a \in Agents, Fail(a) PROVE Goal
    <2> DEFINE env == EscalateBlocker(a)
    <2>1. /\ UNCHANGED begun
          /\ \/ UNCHANGED <<log, inbox>>
             \/ \E queued \in BOOLEAN : /\ queued => Subscribed(env.to)
                                        /\ Post(env, queued, a, InHand(a))
      BY <1>5, PublishPosts DEF Fail, Escalate
    <2>2. turn[a].step \notin {"waiting", "ended"} /\ inbox[a] # <<>>
      BY <1>0, <1>5 DEF Fail, TypeOK
    <2>3. InHand(a) \in Nat /\ InHand(a) <= Len(log)
      BY <1>0, <2>2, LogFacts
    <2>4. env \in Envelopes
      BY LadderAssumption DEF EscalateBlocker, Envelope, Envelopes, Kinds, Addressees
    <2>5. \A b \in Agents : \/ turn'[b].step \in {"waiting", "ended"}
                           \/ turn[b].step \notin {"waiting", "ended"}
      BY <1>0, <1>5, <2>2 DEF Fail, TypeOK
    <2> HIDE DEF env
    <2>6. CASE UNCHANGED <<log, inbox>>
      BY <2>1, <2>5, <2>6, OtherStepsStutter
    <2> QED BY <2>1, <2>3, <2>4, <2>5, <2>6, PublishAccepts
  <1>6. ASSUME NEW a \in Agents, GoRound(a) PROVE Goal
    <2>1. CASE Running(a)
      BY <1>6, <2>1, GoRoundSettles
    <2>2. CASE ~Running(a)
      <3>1. UNCHANGED <<log, inbox, begun>> /\ turn' = [turn EXCEPT ![a] = Ended]
        BY <1>6, <2>2 DEF GoRound
      <3>2. \A b \in Agents : \/ turn'[b].step \in {"waiting", "ended"}
                             \/ turn[b].step \notin {"waiting", "ended"}
        BY <1>0, <3>1 DEF TypeOK, Ended
      <3> QED BY <3>1, <3>2, OtherStepsStutter
    <2> QED BY <2>1, <2>2
  <1>7. ASSUME NEW a \in Agents, Stop(a) PROVE Goal
    BY <1>7, OtherStepsStutter DEF Stop
  <1>8. CASE Crash
    <2>1. \A b \in Agents : turn'[b].step \in {"waiting", "ended"}
      BY <1>8 DEF Crash, Waiting, Ended
    <2> QED BY <1>8, <2>1, OtherStepsStutter DEF Crash
  <1>9. CASE UNCHANGED vars
    BY <1>9, OtherStepsStutter DEF vars
  <1> HIDE DEF Goal
  <1>10. Goal
    BY <1>1, <1>2, <1>3, <1>4, <1>5, <1>6, <1>7, <1>8, <1>9 DEF Next, Proceed, Goal
  <1> QED BY <1>10 DEF Goal

(* To those who publish, the loops keep the promise of AtLeastOnce
   (agents/index.ts:66-111), for any organization and any number of failing turns,
   terminations and crashes: no agent's backlog is ever passed over. *)
THEOREM Refinement == Spec => ImplementsPromise
  <1>1. Init => Promise!Init /\ TurnsAreHandedOut
    <2> SUFFICES ASSUME Init PROVE Promise!Init /\ TurnsAreHandedOut
      OBVIOUS
    <2>1. Events = {} /\ \A a \in Agents : DOMAIN inbox[a] = {} /\ turn[a].step = "waiting"
      BY DEF Init, Events, Waiting
    <2> QED BY <2>1 DEF Promise!Init, Promise!Numbers, TurnsAreHandedOut
  <1>2. IInv /\ TurnsAreHandedOut /\ [Next]_vars =>
          TurnsAreHandedOut' /\ [Promise!Next]_<<Items, {}>>
    BY StepsKeepThePromise
  <1> QED BY <1>1, <1>2, Invariance, PTL
          DEF Spec, ImplementsPromise, Promise!Spec, Items

=============================================================================
