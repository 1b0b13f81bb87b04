------------------------- MODULE AgentServiceProofs -------------------------
(* Theorems of AgentService.  IInv is inductive: each action preserves it. *)
EXTENDS AgentService, FiniteSetTheorems, TLAPS

(* The ids are finitely many, and the Principal is none of them. *)
LEMMA IdFacts ==
  /\ IsFiniteSet(Ids)
  /\ \A a \in Ids : a[1] \in Roles /\ a[2] \in 1..MaxSerial
  /\ \A r \in Roles, n \in 1..MaxSerial : <<r, n>> \in Ids
  /\ Executive \in Ids /\ Principal \notin Ids
  <1>1. IsFiniteSet(Roles) /\ IsFiniteSet(1..MaxSerial)
    BY LimitsAssumption, FS_Interval DEF Roles
  <1>2. IsFiniteSet(Ids)
    BY <1>1, FS_Product DEF Ids
  <1> QED BY <1>2, LimitsAssumption DEF Ids, Roles, Executive, Principal

(* The record of a caller with nothing open is well typed. *)
LEMMA NoCallType ==
  NoCall \in [step : {"idle", "inserted", "recorded"}, creator : Ids \cup {Principal},
              manages : Seq(Ids), child : Ids \cup {Principal}]
  <1>1. <<>> \in Seq(Ids)
    OBVIOUS
  <1> QED BY <1>1 DEF NoCall

(* The id createAgent mints has never been given out. *)
LEMMA MintedIdIsNew ==
  ASSUME IInv, NEW r \in Roles, counters[r] < MaxSerial
  PROVE  /\ NextId(r) \in Ids /\ NextId(r) \notin Known
         /\ NextId(r)[1] = r /\ NextId(r)[2] = counters[r] + 1
  <1>1. counters[r] \in Nat /\ counters[r] + 1 \in 1..MaxSerial
    BY LimitsAssumption DEF IInv, TypeOK
  <1>2. NextId(r)[1] = r /\ NextId(r)[2] = counters[r] + 1
    BY DEF NextId
  <1>3. NextId(r) \in Ids
    BY <1>1, IdFacts DEF NextId
  <1>4. ASSUME NextId(r) \in Known PROVE FALSE
    <2>1. NextId(r)[2] <= counters[r]
      BY <1>2, <1>4 DEF IInv, SerialsAreCounted
    <2> QED BY <1>1, <1>2, <2>1
  <1> QED BY <1>2, <1>3, <1>4

LEMMA InitHolds == Init => IInv
  <1> SUFFICES ASSUME Init PROVE IInv
    OBVIOUS
  <1>1. DOMAIN rows = {Executive} /\ rows[Executive] =
          [reportsTo |-> Principal, manages |-> <<>>, status |-> "active"]
    BY DEF Init
  <1>2. TypeOK
    <2>1. rows[Executive] \in [reportsTo : Ids \cup {Principal}, manages : Seq(Ids),
                               status : {"active", "suspended"}]
      BY <1>1
    <2>2. DOMAIN rows \subseteq Ids
      BY <1>1, IdFacts
    <2>3. counters \in [Roles -> Nat] /\ loops \in [Ids -> Nat]
      BY DEF Init
    <2> QED BY <1>1, <2>1, <2>2, <2>3, NoCallType DEF Init, TypeOK
  <1>3. SizeCapHolds
    <2>1. Cardinality({Executive}) = 1
      BY FS_Singleton
    <2> QED BY <1>1, <2>1, LimitsAssumption DEF SizeCapHolds
  <1>4. SerialsAreCounted
    <2>1. Known = {Executive} /\ 0 \in Roles
      BY <1>1, LimitsAssumption DEF Init, Known, Roles
    <2> QED BY <1>1, <2>1 DEF Init, SerialsAreCounted, Executive, Principal
  <1>5. IdsAreNeverReused /\ OneLoopPerAgent /\ ActiveAgentsRun /\ CallsMatchProcess
    BY DEF Init, IdsAreNeverReused, OneLoopPerAgent, ActiveAgentsRun, CallsMatchProcess, NoCall
  <1>6. InsertedUnderCreator
    BY DEF Init, InsertedUnderCreator, NoCall
  <1>7. ListsAreBounded /\ SnapshotsHaveRoom
    <2>1. Len(<<>>) = 0
      OBVIOUS
    <2> QED BY <1>1, <2>1, LimitsAssumption
            DEF Init, ListsAreBounded, SnapshotsHaveRoom, NoCall
  <1> QED BY <1>2, <1>3, <1>4, <1>5, <1>6, <1>7 DEF IInv

(* The steps of the process touch only what is volatile. *)
LEMMA ProcessStep ==
  ASSUME IInv, Boot \/ Crash
  PROVE  IInv'
  <1> USE DEF IInv
  <1>1. UNCHANGED <<rows, counters, deleted>>
    BY DEF Boot, Crash
  <1>2. SizeCapHolds' /\ IdsAreNeverReused' /\ SerialsAreCounted' /\ ListsAreBounded'
    BY <1>1 DEF SizeCapHolds, IdsAreNeverReused, SerialsAreCounted, Known, ListsAreBounded
  <1>3. CASE Boot
    <2>1. TypeOK'
      BY <1>1, <1>3 DEF TypeOK, Boot
    <2>2. ActiveAgentsRun' /\ OneLoopPerAgent'
      BY <1>1, <1>3 DEF Boot, ActiveAgentsRun, OneLoopPerAgent, TypeOK, IsAgent
    <2>3. CallsMatchProcess' /\ InsertedUnderCreator' /\ SnapshotsHaveRoom'
      BY <1>1, <1>3 DEF Boot, CallsMatchProcess, InsertedUnderCreator, SnapshotsHaveRoom,
                        Known, IsAgent
    <2> QED BY <1>2, <2>1, <2>2, <2>3
  <1>4. CASE Crash
    <2>1. TypeOK'
      <3>1. loops' \in [Ids -> Nat] /\ up' \in BOOLEAN
        BY <1>4 DEF Crash
      <3>2. crashes' \in Nat
        BY <1>4 DEF TypeOK, Crash
      <3>3. calls' \in [Callers -> [step : {"idle", "inserted", "recorded"},
                                    creator : Ids \cup {Principal}, manages : Seq(Ids),
                                    child : Ids \cup {Principal}]]
        BY <1>4, NoCallType DEF Crash
      <3> QED BY <1>1, <3>1, <3>2, <3>3 DEF TypeOK
    <2>2. ActiveAgentsRun' /\ OneLoopPerAgent'
      BY <1>1, <1>4 DEF Crash, ActiveAgentsRun, OneLoopPerAgent
    <2>3. CallsMatchProcess' /\ InsertedUnderCreator' /\ SnapshotsHaveRoom'
      BY <1>1, <1>4 DEF Crash, CallsMatchProcess, InsertedUnderCreator, SnapshotsHaveRoom,
                        NoCall
    <2> QED BY <1>2, <2>1, <2>2, <2>3
  <1> QED BY <1>3, <1>4

(* The checks and the insert: the cap is tested in the step that inserts. *)
LEMMA BeginCreateStep ==
  ASSUME IInv, NEW c \in Callers, NEW m \in Ids, BeginCreate(c, m)
  PROVE  IInv'
  <1> USE DEF IInv
  <1>0. PICK a : a = NextId(Role(m) + 1)
    OBVIOUS
  <1> DEFINE r == Role(m) + 1
             row == [reportsTo |-> m, manages |-> <<>>, status |-> "active"]
             call == [step |-> "inserted", creator |-> m, manages |-> rows[m].manages,
                      child |-> a]
  <1>1. /\ up /\ calls[c].step = "idle" /\ m \in DOMAIN rows
        /\ r \in Roles /\ ~Full /\ counters[r] < MaxSerial
        /\ Len(rows[m].manages) < MaxDirectReports
        /\ counters' = [counters EXCEPT ![r] = @ + 1]
        /\ rows' = [b \in DOMAIN rows \cup {a} |-> IF b = a THEN row ELSE rows[b]]
        /\ calls' = [calls EXCEPT ![c] = call]
        /\ UNCHANGED <<up, loops, deleted, crashes>>
    BY <1>0, IdFacts, LimitsAssumption
    DEF BeginCreate, MayCreate, Idle, IsAgent, Role, Roles
  <1>2. a \in Ids /\ a \notin Known /\ a[1] = r /\ a[2] = counters[r] + 1
    BY <1>0, <1>1, MintedIdIsNew
  <1> HIDE DEF r
  <1>3. /\ DOMAIN rows' = DOMAIN rows \cup {a} /\ rows'[a] = row
        /\ \A b \in DOMAIN rows : rows'[b] = rows[b]
        /\ Known' = Known \cup {a}
        /\ m # a
    BY <1>1, <1>2 DEF Known
  <1>4. /\ calls'[c] = call /\ \A d \in Callers \ {c} : calls'[d] = calls[d]
        /\ counters'[r] = counters[r] + 1
        /\ \A q \in Roles \ {r} : counters'[q] = counters[q]
    BY <1>1 DEF TypeOK
  <1>5. rows[m].manages \in Seq(Ids) /\ <<>> \in Seq(Ids) /\ counters[r] \in Nat
    BY <1>1 DEF TypeOK
  <1>6. TypeOK'
    <2>1. row \in [reportsTo : Ids \cup {Principal}, manages : Seq(Ids),
                   status : {"active", "suspended"}]
      BY <1>5
    <2>2. call \in [step : {"idle", "inserted", "recorded"}, creator : Ids \cup {Principal},
                    manages : Seq(Ids), child : Ids \cup {Principal}]
      BY <1>2, <1>5
    <2>3. counters' \in [Roles -> Nat]
      BY <1>1, <1>5 DEF TypeOK
    <2>4. DOMAIN rows' \subseteq Ids
      BY <1>2, <1>3 DEF TypeOK
    <2>5. \A b \in DOMAIN rows' :
            rows'[b] \in [reportsTo : Ids \cup {Principal}, manages : Seq(Ids),
                          status : {"active", "suspended"}]
      BY <1>3, <2>1 DEF TypeOK
    <2>6. calls' \in [Callers -> [step : {"idle", "inserted", "recorded"},
                                  creator : Ids \cup {Principal}, manages : Seq(Ids),
                                  child : Ids \cup {Principal}]]
      BY <1>1, <2>2 DEF TypeOK
    <2> QED BY <1>1, <2>3, <2>4, <2>5, <2>6 DEF TypeOK
  <1>7. SizeCapHolds'
    <2>1. IsFiniteSet(DOMAIN rows)
      BY IdFacts, FS_Subset DEF TypeOK
    <2>2. Cardinality(DOMAIN rows) \in Nat /\ Cardinality(DOMAIN rows) < MaxTotalAgents
      BY <1>1, <2>1, FS_CardinalityType, LimitsAssumption DEF Full
    <2>3. Cardinality(DOMAIN rows') = Cardinality(DOMAIN rows) + 1
      <3>1. a \notin DOMAIN rows
        BY <1>2 DEF Known
      <3>2. Cardinality(DOMAIN rows \cup {a}) = Cardinality(DOMAIN rows) + 1
        BY <2>1, <3>1, FS_AddElement
      <3> QED BY <1>3, <3>2
    <2> QED BY <2>2, <2>3, LimitsAssumption DEF SizeCapHolds
  <1>8. IdsAreNeverReused' /\ OneLoopPerAgent'
    BY <1>1, <1>2, <1>3 DEF IdsAreNeverReused, OneLoopPerAgent, Known
  <1>9. SerialsAreCounted'
    <2>1. ASSUME NEW b \in Known PROVE b[2] <= counters'[b[1]]
      <3>1. b \in Ids /\ b[1] \in Roles /\ b[2] \in Nat /\ counters[b[1]] \in Nat
        BY IdFacts DEF TypeOK, Known
      <3>2. b[2] <= counters[b[1]]
        BY <2>1 DEF SerialsAreCounted
      <3>3. counters'[b[1]] >= counters[b[1]]
        BY <1>4, <1>5, <3>1
      <3>4. counters'[b[1]] \in Nat
        BY <1>6, <3>1 DEF TypeOK
      <3> QED BY <3>1, <3>2, <3>3, <3>4
    <2>2. a[2] <= counters'[a[1]]
      BY <1>2, <1>4, <1>5
    <2>3. \A b \in DOMAIN rows' : rows'[b].reportsTo \in Known \cup {Principal}
      BY <1>1, <1>3 DEF SerialsAreCounted, Known
    <2> QED BY <1>3, <2>1, <2>2, <2>3 DEF SerialsAreCounted
  <1>10. CallsMatchProcess'
    BY <1>1, <1>3, <1>4 DEF CallsMatchProcess
  <1>11. ActiveAgentsRun'
    <2>1. \A b \in Ids : BeingLaunched(b) => BeingLaunched(b)'
      BY <1>1, <1>4 DEF BeingLaunched
    <2>2. BeingLaunched(a)'
      BY <1>4 DEF BeingLaunched
    <2>3. ASSUME up, NEW b \in DOMAIN rows', rows'[b].status = "active"
          PROVE  loops[b] > 0 \/ BeingLaunched(b)' \/ rows'[b].reportsTo \in deleted
      <3>1. CASE b = a
        BY <2>2, <3>1
      <3>2. CASE b # a
        <4>1. b \in DOMAIN rows /\ rows'[b] = rows[b] /\ b \in Ids
          BY <1>3, <2>3, <3>2 DEF TypeOK
        <4> QED BY <2>1, <2>3, <4>1 DEF ActiveAgentsRun
      <3> QED BY <3>1, <3>2
    <2> QED BY <1>1, <2>3 DEF ActiveAgentsRun
  <1>12. InsertedUnderCreator'
    <2>1. ASSUME NEW d \in Callers, calls'[d].step = "inserted"
          PROVE  /\ calls'[d].creator \in Known
                 /\ calls'[d].child \in DOMAIN rows'
                      => rows'[calls'[d].child].reportsTo = calls'[d].creator
      <3>1. CASE d = c
        BY <1>1, <1>3, <1>4, <3>1 DEF Known
      <3>2. CASE d # c
        <4>1. calls'[d] = calls[d]
          BY <1>4, <3>2
        <4>2. calls[d].child # a
          BY <1>2, <2>1, <4>1 DEF CallsMatchProcess
        <4> QED BY <1>3, <2>1, <4>1, <4>2 DEF InsertedUnderCreator, IsAgent
      <3> QED BY <3>1, <3>2
    <2> QED BY <1>3, <2>1 DEF InsertedUnderCreator, IsAgent
  <1>13. ListsAreBounded' /\ SnapshotsHaveRoom'
    <2>1. Len(<<>>) = 0
      OBVIOUS
    <2>2. ListsAreBounded'
      BY <1>3, <2>1, LimitsAssumption DEF ListsAreBounded
    <2>3. SnapshotsHaveRoom'
      BY <1>1, <1>4 DEF SnapshotsHaveRoom
    <2> QED BY <2>2, <2>3
  <1> QED BY <1>6, <1>7, <1>8, <1>9, <1>10, <1>11, <1>12, <1>13

(* The update of the creator's reports touches no other row and no other field. *)
LEMMA RecordReportStep ==
  ASSUME IInv, NEW c \in Callers, RecordReport(c)
  PROVE  IInv'
  <1> USE DEF IInv
  <1> DEFINE m == calls[c].creator
  <1>1. /\ calls[c].step = "inserted" /\ m \in Known /\ calls[c].child \in Known
        /\ Known \subseteq Ids /\ up
        /\ calls[c] \in [step : {"idle", "inserted", "recorded"}, creator : Ids \cup {Principal},
                         manages : Seq(Ids), child : Ids \cup {Principal}]
        /\ UNCHANGED <<counters, up, loops, deleted, crashes>>
    BY DEF RecordReport, InsertedUnderCreator, CallsMatchProcess, TypeOK, Known
  <1>2. CASE IsAgent(m)
    <2>1. /\ m \in DOMAIN rows /\ DOMAIN rows' = DOMAIN rows /\ Known' = Known
          /\ rows' = [rows EXCEPT ![m].manages = Append(calls[c].manages, calls[c].child)]
          /\ calls' = [calls EXCEPT ![c].step = "recorded"]
      BY <1>1, <1>2 DEF RecordReport, IsAgent, Known
    <2>2. /\ \A b \in DOMAIN rows : rows'[b].reportsTo = rows[b].reportsTo
                                   /\ rows'[b].status = rows[b].status
          /\ \A b \in DOMAIN rows \ {m} : rows'[b] = rows[b]
      BY <2>1 DEF TypeOK
    <2>3. /\ \A d \in Callers : calls'[d].child = calls[d].child
                              /\ calls'[d].creator = calls[d].creator
                              /\ (calls'[d].step = "idle" <=> calls[d].step = "idle")
                              /\ (calls'[d].step = "inserted" => calls[d].step = "inserted")
      BY <1>1, <2>1 DEF TypeOK
    <2>4. TypeOK'
      <3>1. Append(calls[c].manages, calls[c].child) \in Seq(Ids)
        BY <1>1
      <3>2. \A b \in DOMAIN rows' :
              rows'[b] \in [reportsTo : Ids \cup {Principal}, manages : Seq(Ids),
                            status : {"active", "suspended"}]
        <4>1. rows'[m] = [rows[m] EXCEPT !.manages = Append(calls[c].manages, calls[c].child)]
          BY <2>1
        <4>2. rows[m] \in [reportsTo : Ids \cup {Principal}, manages : Seq(Ids),
                           status : {"active", "suspended"}]
          BY <2>1 DEF TypeOK
        <4>3. rows'[m] \in [reportsTo : Ids \cup {Principal}, manages : Seq(Ids),
                            status : {"active", "suspended"}]
          BY <3>1, <4>1, <4>2
        <4> QED BY <2>1, <2>2, <4>3 DEF TypeOK
      <3>3. calls' \in [Callers -> [step : {"idle", "inserted", "recorded"},
                                    creator : Ids \cup {Principal}, manages : Seq(Ids),
                                    child : Ids \cup {Principal}]]
        <4>1. [calls[c] EXCEPT !.step = "recorded"]
                \in [step : {"idle", "inserted", "recorded"}, creator : Ids \cup {Principal},
                     manages : Seq(Ids), child : Ids \cup {Principal}]
          BY <1>1
        <4> QED BY <2>1, <4>1 DEF TypeOK
      <3> QED BY <1>1, <2>1, <3>2, <3>3 DEF TypeOK
    <2>5. SizeCapHolds' /\ IdsAreNeverReused' /\ OneLoopPerAgent' /\ SerialsAreCounted'
      BY <1>1, <2>1, <2>2 DEF SizeCapHolds, IdsAreNeverReused, OneLoopPerAgent, SerialsAreCounted
    <2>6. ActiveAgentsRun'
      BY <1>1, <2>1, <2>2, <2>3 DEF ActiveAgentsRun, BeingLaunched
    <2>7. CallsMatchProcess' /\ InsertedUnderCreator'
      BY <1>1, <2>1, <2>2, <2>3 DEF CallsMatchProcess, InsertedUnderCreator, IsAgent
    <2>8. SnapshotsHaveRoom'
      <3>1. \A d \in Callers : calls'[d].manages = calls[d].manages
        BY <1>1, <2>1 DEF TypeOK
      <3> QED BY <2>3, <3>1 DEF SnapshotsHaveRoom
    <2>9. ListsAreBounded'
      <3>1. rows'[m].manages = Append(calls[c].manages, calls[c].child)
        BY <2>1 DEF TypeOK
      <3>2. Len(rows'[m].manages) = Len(calls[c].manages) + 1 /\ Len(calls[c].manages) \in Nat
        BY <1>1, <3>1
      <3>3. Len(rows'[m].manages) <= MaxDirectReports
        BY <1>1, <3>2, LimitsAssumption DEF SnapshotsHaveRoom
      <3> QED BY <2>1, <2>2, <3>3 DEF ListsAreBounded
    <2> QED BY <2>4, <2>5, <2>6, <2>7, <2>8, <2>9
  <1>3. CASE ~IsAgent(m)
    <2>1. UNCHANGED rows /\ calls' = [calls EXCEPT ![c] = NoCall] /\ m \in deleted
      BY <1>1, <1>3 DEF RecordReport, IsAgent, Known, Ends
    <2>2. /\ calls'[c] = NoCall /\ \A d \in Callers \ {c} : calls'[d] = calls[d]
          /\ Known' = Known
      BY <1>1, <2>1 DEF TypeOK, Known
    <2>3. TypeOK'
      BY <1>1, <2>1, NoCallType DEF TypeOK
    <2>4. SizeCapHolds' /\ IdsAreNeverReused' /\ OneLoopPerAgent' /\ SerialsAreCounted'
      BY <1>1, <2>1, <2>2 DEF SizeCapHolds, IdsAreNeverReused, OneLoopPerAgent, SerialsAreCounted
    <2>5. ActiveAgentsRun'
      <3>1. ASSUME NEW b \in DOMAIN rows, rows[b].status = "active"
            PROVE  loops[b] > 0 \/ BeingLaunched(b)' \/ rows[b].reportsTo \in deleted
        <4>1. CASE b = calls[c].child
          BY <1>1, <2>1, <4>1 DEF InsertedUnderCreator, IsAgent
        <4>2. CASE b # calls[c].child
          <5>1. BeingLaunched(b) => BeingLaunched(b)'
            BY <2>2, <4>2 DEF BeingLaunched
          <5> QED BY <1>1, <3>1, <5>1 DEF ActiveAgentsRun
        <4> QED BY <4>1, <4>2
      <3> QED BY <1>1, <2>1, <3>1 DEF ActiveAgentsRun
    <2>6. CallsMatchProcess' /\ InsertedUnderCreator'
      BY <1>1, <2>1, <2>2 DEF CallsMatchProcess, InsertedUnderCreator, IsAgent, NoCall
    <2>7. ListsAreBounded' /\ SnapshotsHaveRoom'
      BY <2>1, <2>2 DEF ListsAreBounded, SnapshotsHaveRoom, NoCall
    <2> QED BY <2>3, <2>4, <2>5, <2>6, <2>7
  <1> QED BY <1>2, <1>3

(* The launch starts a loop only where there is none. *)
LEMMA LaunchChildStep ==
  ASSUME IInv, NEW c \in Callers, LaunchChild(c)
  PROVE  IInv'
  <1> USE DEF IInv
  <1>1. /\ calls[c].step = "recorded" /\ calls[c].child \in Ids /\ up
        /\ loops' = [loops EXCEPT ![calls[c].child] = IF @ = 0 THEN 1 ELSE @]
        /\ calls' = [calls EXCEPT ![c] = NoCall]
        /\ UNCHANGED <<rows, counters, up, deleted, crashes>>
    BY DEF LaunchChild, Launch, Ends, CallsMatchProcess, TypeOK, Known
  <1>2. /\ loops'[calls[c].child] > 0
        /\ \A b \in Ids : loops'[b] = loops[b] \/ (loops[b] = 0 /\ loops'[b] = 1)
        /\ calls'[c] = NoCall /\ \A d \in Callers \ {c} : calls'[d] = calls[d]
    BY <1>1 DEF TypeOK
  <1>3. TypeOK'
    BY <1>1, NoCallType DEF TypeOK
  <1>4. SizeCapHolds' /\ IdsAreNeverReused' /\ SerialsAreCounted'
    BY <1>1 DEF SizeCapHolds, IdsAreNeverReused, SerialsAreCounted, Known
  <1>5. OneLoopPerAgent'
    BY <1>2 DEF OneLoopPerAgent
  <1>6. ActiveAgentsRun'
    <2>1. ASSUME NEW b \in DOMAIN rows, rows[b].status = "active"
          PROVE  loops'[b] > 0 \/ BeingLaunched(b)' \/ rows[b].reportsTo \in deleted
      <3>1. CASE b = calls[c].child
        BY <1>2, <3>1
      <3>2. CASE b # calls[c].child
        <4>1. BeingLaunched(b) => BeingLaunched(b)'
          BY <1>2, <3>2 DEF BeingLaunched
        <4>2. b \in Ids
          BY DEF TypeOK
        <4> QED BY <1>1, <1>2, <2>1, <4>1, <4>2 DEF ActiveAgentsRun
      <3> QED BY <3>1, <3>2
    <2> QED BY <1>1, <2>1 DEF ActiveAgentsRun
  <1>7. CallsMatchProcess' /\ InsertedUnderCreator'
    BY <1>1, <1>2 DEF CallsMatchProcess, InsertedUnderCreator, IsAgent, NoCall, Known
  <1>8. ListsAreBounded' /\ SnapshotsHaveRoom'
    BY <1>1, <1>2 DEF ListsAreBounded, SnapshotsHaveRoom, NoCall
  <1> QED BY <1>3, <1>4, <1>5, <1>6, <1>7, <1>8

(* Suspension and resumption write a status; a resumed agent is about to be launched. *)
LEMMA StatusStep ==
  ASSUME IInv, NEW a \in Ids, SuspendAgent(a) \/ BeginResume(a)
  PROVE  IInv'
  <1> USE DEF IInv
  <1>1. PICK s \in {"active", "suspended"} :
          /\ rows' = [rows EXCEPT ![a].status = s]
          /\ s = "active" => BeginResume(a)
    BY DEF SuspendAgent, BeginResume
  <1>2. /\ a \in DOMAIN rows /\ up /\ calls[Handler].step = "idle" /\ Handler \in Callers
        /\ UNCHANGED <<counters, up, loops, deleted, crashes>>
    BY DEF SuspendAgent, BeginResume, IsAgent, Idle, Callers
  <1>3. /\ DOMAIN rows' = DOMAIN rows /\ Known' = Known
        /\ \A b \in DOMAIN rows : rows'[b].reportsTo = rows[b].reportsTo
                                 /\ rows'[b].manages = rows[b].manages
        /\ \A b \in DOMAIN rows \ {a} : rows'[b] = rows[b]
        /\ rows'[a].status = s
    BY <1>1, <1>2 DEF TypeOK, Known
  <1> DEFINE call == [NoCall EXCEPT !.step = "recorded", !.child = a]
  <1>4. \/ UNCHANGED calls
        \/ BeginResume(a) /\ calls' = [calls EXCEPT ![Handler] = call]
    BY DEF SuspendAgent, BeginResume
  <1>5. call \in [step : {"idle", "inserted", "recorded"}, creator : Ids \cup {Principal},
                  manages : Seq(Ids), child : Ids \cup {Principal}]
        /\ call.step = "recorded" /\ call.child = a
    BY NoCallType DEF NoCall
  <1>6. BeginResume(a) => calls' = [calls EXCEPT ![Handler] = call]
    BY DEF BeginResume
  <1> HIDE DEF call
  <1>7. TypeOK'
    <2>1. \A b \in DOMAIN rows' :
            rows'[b] \in [reportsTo : Ids \cup {Principal}, manages : Seq(Ids),
                          status : {"active", "suspended"}]
      BY <1>1, <1>2, <1>3 DEF TypeOK
    <2>2. calls' \in [Callers -> [step : {"idle", "inserted", "recorded"},
                                  creator : Ids \cup {Principal}, manages : Seq(Ids),
                                  child : Ids \cup {Principal}]]
      BY <1>2, <1>4, <1>5 DEF TypeOK
    <2> QED BY <1>2, <1>3, <2>1, <2>2 DEF TypeOK
  <1>8. SizeCapHolds' /\ IdsAreNeverReused' /\ OneLoopPerAgent' /\ SerialsAreCounted'
    BY <1>2, <1>3 DEF SizeCapHolds, IdsAreNeverReused, OneLoopPerAgent, SerialsAreCounted
  <1>9. ActiveAgentsRun'
    <2>1. \A b \in Ids : BeingLaunched(b) => BeingLaunched(b)'
      BY <1>2, <1>4 DEF BeingLaunched, TypeOK
    <2>2. ASSUME NEW b \in DOMAIN rows, rows'[b].status = "active"
          PROVE  loops[b] > 0 \/ BeingLaunched(b)' \/ rows[b].reportsTo \in deleted
      <3>1. CASE b = a
        <4>1. calls'[Handler] = call
          BY <1>1, <1>2, <1>3, <1>6, <2>2, <3>1 DEF TypeOK
        <4> QED BY <1>2, <1>5, <3>1, <4>1 DEF BeingLaunched
      <3>2. CASE b # a
        <4>1. rows'[b] = rows[b] /\ b \in Ids
          BY <1>3, <3>2 DEF TypeOK
        <4> QED BY <1>2, <2>1, <2>2, <4>1 DEF ActiveAgentsRun
      <3> QED BY <3>1, <3>2
    <2> QED BY <1>2, <1>3, <2>2 DEF ActiveAgentsRun
  <1>10. /\ CallsMatchProcess' /\ InsertedUnderCreator'
         /\ ListsAreBounded' /\ SnapshotsHaveRoom'
    <2>1. ASSUME NEW d \in Callers
          PROVE  \/ calls'[d] = calls[d]
                 \/ calls'[d].step = "recorded" /\ calls'[d].child = a
      BY <1>2, <1>4, <1>5 DEF TypeOK
    <2>2. a \in Known
      BY <1>2 DEF Known
    <2>3. CallsMatchProcess'
      BY <1>2, <1>3, <2>1, <2>2 DEF CallsMatchProcess
    <2>4. InsertedUnderCreator'
      BY <1>3, <2>1 DEF InsertedUnderCreator, IsAgent
    <2>5. ListsAreBounded' /\ SnapshotsHaveRoom'
      BY <1>3, <2>1 DEF ListsAreBounded, SnapshotsHaveRoom
    <2> QED BY <2>3, <2>4, <2>5
  <1> QED BY <1>7, <1>8, <1>9, <1>10

(* Termination removes one row and stops one loop; the id stays known. *)
LEMMA TerminateStep ==
  ASSUME IInv, NEW a \in Ids, TerminateAgent(a)
  PROVE  IInv'
  <1> USE DEF IInv
  <1>1. /\ up
        /\ loops' = [loops EXCEPT ![a] = IF @ = 0 THEN 0 ELSE @ - 1]
        /\ rows' = [b \in DOMAIN rows \ {a} |-> rows[b]]
        /\ deleted' = deleted \cup {a}
        /\ IsAgent(a) \/ loops[a] > 0
        /\ UNCHANGED <<counters, up, calls, crashes>>
    BY DEF TerminateAgent, Stop
  <1>2. /\ DOMAIN rows' = DOMAIN rows \ {a}
        /\ \A b \in DOMAIN rows' : rows'[b] = rows[b]
        /\ \A b \in Ids \ {a} : loops'[b] = loops[b]
        /\ loops'[a] \in Nat /\ loops'[a] <= loops[a]
    BY <1>1 DEF TypeOK
  <1>3. TypeOK'
    BY <1>1, <1>2 DEF TypeOK
  <1>4. SizeCapHolds'
    <2>1. IsFiniteSet(DOMAIN rows)
      BY IdFacts, FS_Subset DEF TypeOK
    <2>2. /\ Cardinality(DOMAIN rows') <= Cardinality(DOMAIN rows)
          /\ Cardinality(DOMAIN rows') \in Nat /\ Cardinality(DOMAIN rows) \in Nat
      BY <1>2, <2>1, FS_Subset, FS_CardinalityType
    <2> QED BY <2>2, LimitsAssumption DEF SizeCapHolds
  <1>5. IdsAreNeverReused' /\ OneLoopPerAgent'
    BY <1>1, <1>2 DEF IdsAreNeverReused, OneLoopPerAgent, TypeOK
  <1>6. ActiveAgentsRun'
    BY <1>1, <1>2 DEF ActiveAgentsRun, BeingLaunched, TypeOK
  <1>7. CallsMatchProcess'
    BY <1>1, <1>2 DEF CallsMatchProcess, Known
  <1>8. InsertedUnderCreator'
    BY <1>1, <1>2 DEF InsertedUnderCreator, IsAgent, Known
  <1>9. SerialsAreCounted'
    <2>1. a \in Known /\ Known' = Known
      BY <1>1, <1>2 DEF CallsMatchProcess, Known, IsAgent
    <2> QED BY <1>1, <1>2, <2>1 DEF SerialsAreCounted
  <1>10. ListsAreBounded' /\ SnapshotsHaveRoom'
    BY <1>1, <1>2 DEF ListsAreBounded, SnapshotsHaveRoom
  <1> QED BY <1>3, <1>4, <1>5, <1>6, <1>7, <1>8, <1>9, <1>10

-----------------------------------------------------------------------------
(* Theorems *)

(* IInv is an invariant for every ladder, every choice of the limits, any number
   of tool calls at once and any number of crashes. *)
THEOREM Invariance == Spec => []IInv
  <1>1. IInv /\ [Next]_vars => IInv'
    <2> SUFFICES ASSUME IInv, [Next]_vars PROVE IInv'
      OBVIOUS
    <2>1. CASE UNCHANGED vars
      <3>1. TypeOK' /\ SizeCapHolds' /\ IdsAreNeverReused' /\ OneLoopPerAgent'
        BY <2>1 DEF vars, IInv, TypeOK, SizeCapHolds, IdsAreNeverReused, OneLoopPerAgent
      <3>2. ActiveAgentsRun' /\ SerialsAreCounted'
        BY <2>1 DEF vars, IInv, ActiveAgentsRun, BeingLaunched, SerialsAreCounted, Known
      <3>3. CallsMatchProcess' /\ InsertedUnderCreator'
        BY <2>1 DEF vars, IInv, CallsMatchProcess, InsertedUnderCreator, Known, IsAgent
      <3>4. ListsAreBounded' /\ SnapshotsHaveRoom'
        BY <2>1 DEF vars, IInv, ListsAreBounded, SnapshotsHaveRoom
      <3> QED BY <3>1, <3>2, <3>3, <3>4 DEF IInv
    <2>2. CASE Boot \/ Crash
      BY <2>2, ProcessStep
    <2>3. CASE \E c \in Callers : Create(c)
      BY <2>3, BeginCreateStep, RecordReportStep, LaunchChildStep DEF Create
    <2>4. CASE \E a \in Ids : Manage(a)
      BY <2>4, StatusStep, TerminateStep DEF Manage
    <2> QED BY <2>1, <2>2, <2>3, <2>4 DEF Next
  <1> QED BY <1>1, InitHolds, PTL DEF Spec

(* Type correctness. *)
THEOREM TypeCorrectness == Spec => []TypeOK
  <1>1. IInv => TypeOK
    BY DEF IInv
  <1> QED BY <1>1, Invariance, PTL

(* The global ceiling holds under every interleaving of create calls. *)
THEOREM OrganizationIsBounded == Spec => []SizeCapHolds
  <1>1. IInv => SizeCapHolds
    BY DEF IInv
  <1> QED BY <1>1, Invariance, PTL

(* A deleted id never comes back. *)
THEOREM DeletedIdsStayDeleted == Spec => []IdsAreNeverReused
  <1>1. IInv => IdsAreNeverReused
    BY DEF IInv
  <1> QED BY <1>1, Invariance, PTL

(* No list of reports outgrows the fan-out ceiling. *)
THEOREM ListsStayBounded == Spec => []ListsAreBounded
  <1>1. IInv => ListsAreBounded
    BY DEF IInv
  <1> QED BY <1>1, Invariance, PTL

(* No agent runs twice. *)
THEOREM LoopsAreUnique == Spec => []OneLoopPerAgent
  <1>1. IInv => OneLoopPerAgent
    BY DEF IInv
  <1> QED BY <1>1, Invariance, PTL

(* An active agent runs, is being launched, or lost its creator half-way. *)
THEOREM ActiveMeansRunning == Spec => []ActiveAgentsRun
  <1>1. IInv => ActiveAgentsRun
    BY DEF IInv
  <1> QED BY <1>1, Invariance, PTL

=============================================================================
