-------------------------- MODULE ModelPoolProofs --------------------------
(* Theorems of ModelPool: for any number of callers, keys and slots, and for a
   clock without bound. *)
EXTENDS ModelPool, FiniteSetTheorems, TLAPS

(* The inductive invariant: slots, queue and windows hang together. *)
IInv == TypeOK /\ SlotsAreConserved /\ WaitersAreParked /\ WindowsAreSpaced

LEMMA PhasesAreFinite ==
  ASSUME NEW p PROVE IsFiniteSet(In(p)) /\ Cardinality(In(p)) \in Nat
  <1>1. In(p) \subseteq Callers
    BY DEF In
  <1> QED BY <1>1, CallersAssumption, FS_Subset, FS_CardinalityType

LEMMA InitHolds == Init => IInv
  <1> SUFFICES ASSUME Init PROVE IInv
    OBVIOUS
  <1>1. TypeOK
    <2>1. 1 \in Keys /\ Slots \in 0..Slots
      BY PoolAssumption DEF Keys
    <2>2. waiters \in Seq(Callers)
      BY <2>1 DEF Init
    <2> QED BY <2>1, <2>2 DEF Init, TypeOK
  <1>2. In("running") = {} /\ In("waiting") = {}
    BY DEF Init, In
  <1>3. SlotsAreConserved
    <2>1. Cardinality(In("running")) = 0
      BY <1>2, FS_EmptySet
    <2>2. available = Slots /\ waiters = <<>>
      BY DEF Init
    <2> QED BY <2>1, <2>2, PoolAssumption DEF SlotsAreConserved
  <1>4. WaitersAreParked /\ WindowsAreSpaced
    BY <1>2 DEF Init, WaitersAreParked, WindowsAreSpaced
  <1> QED BY <1>1, <1>3, <1>4 DEF IInv

LEMMA ReserveHolds ==
  ASSUME IInv, NEW c \in Callers, Reserve(c)
  PROVE  IInv'
  <1> USE DEF IInv, Reserve
  <1>1. PICK k \in Keys :
          LET earliest == IF now >= keyNextFreeAt[k] THEN now ELSE keyNextFreeAt[k]
          IN  /\ window' = [window EXCEPT ![c] = earliest]
              /\ keyNextFreeAt' = [keyNextFreeAt EXCEPT ![k] = earliest + MinInterval]
              /\ key' = [key EXCEPT ![c] = k]
    OBVIOUS
  <1> PICK earliest : earliest = IF now >= keyNextFreeAt[k] THEN now ELSE keyNextFreeAt[k]
    OBVIOUS
  <1>2. /\ earliest \in Nat /\ earliest >= now /\ earliest >= keyNextFreeAt[k]
        /\ window' = [window EXCEPT ![c] = earliest]
        /\ keyNextFreeAt' = [keyNextFreeAt EXCEPT ![k] = earliest + MinInterval]
        /\ key' = [key EXCEPT ![c] = k]
    <2>1. now \in Nat /\ keyNextFreeAt[k] \in Nat
      BY DEF TypeOK
    <2>2. earliest \in Nat /\ earliest >= now /\ earliest >= keyNextFreeAt[k]
      BY <2>1
    <2>3. /\ window' = [window EXCEPT ![c] = earliest]
          /\ keyNextFreeAt' = [keyNextFreeAt EXCEPT ![k] = earliest + MinInterval]
          /\ key' = [key EXCEPT ![c] = k]
      BY <1>1
    <2> QED BY <2>2, <2>3
  <1>3. In("running")' = In("running") /\ In("waiting")' = In("waiting")
    BY DEF In, TypeOK
  <1>4. TypeOK'
    BY <1>2, PoolAssumption DEF TypeOK
  <1>5. SlotsAreConserved' /\ WaitersAreParked'
    BY <1>3 DEF SlotsAreConserved, WaitersAreParked
  <1>6. WindowsAreSpaced'
    <2>1. /\ window'[c] = earliest /\ key'[c] = k
          /\ keyNextFreeAt'[k] = earliest + MinInterval
          /\ \A d \in Callers \ {c} :
               window'[d] = window[d] /\ key'[d] = key[d] /\ phase'[d] = phase[d]
          /\ \A j \in Keys \ {k} : keyNextFreeAt'[j] = keyNextFreeAt[j]
      BY <1>2 DEF TypeOK
    <2>2. \A d \in Callers : window[d] \in Nat /\ key[d] \in Keys
      BY DEF TypeOK
    <2>3. \A j \in Keys : keyNextFreeAt[j] \in Nat
      BY DEF TypeOK
    <2>4. ASSUME NEW d \in Callers \ {c}, phase[d] # "idle", key[d] = k
          PROVE  earliest >= window[d] + MinInterval
      <3>1. keyNextFreeAt[k] >= window[d] + MinInterval
        BY <2>4 DEF WindowsAreSpaced
      <3> QED BY <1>2, <2>2, <2>3, <3>1, PoolAssumption
    <2>5. ASSUME NEW d \in Callers, phase'[d] # "idle"
          PROVE  keyNextFreeAt'[key'[d]] >= window'[d] + MinInterval
      <3>1. CASE d = c
        <4>1. keyNextFreeAt'[key'[d]] = earliest + MinInterval /\ window'[d] = earliest
          BY <2>1, <3>1
        <4> QED BY <1>2, <4>1, PoolAssumption
      <3>2. CASE d # c /\ key[d] = k
        <4>1. earliest >= window[d] + MinInterval
          BY <2>1, <2>4, <2>5, <3>2
        <4>2. keyNextFreeAt'[key'[d]] = earliest + MinInterval /\ window'[d] = window[d]
          BY <2>1, <3>2
        <4> QED BY <1>2, <2>2, <4>1, <4>2, PoolAssumption
      <3>3. CASE d # c /\ key[d] # k
        BY <2>1, <2>2, <2>5, <3>3 DEF WindowsAreSpaced
      <3> QED BY <3>1, <3>2, <3>3
    <2>6. ASSUME NEW d \in Callers, NEW e \in Callers, d # e,
                 phase'[d] # "idle", phase'[e] # "idle", key'[d] = key'[e]
          PROVE  window'[d] >= window'[e] + MinInterval \/ window'[e] >= window'[d] + MinInterval
      <3>1. CASE d = c
        BY <2>1, <2>4, <2>6, <3>1
      <3>2. CASE e = c
        BY <2>1, <2>4, <2>6, <3>2
      <3>3. CASE d # c /\ e # c
        BY <2>1, <2>6, <3>3 DEF WindowsAreSpaced
      <3> QED BY <3>1, <3>2, <3>3
    <2> QED BY <2>5, <2>6 DEF WindowsAreSpaced
  <1> QED BY <1>4, <1>5, <1>6

LEMMA TakeSlotHolds ==
  ASSUME IInv, NEW c \in Callers, TakeSlot(c)
  PROVE  IInv'
  <1> USE DEF IInv, TakeSlot
  <1>1. /\ In("running")' = In("running") \cup {c} /\ c \notin In("running")
        /\ In("waiting")' = In("waiting")
    BY DEF In, TypeOK
  <1>2. TypeOK'
    BY PoolAssumption DEF TypeOK
  <1>3. SlotsAreConserved'
    <2>1. Cardinality(In("running")') = Cardinality(In("running")) + 1
      BY <1>1, PhasesAreFinite, FS_AddElement
    <2> QED BY <2>1, PhasesAreFinite, PoolAssumption DEF SlotsAreConserved, TypeOK
  <1>4. WaitersAreParked'
    BY <1>1 DEF WaitersAreParked
  <1>5. WindowsAreSpaced'
    BY DEF WindowsAreSpaced, TypeOK
  <1> QED BY <1>2, <1>3, <1>4, <1>5

LEMMA ParkHolds ==
  ASSUME IInv, NEW c \in Callers, Park(c)
  PROVE  IInv'
  <1> USE DEF IInv, Park
  <1>1. /\ In("running")' = In("running")
        /\ In("waiting")' = In("waiting") \cup {c} /\ c \notin In("waiting")
    BY DEF In, TypeOK
  <1>2. TypeOK'
    BY DEF TypeOK
  <1>3. SlotsAreConserved'
    BY <1>1 DEF SlotsAreConserved
  <1>4. WaitersAreParked'
    <2>1. /\ Len(waiters) \in Nat /\ Len(waiters') = Len(waiters) + 1
          /\ \A i \in 1..Len(waiters) : waiters'[i] = waiters[i]
          /\ waiters'[Len(waiters) + 1] = c
      BY DEF TypeOK
    <2>2. \A i \in 1..Len(waiters) : waiters[i] # c
      BY <1>1 DEF WaitersAreParked
    <2>3. \A i, j \in 1..Len(waiters') : waiters'[i] = waiters'[j] => i = j
      BY <2>1, <2>2 DEF WaitersAreParked
    <2>4. \A i \in 1..Len(waiters') : i \in 1..Len(waiters) \/ i = Len(waiters) + 1
      BY <2>1
    <2>5. /\ Len(waiters) + 1 \in 1..Len(waiters')
          /\ \A i \in 1..Len(waiters) : i \in 1..Len(waiters')
      BY <2>1
    <2>6. {waiters'[i] : i \in 1..Len(waiters')}
            = {waiters[i] : i \in 1..Len(waiters)} \cup {c}
      BY <2>1, <2>4, <2>5
    <2> QED BY <1>1, <2>3, <2>6 DEF WaitersAreParked
  <1>5. WindowsAreSpaced'
    BY DEF WindowsAreSpaced, TypeOK
  <1> QED BY <1>2, <1>3, <1>4, <1>5

LEMMA HandOverHolds ==
  ASSUME IInv, NEW c \in Callers, HandOver(c)
  PROVE  IInv'
  <1> USE DEF IInv, HandOver
  <1> PICK d : d = Head(waiters)
    OBVIOUS
  <1>1. /\ Len(waiters) \in Nat \ {0} /\ d = waiters[1]
        /\ Len(waiters') = Len(waiters) - 1
        /\ waiters' \in Seq(Callers)
        /\ \A i \in 1..Len(waiters') : waiters'[i] = waiters[i + 1]
    BY DEF TypeOK
  <1>2. d \in In("waiting") /\ d \in Callers /\ d # c
    BY <1>1 DEF WaitersAreParked, In
  <1>3. /\ In("running")' = (In("running") \ {c}) \cup {d}
        /\ In("waiting")' = In("waiting") \ {d}
        /\ c \in In("running") /\ d \notin In("running")
    BY <1>2 DEF In, TypeOK
  <1>4. TypeOK'
    <2>1. phase' \in [Callers -> {"idle", "sleeping", "waiting", "running"}]
      BY <1>2 DEF TypeOK
    <2> QED BY <1>1, <2>1 DEF TypeOK
  <1>5. SlotsAreConserved'
    <2>1. /\ IsFiniteSet(In("running") \ {c})
          /\ Cardinality(In("running") \ {c}) = Cardinality(In("running")) - 1
      BY <1>3, PhasesAreFinite, FS_RemoveElement
    <2>2. Cardinality((In("running") \ {c}) \cup {d}) = Cardinality(In("running") \ {c}) + 1
      BY <1>3, <2>1, FS_AddElement
    <2>3. Cardinality(In("running")') = Cardinality(In("running"))
      <3>1. Cardinality(In("running")) \in Nat
        BY PhasesAreFinite
      <3>2. Cardinality(In("running")') = Cardinality((In("running") \ {c}) \cup {d})
        BY <1>3
      <3> QED BY <2>1, <2>2, <3>1, <3>2
    <2> QED BY <2>3 DEF SlotsAreConserved
  <1>6. WaitersAreParked'
    <2>1. \A i \in 1..Len(waiters') : i + 1 \in 1..Len(waiters) /\ i + 1 # 1
      BY <1>1
    <2>2. \A i \in 1..Len(waiters) : i # 1 => i - 1 \in 1..Len(waiters') /\ (i - 1) + 1 = i
      BY <1>1
    <2>3. \A i, j \in 1..Len(waiters') : waiters'[i] = waiters'[j] => i = j
      <3> SUFFICES ASSUME NEW i \in 1..Len(waiters'), NEW j \in 1..Len(waiters'),
                          waiters'[i] = waiters'[j]
                   PROVE  i = j
        OBVIOUS
      <3>1. i + 1 = j + 1
        BY <1>1, <2>1 DEF WaitersAreParked
      <3> QED BY <3>1
    <2>4. \A x : x \in {waiters'[i] : i \in 1..Len(waiters')} <=> x \in In("waiting") \ {d}
      <3>1. ASSUME NEW i \in 1..Len(waiters') PROVE waiters'[i] \in In("waiting") \ {d}
        <4>1. waiters[i + 1] \in In("waiting") /\ waiters[i + 1] # waiters[1]
          BY <1>1, <2>1 DEF WaitersAreParked
        <4> QED BY <1>1, <4>1
      <3>2. ASSUME NEW x \in In("waiting") \ {d}
            PROVE  \E i \in 1..Len(waiters') : x = waiters'[i]
        <4>1. PICK j \in 1..Len(waiters) : x = waiters[j]
          BY <3>2 DEF WaitersAreParked
        <4>2. j # 1
          BY <1>1, <3>2, <4>1
        <4> QED BY <1>1, <2>2, <4>1, <4>2
      <3> QED BY <3>1, <3>2
    <2> QED BY <1>3, <2>3, <2>4 DEF WaitersAreParked
  <1>7. WindowsAreSpaced'
    BY <1>2 DEF WindowsAreSpaced, TypeOK, In
  <1> QED BY <1>4, <1>5, <1>6, <1>7

LEMMA GiveBackHolds ==
  ASSUME IInv, NEW c \in Callers, GiveBack(c)
  PROVE  IInv'
  <1> USE DEF IInv, GiveBack
  <1>1. /\ In("running")' = In("running") \ {c} /\ c \in In("running")
        /\ In("waiting")' = In("waiting")
    BY DEF In, TypeOK
  <1>2. SlotsAreConserved'
    <2>1. Cardinality(In("running")') = Cardinality(In("running")) - 1
      BY <1>1, PhasesAreFinite, FS_RemoveElement
    <2> QED BY <2>1, PhasesAreFinite, PoolAssumption DEF SlotsAreConserved, TypeOK
  <1>3. TypeOK'
    <2>1. Cardinality(In("running")') \in Nat
      <3>1. IsFiniteSet(In("running")')
        BY <1>1, PhasesAreFinite, FS_RemoveElement
      <3> QED BY <3>1, FS_CardinalityType
    <2>2. available' \in 0..Slots
      BY <1>2, <2>1, PoolAssumption DEF SlotsAreConserved, TypeOK
    <2> QED BY <2>2 DEF TypeOK
  <1>4. WaitersAreParked'
    BY <1>1 DEF WaitersAreParked
  <1>5. WindowsAreSpaced'
    BY DEF WindowsAreSpaced, TypeOK
  <1> QED BY <1>2, <1>3, <1>4, <1>5

LEMMA NextHolds == IInv /\ [Next]_vars => IInv'
  <1> SUFFICES ASSUME IInv, [Next]_vars PROVE IInv'
    OBVIOUS
  <1>1. CASE \E c \in Callers : Reserve(c) \/ TakeSlot(c) \/ Park(c) \/ HandOver(c) \/ GiveBack(c)
    BY <1>1, ReserveHolds, TakeSlotHolds, ParkHolds, HandOverHolds, GiveBackHolds
  <1>2. CASE Tick \/ UNCHANGED vars
    <2> USE <1>2 DEF IInv, Tick, vars
    <2>1. In("running")' = In("running") /\ In("waiting")' = In("waiting")
      BY DEF In
    <2>2. TypeOK'
      BY DEF TypeOK
    <2>3. SlotsAreConserved' /\ WaitersAreParked' /\ WindowsAreSpaced'
      BY <2>1 DEF SlotsAreConserved, WaitersAreParked, WindowsAreSpaced
    <2> QED BY <2>2, <2>3
  <1> QED BY <1>1, <1>2 DEF Next

(* The inductive invariant holds in every reachable state. *)
THEOREM Invariance == Spec => []IInv
  <1> QED BY InitHolds, NextHolds, PTL DEF Spec

(* Type correctness of the pool: every open call has a key and a window, and no
   more slots are free than there are. *)
THEOREM TypeCorrectness == Spec => []TypeOK
  <1>1. IInv => TypeOK
    BY DEF IInv
  <1> QED BY <1>1, Invariance, PTL

(* The semaphore of utils.ts:96-110 never loses nor invents a slot, and no slot
   is free while a call waits. *)
THEOREM SlotConservation == Spec => []SlotsAreConserved
  <1>1. IInv => SlotsAreConserved
    BY DEF IInv
  <1> QED BY <1>1, Invariance, PTL

(* Every parked call is in the queue once, and nobody else is in it. *)
THEOREM QueueIsExact == Spec => []WaitersAreParked
  <1>1. IInv => WaitersAreParked
    BY DEF IInv
  <1> QED BY <1>1, Invariance, PTL

(* reserveKey (utils.ts:68-82) gives every open call a window of its own, on
   any number of keys. *)
THEOREM ReservationsAreSpaced == Spec => []WindowsAreSpaced
  <1>1. IInv => WindowsAreSpaced
    BY DEF IInv
  <1> QED BY <1>1, Invariance, PTL
=============================================================================
