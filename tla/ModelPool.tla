----------------------------- MODULE ModelPool -----------------------------
(***************************************************************************)
(* The pool of API keys and request slots every model call goes through:   *)
(* reserveKey, acquire, release and withModel of core/utils.ts.            *)
(*                                                                         *)
(* A call reserves the key that frees up soonest, sleeps until the key's   *)
(* window, takes one of a limited number of slots, runs and gives the slot *)
(* back.  Each action is a stretch without an await.                       *)
(***************************************************************************)
EXTENDS Integers, Sequences, FiniteSets

CONSTANTS
  Callers,       \* agents and services that call models, one call at a time each
  KeyCount,      \* API_KEY_COUNT
  Slots,         \* MODEL_MAX_CONCURRENCY, at least 1
  MinInterval,   \* MIN_INTERVAL_MS
  MaxTime        \* bound on the clock

ASSUME PoolAssumption ==
  /\ KeyCount \in Nat \ {0}
  /\ Slots \in Nat \ {0}
  /\ MinInterval \in Nat \ {0}
  /\ MaxTime \in Nat

ASSUME CallersAssumption == IsFiniteSet(Callers)

Keys == 1..KeyCount

VARIABLES
  now,            \* Date.now()
  keyNextFreeAt,  \* earliest time at which each key may fire again
  available,      \* free slots
  waiters,        \* callers parked in acquire(), first come first
  phase,          \* what each caller is at: idle, sleeping, waiting, running
  key,            \* the key each open call has reserved
  window          \* the time from which each open call may use its key

vars == <<now, keyNextFreeAt, available, waiters, phase, key, window>>

In(p) == {c \in Callers : phase[c] = p}

(* The first of the keys that free up soonest. *)
Soonest(k) ==
  \A j \in Keys : \/ keyNextFreeAt[k] < keyNextFreeAt[j]
                  \/ keyNextFreeAt[k] = keyNextFreeAt[j] /\ k <= j

Init ==
  /\ now = 0
  /\ keyNextFreeAt = [k \in Keys |-> 0]
  /\ available = Slots
  /\ waiters = <<>>
  /\ phase = [c \in Callers |-> "idle"]
  /\ key = [c \in Callers |-> 1]
  /\ window = [c \in Callers |-> 0]

(* Mutation of Reserve: the window is advanced after the sleep, not before. *)
ReserveLate(c) ==
  /\ phase[c] = "idle"
  /\ \E k \in Keys :
       /\ Soonest(k)
       /\ LET earliest == IF now >= keyNextFreeAt[k] THEN now ELSE keyNextFreeAt[k]
          IN  /\ window' = [window EXCEPT ![c] = earliest]
              /\ UNCHANGED keyNextFreeAt
       /\ key' = [key EXCEPT ![c] = k]
  /\ phase' = [phase EXCEPT ![c] = "sleeping"]
  /\ UNCHANGED <<now, available, waiters>>

(* reserveKey() up to its sleep: the window of the key is advanced at once. *)
Reserve(c) ==
  /\ phase[c] = "idle"
  /\ \E k \in Keys :
       /\ Soonest(k)
       /\ LET earliest == IF now >= keyNextFreeAt[k] THEN now ELSE keyNextFreeAt[k]
          IN  /\ window' = [window EXCEPT ![c] = earliest]
              /\ keyNextFreeAt' = [keyNextFreeAt EXCEPT ![k] = earliest + MinInterval]
       /\ key' = [key EXCEPT ![c] = k]
  /\ phase' = [phase EXCEPT ![c] = "sleeping"]
  /\ UNCHANGED <<now, available, waiters>>

(* acquire(), when the window has come: take a free slot, or park. *)
TakeSlot(c) ==
  /\ phase[c] = "sleeping"
  /\ now >= window[c]
  /\ available > 0
  /\ available' = available - 1
  /\ phase' = [phase EXCEPT ![c] = "running"]
  /\ UNCHANGED <<now, keyNextFreeAt, waiters, key, window>>

Park(c) ==
  /\ phase[c] = "sleeping"
  /\ now >= window[c]
  /\ available = 0
  /\ waiters' = Append(waiters, c)
  /\ phase' = [phase EXCEPT ![c] = "waiting"]
  /\ UNCHANGED <<now, keyNextFreeAt, available, key, window>>

(* Mutation of HandOver: the slot is counted free as well. *)
HandOverTwice(c) ==
  /\ phase[c] = "running"
  /\ waiters # <<>>
  /\ waiters' = Tail(waiters)
  /\ available' = available + 1
  /\ phase' = [phase EXCEPT ![c] = "idle", ![Head(waiters)] = "running"]
  /\ UNCHANGED <<now, keyNextFreeAt, key, window>>

(* Mutation of HandOver: the slot is given back, nobody is woken. *)
HandOverToNobody(c) ==
  /\ phase[c] = "running"
  /\ waiters # <<>>
  /\ available' = available + 1
  /\ phase' = [phase EXCEPT ![c] = "idle"]
  /\ UNCHANGED <<now, keyNextFreeAt, waiters, key, window>>

(* release(), in the finally of withModel(): the call has returned or thrown;
   its slot goes straight to the first waiter, or back to the pool. *)
HandOver(c) ==
  /\ phase[c] = "running"
  /\ waiters # <<>>
  /\ waiters' = Tail(waiters)
  /\ phase' = [phase EXCEPT ![c] = "idle", ![Head(waiters)] = "running"]
  /\ UNCHANGED <<now, keyNextFreeAt, available, key, window>>

GiveBack(c) ==
  /\ phase[c] = "running"
  /\ waiters = <<>>
  /\ available' = available + 1
  /\ phase' = [phase EXCEPT ![c] = "idle"]
  /\ UNCHANGED <<now, keyNextFreeAt, waiters, key, window>>

(* Time passes while calls run and sleep. *)
Tick ==
  /\ now < MaxTime
  /\ now' = now + 1
  /\ UNCHANGED <<keyNextFreeAt, available, waiters, phase, key, window>>

Next == Tick \/ \E c \in Callers : Reserve(c) \/ TakeSlot(c) \/ Park(c) \/ HandOver(c) \/ GiveBack(c)

Spec == Init /\ [][Next]_vars

(* Timers fire, and every model call returns or throws in the end. *)
FairSpec ==
  /\ Spec
  /\ WF_vars(Tick)
  /\ \A c \in Callers : WF_vars(TakeSlot(c) \/ Park(c)) /\ WF_vars(HandOver(c) \/ GiveBack(c))

-----------------------------------------------------------------------------
(* Properties *)

(* Every variable ranges over the values the code can store in it. *)
TypeOK ==
  /\ now \in Nat
  /\ keyNextFreeAt \in [Keys -> Nat]
  /\ available \in 0..Slots
  /\ waiters \in Seq(Callers)
  /\ phase \in [Callers -> {"idle", "sleeping", "waiting", "running"}]
  /\ key \in [Callers -> Keys]
  /\ window \in [Callers -> Nat]

(* No slot is lost or invented, however calls and hand-overs interleave, and
   none is free while a call waits (utils.ts:96-110). *)
SlotsAreConserved ==
  /\ Cardinality(In("running")) + available = Slots
  /\ waiters # <<>> => available = 0

(* A call waits in the queue exactly once (utils.ts:101, 105). *)
WaitersAreParked ==
  /\ \A i, j \in 1..Len(waiters) : waiters[i] = waiters[j] => i = j
  /\ {waiters[i] : i \in 1..Len(waiters)} = In("waiting")

(* Open calls that share a key have windows MinInterval apart, and the key is
   not free before the last of them is over (utils.ts:74-76). *)
WindowsAreSpaced ==
  \A c, d \in Callers :
    phase[c] # "idle" /\ phase[d] # "idle" /\ key[c] = key[d] =>
      /\ c # d => window[c] >= window[d] + MinInterval \/ window[d] >= window[c] + MinInterval
      /\ keyNextFreeAt[key[c]] >= window[c] + MinInterval

(* A call that has reserved a key runs in the end, unless the clock of the
   model has stopped before its window.  It relies on the calls before it to
   give back their slots, by the fairness of HandOver and GiveBack: what they
   run is a tool loop that nothing caps (agents/index.ts:133), so withModel
   alone does not see to it. *)
ReservedCallsRun ==
  \A c \in Callers : phase[c] = "sleeping" ~> phase[c] = "running" \/ window[c] > MaxTime

=============================================================================
