----------------------------- MODULE AtLeastOnce -----------------------------
(***************************************************************************)
(* What the durable bus promises its users (core/event-bus/index.ts:28-34  *)
(* and 179-183): an accepted item stays until it is settled, it is settled *)
(* only after it was handled, it may be handled again until then, and one  *)
(* recipient's items are handled in the order they were accepted, each     *)
(* after the previous one was settled.  The order is given up for a        *)
(* recipient whose backlog a restart passed over.                          *)
(***************************************************************************)
EXTENDS Naturals

CONSTANT Recipients

VARIABLES
  items,    \* accepted items by number: [to, state], state "queued", "handled", "settled"
  skipped   \* recipients whose backlog was passed over

Numbers == DOMAIN items

Init == Numbers = {} /\ skipped = {}

EarlierSettled(i) ==
  \A j \in Numbers : j < i /\ items[j].to = items[i].to => items[j].state = "settled"

(* An item is numbered as it is accepted, above all that were. *)
Accept(i, e) ==
  /\ i \in Nat /\ \A j \in Numbers : j < i
  /\ items' = [j \in Numbers \union {i} |->
                 IF j = i THEN [to |-> e, state |-> "queued"] ELSE items[j]]
  /\ UNCHANGED skipped

Handle(i) ==
  /\ items[i].state = "queued"
  /\ items[i].to \in skipped \/ EarlierSettled(i)
  /\ items' = [items EXCEPT ![i].state = "handled"]
  /\ UNCHANGED skipped

Settle(i) ==
  /\ items[i].state = "handled"
  /\ items' = [items EXCEPT ![i].state = "settled"]
  /\ UNCHANGED skipped

PassOver ==
  /\ skipped \subseteq skipped' /\ skipped' \subseteq Recipients
  /\ UNCHANGED items

Next ==
  \/ \E i \in Numbers' \ Numbers, e \in Recipients : Accept(i, e)
  \/ \E i \in Numbers : Handle(i) \/ Settle(i)
  \/ PassOver

Spec == Init /\ [][Next]_<<items, skipped>>

=============================================================================
