----------------------------- MODULE MCEventBus -----------------------------
(* The event bus with one service, the executive and one further agent. *)
EXTENDS EventBus

CONSTANTS agents_service, ceo, worker

MCServices == {agents_service}
MCAgents   == {ceo, worker}

=============================================================================
