----------------------------- MODULE MCAuditor -----------------------------
(* An instance of Auditor for TLC: an engineering worker and a researcher. *)
EXTENDS Auditor

CONSTANTS engineer, researcher

MCWorkers == {engineer, researcher}
MCCoding  == {engineer}

=============================================================================
