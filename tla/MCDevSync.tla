----------------------------- MODULE MCDevSync -----------------------------
(* Three ranks on a card run every program of up to MaxCount phases.       *)
EXTENDS DevSync
=============================================================================
