----------------------------- MODULE MCSupervisor -----------------------------
(* The constant of Supervisor's instance for TLC: one login request.        *)
EXTENDS Supervisor

CONSTANT s1
==============================================================================
