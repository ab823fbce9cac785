---------------------------- MODULE MCDashboard ----------------------------
(* Small instances of Dashboard: a Workflow of one step. *)
EXTENDS Dashboard

CONSTANTS a, x

MCWorkflows == {[tasks |-> <<[name |-> a, spec |-> x]>>, notifyURL |-> FALSE]}
=============================================================================
