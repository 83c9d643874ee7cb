---------------------------- MODULE MCDashboard -----------------------------
(***************************************************************************)
(* An instance of Dashboard for TLC: the page shows alerts of any status.  *)
(***************************************************************************)
EXTENDS Dashboard, MCApi

CONSTANT missing

AllAlerts == [site_id |-> "", status |-> "", device_id |-> "", limit |-> missing, offset |-> missing]
=============================================================================
