----------------------------- MODULE AlertStore -----------------------------
(***************************************************************************)
(* The alert tables in Postgres (infra/postgres/init.sql) and every        *)
(* statement either service runs against them.  Each statement commits on  *)
(* its own: neither service opens a transaction.  A statement here is the  *)
(* effect of one successful execution, with the constraints Postgres       *)
(* enforces (foreign keys with ON DELETE RESTRICT, the CHECK on operator)  *)
(* as its guard.                                                           *)
(*                                                                         *)
(* alerts is a sequence because no code deletes an alert: an alert's       *)
(* position stands for its id.  A rule id is never used twice, which is    *)
(* why a deleted row differs from one never inserted.  Severity and        *)
(* triggered_value are copied and never read back by a decision; they are  *)
(* left out.                                                               *)
(***************************************************************************)
EXTENDS AlertEngine

CONSTANTS Devices,       \* registered devices
          Metrics,       \* metric names a reading may carry
          Users,         \* rows of users
          RuleInputs,    \* bodies of POST and PATCH /alert-rules
          DroppedRule,   \* a deleted row
          NoUser,        \* SQL NULL in a user column
          Never          \* SQL NULL in a timestamp column

VARIABLES alert_rules, alerts

Rule == [device_id : Devices, metric : Metrics \cup {""}, operator : Operators,
         threshold : Int, enabled : BOOLEAN]

\* AlertRuleInput: enabled is a pointer, so the body may leave it out.
RuleInput == [metric : Metrics \cup {""}, operator : STRING, threshold : Int,
              enabled : {"true", "false", "omitted"}]

ASSUME RuleInputsAssumption == RuleInputs \subseteq RuleInput
ASSUME RowMarkersAssumption == NoRule \notin Rule /\ DroppedRule \notin Rule
                               /\ NoRule # DroppedRule
ASSUME NullsAssumption == Never \notin Nat /\ NoUser \notin Users

Status == {"open", "acknowledged", "resolved"}
ActiveStatus == {"open", "acknowledged"}

Alert == [alert_rule_id : RuleIds, device_id : Devices, status : Status,
          triggered_at : Nat,
          acknowledged_at : Nat \cup {Never}, acknowledged_by : Users \cup {NoUser},
          resolved_at : Nat \cup {Never}, resolved_by : Users \cup {NoUser}]

StoreTypeOK ==
  /\ alert_rules \in [RuleIds -> Rule \cup {NoRule, DroppedRule}]
  /\ alerts \in Seq(Alert)

LiveRules == {r \in RuleIds : alert_rules[r] \in Rule}

Active(a) == a.status \in ActiveStatus

-----------------------------------------------------------------------------
\* Queries of the ingestion service.
\* (Mutant of EnabledRules: the WHERE clause forgets the device.)
EnabledRulesOfAnyDevice(device) ==
  [r \in RuleIds |-> IF r \in LiveRules /\ alert_rules[r].enabled
                       THEN alert_rules[r] ELSE NoRule]

EnabledRules(device) ==
  [r \in RuleIds |-> IF r \in LiveRules /\ alert_rules[r].device_id = device
                                        /\ alert_rules[r].enabled
                       THEN alert_rules[r] ELSE NoRule]

\* Mutant: an acknowledged alert does not count as active.
OpenRuleIDs(device) ==
  {alerts[i].alert_rule_id :
     i \in {k \in DOMAIN alerts : alerts[k].device_id = device /\ alerts[k].status = "open"}}

ActiveRuleIDs(device) ==
  {alerts[i].alert_rule_id :
     i \in {k \in DOMAIN alerts : alerts[k].device_id = device /\ Active(alerts[k])}}

\* Writes of the ingestion service (ApplyDecisions).
NewAlert(rule, device, at) ==
  [alert_rule_id |-> rule, device_id |-> device, status |-> "open",
   triggered_at |-> at, acknowledged_at |-> Never, acknowledged_by |-> NoUser,
   resolved_at |-> Never, resolved_by |-> NoUser]

InsertAlert(rule, device, at) ==
  /\ rule \in LiveRules
  /\ alerts' = Append(alerts, NewAlert(rule, device, at))
  /\ UNCHANGED alert_rules

\* Mutants: auto-resolve misses acknowledged alerts, or rewrites resolved ones.
AutoResolveOpen(rule, at) ==
  /\ alerts' = [i \in DOMAIN alerts |->
                  IF alerts[i].alert_rule_id = rule /\ alerts[i].status = "open"
                    THEN [alerts[i] EXCEPT !.status = "resolved", !.resolved_at = at]
                    ELSE alerts[i]]
  /\ UNCHANGED alert_rules

AutoResolveAnyStatus(rule, at) ==
  /\ alerts' = [i \in DOMAIN alerts |->
                  IF alerts[i].alert_rule_id = rule
                    THEN [alerts[i] EXCEPT !.status = "resolved", !.resolved_at = at,
                                           !.resolved_by = NoUser]
                    ELSE alerts[i]]
  /\ UNCHANGED alert_rules

AutoResolveAlerts(rule, at) ==
  /\ alerts' = [i \in DOMAIN alerts |->
                  IF alerts[i].alert_rule_id = rule /\ Active(alerts[i])
                    THEN [alerts[i] EXCEPT !.status = "resolved", !.resolved_at = at]
                    ELSE alerts[i]]
  /\ UNCHANGED alert_rules

-----------------------------------------------------------------------------
\* Writes of the API.
\* Mutant: the UPDATE does not look at the status.
AcknowledgeAny(i, user, now) ==
  /\ alerts' = [alerts EXCEPT ![i].status = "acknowledged",
                              ![i].acknowledged_at = now,
                              ![i].acknowledged_by = user]
  /\ UNCHANGED alert_rules

AcknowledgeAlert(i, user, now) ==
  /\ alerts[i].status = "open"
  /\ alerts' = [alerts EXCEPT ![i].status = "acknowledged",
                              ![i].acknowledged_at = now,
                              ![i].acknowledged_by = user]
  /\ UNCHANGED alert_rules

ResolveAlert(i, user, now) ==
  /\ alerts[i].status \in ActiveStatus
  /\ alerts' = [alerts EXCEPT ![i].status = "resolved",
                              ![i].resolved_at = now,
                              ![i].resolved_by = user]
  /\ UNCHANGED alert_rules

\* An omitted "enabled" means true, on create and on update alike.
RuleFrom(device, in) ==
  [device_id |-> device, metric |-> in.metric, operator |-> in.operator,
   threshold |-> in.threshold, enabled |-> in.enabled # "false"]

InsertRule(r, device, in) ==
  /\ alert_rules[r] = NoRule
  /\ in.metric # "" /\ in.operator \in Operators
  /\ alert_rules' = [alert_rules EXCEPT ![r] = RuleFrom(device, in)]
  /\ UNCHANGED alerts

\* Every column but device_id is overwritten; only the CHECK validates.
UpdateRule(r, in) ==
  /\ r \in LiveRules
  /\ in.operator \in Operators
  /\ alert_rules' = [alert_rules EXCEPT ![r] = RuleFrom(@.device_id, in)]
  /\ UNCHANGED alerts

DeleteRule(r) ==
  /\ r \in LiveRules
  /\ \A i \in DOMAIN alerts : alerts[i].alert_rule_id # r
  /\ alert_rules' = [alert_rules EXCEPT ![r] = DroppedRule]
  /\ UNCHANGED alerts

-----------------------------------------------------------------------------
\* An alert's rule still exists and belongs to the alert's device, whatever
\* rules were edited between loading them and writing the alert.
AlertsReferToTheirRule ==
  \A i \in DOMAIN alerts :
    /\ alerts[i].alert_rule_id \in LiveRules
    /\ alert_rules[alerts[i].alert_rule_id].device_id = alerts[i].device_id

\* An alert as the abstract life of an alert sees it.
AlertLog ==
  [i \in DOMAIN alerts |->
     [rule |-> alerts[i].alert_rule_id, status |-> alerts[i].status,
      acknowledged_by |-> alerts[i].acknowledged_by,
      resolved_by |-> alerts[i].resolved_by]]

Lifecycle == INSTANCE AlertLifecycle WITH
  Rules <- RuleIds, People <- Users, Nobody <- NoUser, log <- AlertLog

\* The alerts table implements the abstract life of an alert: raised open,
\* acknowledged at most once, closed once and for good, by a person or unsigned
\* by the engine, whatever the two services do to it concurrently.
ImplementsLifecycle == Lifecycle!LifecycleSpec
=============================================================================
