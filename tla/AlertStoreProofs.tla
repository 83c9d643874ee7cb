-------------------------- MODULE AlertStoreProofs --------------------------
(***************************************************************************)
(* Facts about the pure part of the alert engine, for any set of rules,    *)
(* readings and streaks, and what each SQL statement of AlertStore         *)
(* preserves, for any table.                                               *)
(***************************************************************************)
EXTENDS AlertStore, FiniteSetTheorems, TLAPS

\* A comparison is a truth value for every operator, known or unknown.
LEMMA TriggeredIsBoolean ==
  ASSUME NEW rule, NEW readings
  PROVE  Triggered(rule, readings) \in BOOLEAN
BY DEF Triggered, compareThreshold

\* One reading keeps a streak a streak, and the streak counts at least it.
LEMMA NextBreachStateType ==
  ASSUME NEW state \in BreachState, NEW triggered \in BOOLEAN
  PROVE  /\ NextBreachState(state, triggered) \in BreachState
         /\ NextBreachState(state, triggered).Breaching = triggered
         /\ NextBreachState(state, triggered).Count \in Nat \ {0}
BY DEF NextBreachState, BreachState

\* There are only finitely many decisions to list.
LEMMA DecisionsFinite ==
  ASSUME NEW rules, NEW readings, NEW active, NEW streaks
  PROVE  IsFiniteSet(Decisions(rules, readings, active, streaks))
<1> DEFINE Kinds == {"create", "auto_resolve"}
           f == [p \in RuleIds \X Kinds |-> [rule |-> p[1], decision |-> p[2]]]
<1>1. IsFiniteSet(Kinds)
  <2>1. Kinds = {"create"} \cup {"auto_resolve"}
    OBVIOUS
  <2>2. IsFiniteSet({"create"})
    BY FS_Singleton, Zenon
  <2>3. IsFiniteSet({"create"} \cup {"auto_resolve"})
    BY <2>2, FS_AddElement
  <2>4. QED
    BY <2>1, <2>3
<1>2. IsFiniteSet(RuleIds \X Kinds)
  BY <1>1, FS_Product, RuleIdsAssumption
<1>3. f \in Surjection(RuleIds \X Kinds, RuleDecision)
  <2>1. f \in [RuleIds \X Kinds -> RuleDecision]
    BY DEF RuleDecision
  <2>2. ASSUME NEW d \in RuleDecision
        PROVE  \E p \in RuleIds \X Kinds : f[p] = d
    <3>1. <<d.rule, d.decision>> \in RuleIds \X Kinds
      BY DEF RuleDecision
    <3>2. f[<<d.rule, d.decision>>] = [rule |-> d.rule, decision |-> d.decision]
      BY <3>1
    <3>3. d = [rule |-> d.rule, decision |-> d.decision]
      BY DEF RuleDecision
    <3>4. QED
      BY <3>1, <3>2, <3>3
  <2>3. QED
    BY <2>1, <2>2, Zenon DEF Surjection
<1>4. IsFiniteSet(RuleDecision)
  BY <1>2, <1>3, FS_Surjection
<1>5. QED
  BY <1>4, FS_Subset DEF Decisions

\* Every list EvaluateRules may return is a sequence of decisions it took.
LEMMA DecisionListType ==
  ASSUME NEW rules, NEW readings, NEW active, NEW streaks,
         NEW ds \in DecisionLists(rules, readings, active, streaks)
  PROVE  /\ ds \in Seq(RuleDecision)
         /\ \A k \in DOMAIN ds : ds[k] \in Decisions(rules, readings, active, streaks)
<1> DEFINE D == Decisions(rules, readings, active, streaks)
<1>1. Cardinality(D) \in Nat
  BY DecisionsFinite, FS_CardinalityType
<1>2. ds \in [1..Cardinality(D) -> D]
  BY DEF DecisionLists, Orders, Injection
<1>3. D \subseteq RuleDecision
  BY DEF Decisions
<1>4. QED
  BY <1>1, <1>2, <1>3

\* It lists every decision, and no rule twice.
LEMMA DecisionListComplete ==
  ASSUME NEW rules, NEW readings, NEW active, NEW streaks,
         NEW ds \in DecisionLists(rules, readings, active, streaks)
  PROVE  /\ \A d \in Decisions(rules, readings, active, streaks) :
              \E k \in DOMAIN ds : ds[k] = d
         /\ \A k, l \in DOMAIN ds : ds[k].rule = ds[l].rule => k = l
<1> DEFINE D == Decisions(rules, readings, active, streaks)
           n == Cardinality(D)
<1>1. IsFiniteSet(D) /\ n \in Nat
  BY DecisionsFinite, FS_CardinalityType
<1>2. /\ ds \in Injection(1..n, D) /\ ds \in [1..n -> D]
      /\ \A i, j \in 1..n : i # j => ds[i] # ds[j]
  BY DEF DecisionLists, Orders, Injection, IsInjective
<1>3. \A d, e \in D : d.rule = e.rule => d = e
  <2> TAKE d, e \in D
  <2> HAVE d.rule = e.rule
  <2>1. d \in RuleDecision /\ e \in RuleDecision /\ d.decision = e.decision
    BY DEF Decisions, RuleDecision
  <2>2. QED
    BY <2>1 DEF RuleDecision
<1> HIDE DEF D
<1>5. Cardinality(1..n) = n
  BY <1>1, FS_Interval
<1>6. ds \in Surjection(1..n, D)
  BY <1>1, <1>2, <1>5, FS_Injection
<1>7. \A d \in D : \E k \in 1..n : ds[k] = d
  BY <1>6 DEF Surjection
<1>8. DOMAIN ds = 1..n
  BY <1>2
<1> HIDE DEF n
<1>9. \A k, l \in DOMAIN ds : ds[k].rule = ds[l].rule => k = l
  BY <1>2, <1>3, <1>8
<1>10. QED
  BY <1>7, <1>8, <1>9 DEF D

-----------------------------------------------------------------------------
\* INSERT INTO alerts (ApplyDecisions).
LEMMA InsertAlertType ==
  ASSUME StoreTypeOK, NEW r \in RuleIds, NEW d \in Devices, NEW at \in Nat,
         InsertAlert(r, d, at)
  PROVE  StoreTypeOK'
<1>1. NewAlert(r, d, at) \in Alert
  BY DEF NewAlert, Alert, Status
<1>2. QED
  BY <1>1 DEF StoreTypeOK, InsertAlert

\* UPDATE alerts ... WHERE alert_rule_id = r and active (ApplyDecisions).
LEMMA AutoResolveType ==
  ASSUME StoreTypeOK, NEW r \in RuleIds, NEW at \in Nat, AutoResolveAlerts(r, at)
  PROVE  /\ StoreTypeOK'
         /\ DOMAIN alerts' = DOMAIN alerts
<1>1. /\ Len(alerts) \in Nat
      /\ DOMAIN alerts = 1..Len(alerts)
      /\ \A i \in DOMAIN alerts : alerts[i] \in Alert
  BY DEF StoreTypeOK
<1>2. ASSUME NEW i \in DOMAIN alerts
      PROVE  [alerts[i] EXCEPT !.status = "resolved", !.resolved_at = at] \in Alert
  BY <1>1, Zenon DEF Alert, Status
<1>3. alerts' \in [1..Len(alerts) -> Alert]
  BY <1>1, <1>2, Zenon DEF AutoResolveAlerts
<1>4. alerts' \in Seq(Alert)
  BY <1>1, <1>3
<1>5. QED
  BY <1>1, <1>3, <1>4, Zenon DEF StoreTypeOK, AutoResolveAlerts

\* Replacing one row by another alert keeps the table well formed.
LEMMA RowUpdate ==
  ASSUME StoreTypeOK, NEW i \in DOMAIN alerts, NEW row \in Alert,
         alerts' = [alerts EXCEPT ![i] = row], UNCHANGED alert_rules
  PROVE  /\ StoreTypeOK'
         /\ DOMAIN alerts' = DOMAIN alerts
<1>1. alerts \in Seq(Alert) /\ DOMAIN alerts = 1..Len(alerts)
  BY DEF StoreTypeOK
<1>2. alerts' \in Seq(Alert)
  <2>1. PICK n \in Nat : alerts' \in [1..n -> Alert]
    BY <1>1
  <2>2. PICK s \in [1..n -> Alert] : alerts' = s
    BY <2>1, Zenon
  <2>3. s \in Seq(Alert)
    OBVIOUS
  <2>4. QED
    BY <2>2, <2>3, Zenon
<1>3. QED
  BY <1>2 DEF StoreTypeOK

\* UPDATE of one alert by acknowledgeAlert.
LEMMA AcknowledgeType ==
  ASSUME StoreTypeOK, NEW i \in DOMAIN alerts, NEW u \in Users, NEW now \in Nat,
         AcknowledgeAlert(i, u, now)
  PROVE  /\ StoreTypeOK'
         /\ DOMAIN alerts' = DOMAIN alerts
<1> DEFINE row == [alerts[i] EXCEPT !.status = "acknowledged", !.acknowledged_at = now,
                                    !.acknowledged_by = u]
<1>1. alerts[i] \in Alert
  BY DEF StoreTypeOK
<1>2. row \in Alert
  BY <1>1, Zenon DEF Alert, Status
<1>3. alerts' = [alerts EXCEPT ![i] = row]
  BY Zenon DEF AcknowledgeAlert
<1>4. QED
  BY <1>2, <1>3, RowUpdate, Zenon DEF AcknowledgeAlert

\* UPDATE of one alert by resolveAlert.
LEMMA ResolveType ==
  ASSUME StoreTypeOK, NEW i \in DOMAIN alerts, NEW u \in Users, NEW now \in Nat,
         ResolveAlert(i, u, now)
  PROVE  /\ StoreTypeOK'
         /\ DOMAIN alerts' = DOMAIN alerts
<1> DEFINE row == [alerts[i] EXCEPT !.status = "resolved", !.resolved_at = now,
                                    !.resolved_by = u]
<1>1. alerts[i] \in Alert
  BY DEF StoreTypeOK
<1>2. row \in Alert
  BY <1>1, Zenon DEF Alert, Status
<1>3. alerts' = [alerts EXCEPT ![i] = row]
  BY Zenon DEF ResolveAlert
<1>4. QED
  BY <1>2, <1>3, RowUpdate, Zenon DEF ResolveAlert

\* A request body the schema accepts yields a rule.
LEMMA RuleFromType ==
  ASSUME NEW d \in Devices, NEW in \in RuleInputs, in.operator \in Operators
  PROVE  RuleFrom(d, in) \in Rule
BY RuleInputsAssumption, Zenon DEF RuleFrom, Rule, RuleInput

\* The three statements on alert_rules.
LEMMA EditRuleType ==
  ASSUME StoreTypeOK, NEW r \in RuleIds,
         \/ \E d \in Devices, in \in RuleInputs : InsertRule(r, d, in)
         \/ \E in \in RuleInputs : UpdateRule(r, in)
         \/ DeleteRule(r)
  PROVE  StoreTypeOK'
<1>1. CASE \E d \in Devices, in \in RuleInputs : InsertRule(r, d, in)
  BY <1>1, RuleFromType, Zenon DEF StoreTypeOK, InsertRule
<1>2. CASE \E in \in RuleInputs : UpdateRule(r, in)
  <2>1. PICK in \in RuleInputs : UpdateRule(r, in)
    BY <1>2
  <2>2. alert_rules[r].device_id \in Devices
    BY <2>1, Zenon DEF UpdateRule, LiveRules, Rule
  <2>3. RuleFrom(alert_rules[r].device_id, in) \in Rule
    BY <2>1, <2>2, RuleFromType DEF UpdateRule
  <2>4. QED
    BY <2>1, <2>3 DEF StoreTypeOK, UpdateRule
<1>3. CASE DeleteRule(r)
  BY <1>3 DEF StoreTypeOK, DeleteRule
<1>4. QED
  BY <1>1, <1>2, <1>3

-----------------------------------------------------------------------------
\* What the four statements on alerts do to each row.
Cleared(a, at) == [a EXCEPT !.status = "resolved", !.resolved_at = at]
Acknowledged(a, now, u) ==
  [a EXCEPT !.status = "acknowledged", !.acknowledged_at = now, !.acknowledged_by = u]
Resolved(a, now, u) ==
  [a EXCEPT !.status = "resolved", !.resolved_at = now, !.resolved_by = u]

\* The rows of the table and their places.
LEMMA RowTypes ==
  ASSUME StoreTypeOK
  PROVE  \A i \in DOMAIN alerts : i \in Nat /\ alerts[i] \in Alert
BY DEF StoreTypeOK

LEMMA InsertRows ==
  ASSUME StoreTypeOK, NEW r \in RuleIds, NEW d \in Devices, NEW at \in Nat,
         InsertAlert(r, d, at), NEW i \in DOMAIN alerts'
  PROVE  \/ i \in DOMAIN alerts /\ alerts'[i] = alerts[i]
         \/ i \notin DOMAIN alerts /\ alerts'[i] = NewAlert(r, d, at)
<1>1. /\ alerts' = Append(alerts, NewAlert(r, d, at))
      /\ alerts \in Seq(Alert) /\ NewAlert(r, d, at) \in Alert
  BY DEF InsertAlert, StoreTypeOK, NewAlert, Alert, Status
<1>2. QED
  BY <1>1

LEMMA AutoResolveRows ==
  ASSUME StoreTypeOK, NEW r \in RuleIds, NEW at \in Nat, AutoResolveAlerts(r, at),
         NEW i \in DOMAIN alerts'
  PROVE  /\ i \in DOMAIN alerts
         /\ \/ alerts'[i] = alerts[i]
            \/ /\ alerts[i].alert_rule_id = r /\ Active(alerts[i])
               /\ alerts'[i] = Cleared(alerts[i], at)
BY Zenon DEF AutoResolveAlerts, Cleared

LEMMA RequestRows ==
  ASSUME StoreTypeOK, NEW i \in DOMAIN alerts, NEW u \in Users, NEW now \in Nat,
         AcknowledgeAlert(i, u, now) \/ ResolveAlert(i, u, now), NEW j \in DOMAIN alerts'
  PROVE  /\ j \in DOMAIN alerts
         /\ \/ alerts'[j] = alerts[j]
            \/ /\ j = i /\ alerts[j].status = "open"
               /\ alerts'[j] = Acknowledged(alerts[j], now, u)
            \/ /\ j = i /\ Active(alerts[j])
               /\ alerts'[j] = Resolved(alerts[j], now, u)
<1>1. CASE AcknowledgeAlert(i, u, now)
  BY <1>1, Zenon DEF AcknowledgeAlert, Acknowledged
<1>2. CASE ResolveAlert(i, u, now)
  BY <1>2, Zenon DEF ResolveAlert, Active, Resolved
<1>3. QED
  BY <1>1, <1>2

-----------------------------------------------------------------------------
\* The rows of a query: some order of a finite set, of which LIMIT and OFFSET
\* keep a part.
LEMMA InSomeOrder ==
  ASSUME NEW S, IsFiniteSet(S), NEW s \in Orders(S)
  PROVE  /\ Cardinality(S) \in Nat /\ s \in Seq(S) /\ Len(s) = Cardinality(S)
         /\ \A j, k \in 1..Len(s) : s[j] = s[k] => j = k
         /\ \A x \in S : \E k \in 1..Len(s) : s[k] = x
<1> DEFINE n == Cardinality(S)
<1>1. n \in Nat
  BY FS_CardinalityType
<1>2. /\ s \in Injection(1..n, S) /\ s \in [1..n -> S]
      /\ \A j, k \in 1..n : j # k => s[j] # s[k]
  BY DEF Orders, Injection, IsInjective
<1>3. s \in Seq(S) /\ Len(s) = n
  BY <1>1, <1>2
<1>5. Cardinality(1..n) = n
  BY <1>1, FS_Interval
<1>6. s \in Surjection(1..n, S)
  BY <1>2, <1>5, FS_Injection
<1>7. QED
  BY <1>1, <1>2, <1>3, <1>6 DEF Surjection

LEMMA PartInOrder ==
  ASSUME NEW S, NEW s \in Seq(S), NEW m \in Nat, NEW n \in Nat, m # 0, n <= Len(s)
  PROVE  /\ SubSeq(s, m, n) \in Seq(S)
         /\ Len(SubSeq(s, m, n)) = IF m <= n THEN (n - m) + 1 ELSE 0
         /\ \A k \in 1..Len(SubSeq(s, m, n)) :
              (k + m) - 1 \in m..n /\ SubSeq(s, m, n)[k] = s[(k + m) - 1]
BY SMT, Z3
=============================================================================
