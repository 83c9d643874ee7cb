-------------------------- MODULE SequentialProofs --------------------------
(***************************************************************************)
(* What the alert engine promises when INGESTION_WORKER_COUNT is 1, for    *)
(* every rule set, debounce length, failure, restart and request: an       *)
(* evaluation settles its rules, and duplicates need a failed attempt.     *)
(* With a second worker each of these statements is false.                 *)
(***************************************************************************)
EXTENDS IngestionProofs

\* Messages are evaluated against the table as it is: what LoadActiveRuleIDs
\* returned still describes it, but for alerts people closed since.
Raised(r) == ActiveAlerts(r) # {} \/ ClosedByAPerson(r)

KnowsActive(wk) ==
  wk.stage = "evaluate" =>
    \A r \in RuleIds : wk.rules[r] # NoRule =>
      IF r \in wk.active THEN Raised(r) ELSE ActiveAlerts(r) = {}

\* A decision is taken in the direction of the rule's streak, once per rule.
FollowsStreaks(wk) ==
  wk.stage = "apply" => \A k \in DOMAIN wk.decisions :
    wk.decisions[k].decision = "create" <=> streaks[wk.decisions[k].rule].Breaching

OncePerRule(wk) ==
  wk.stage = "apply" => \A k, l \in DOMAIN wk.decisions :
    wk.decisions[k].rule = wk.decisions[l].rule => k = l

\* A rule evaluated by the message in hand is settled or its decision is still to
\* be written in this attempt.
Pending(wk, r) == \E k \in DOMAIN wk.decisions : wk.next <= k /\ wk.decisions[k].rule = r

WillSettle(wk) ==
  wk.stage = "apply" =>
    \A r \in Evaluated(wk.rules, wk.job.payload.readings) : Settled(r) \/ Pending(wk, r)

HealInv == \A w \in Workers :
  KnowsActive(worker[w]) /\ FollowsStreaks(worker[w]) /\ WillSettle(worker[w])

\* How many active alerts the attempts so far can have left.
CreatesCounted(wk) ==
  wk.stage = "apply" => \A k \in DOMAIN wk.decisions :
    wk.decisions[k].decision = "create" =>
      Cardinality(ActiveAlerts(wk.decisions[k].rule))
        <= IF k < wk.next THEN wk.attempt ELSE wk.attempt - 1

\* No call failed, and no rule was deleted under a worker's feet.
Undisturbed == /\ used.faults = 0 /\ used.lost = 0
               /\ \A r \in RuleIds : alert_rules[r] # DroppedRule

FirstAttempt(wk) == wk.attempt = 1 \/ (wk.stage = "apply" /\ (Undisturbed => ctxDone))

DuplicatesInv ==
  /\ \A w \in Workers : /\ OncePerRule(worker[w]) /\ CreatesCounted(worker[w])
                        /\ FirstAttempt(worker[w])
  /\ \A r \in RuleIds :
       Cardinality(ActiveAlerts(r)) <= IF Undisturbed THEN 1 ELSE maxAttempts

-----------------------------------------------------------------------------
\* What the statements on alerts do to the active alerts of a rule.
LEMMA InsertActive ==
  ASSUME StoreTypeOK, NEW r \in RuleIds, NEW d \in Devices, NEW at \in Nat,
         InsertAlert(r, d, at), NEW q \in RuleIds
  PROVE  /\ ActiveAlerts(q)' = IF q = r THEN ActiveAlerts(q) \cup {Len(alerts) + 1}
                                        ELSE ActiveAlerts(q)
         /\ ClosedByAPerson(q) => ClosedByAPerson(q)'
<1> DEFINE new == NewAlert(r, d, at)
<1>1. /\ alerts' = Append(alerts, new) /\ alerts \in Seq(Alert) /\ new \in Alert
      /\ new.alert_rule_id = r /\ Active(new)
  BY DEF InsertAlert, StoreTypeOK, NewAlert, Alert, Status, Active, ActiveStatus
<1> HIDE DEF new
<1>2. /\ DOMAIN alerts = 1..Len(alerts) /\ DOMAIN alerts' = 1..(Len(alerts) + 1)
      /\ alerts'[Len(alerts) + 1] = new /\ Len(alerts) \in Nat
      /\ \A i \in 1..Len(alerts) : alerts'[i] = alerts[i]
  BY <1>1
<1>3. ClosedByAPerson(q) => ClosedByAPerson(q)'
  BY <1>2, SMT, Z3 DEF ClosedByAPerson
<1>4. ActiveAlerts(q)' = IF q = r THEN ActiveAlerts(q) \cup {Len(alerts) + 1}
                                  ELSE ActiveAlerts(q)
  BY <1>1, <1>2 DEF ActiveAlerts, Active
<1>5. QED
  BY <1>3, <1>4

LEMMA AutoResolveActive ==
  ASSUME StoreTypeOK, NEW r \in RuleIds, NEW at \in Nat, AutoResolveAlerts(r, at),
         NEW q \in RuleIds
  PROVE  /\ ActiveAlerts(q)' = IF q = r THEN {} ELSE ActiveAlerts(q)
         /\ ClosedByAPerson(q) => ClosedByAPerson(q)'
<1>1. /\ DOMAIN alerts' = DOMAIN alerts /\ \A i \in DOMAIN alerts : alerts[i] \in Alert
      /\ \A i \in DOMAIN alerts :
           alerts'[i] = IF alerts[i].alert_rule_id = r /\ Active(alerts[i])
                          THEN Cleared(alerts[i], at) ELSE alerts[i]
  <2>1. DOMAIN alerts' = DOMAIN alerts /\ \A i \in DOMAIN alerts : alerts[i] \in Alert
    BY AutoResolveType DEF StoreTypeOK
  <2>2. QED
    BY <2>1, Zenon DEF AutoResolveAlerts, Cleared
<1>2. \A a \in Alert : /\ Cleared(a, at).alert_rule_id = a.alert_rule_id
                       /\ Cleared(a, at).resolved_by = a.resolved_by
                       /\ ~Active(Cleared(a, at))
  BY DEF Cleared, Alert, Active, ActiveStatus
<1>3. ClosedByAPerson(q) => ClosedByAPerson(q)'
  BY <1>1, <1>2, Zenon DEF ClosedByAPerson
<1>4. ActiveAlerts(q)' = IF q = r THEN {} ELSE ActiveAlerts(q)
  <2>1. ActiveAlerts(q)' = {i \in DOMAIN alerts : alerts'[i].alert_rule_id = q /\ Active(alerts'[i])}
    BY <1>1, Zenon DEF ActiveAlerts, Active
  <2>2. QED
    BY <1>1, <1>2, <2>1, Zenon DEF ActiveAlerts
<1>5. QED
  BY <1>3, <1>4

LEMMA RequestActive ==
  ASSUME StoreTypeOK, NEW i \in DOMAIN alerts, NEW u \in Users, NEW now \in Nat,
         AcknowledgeAlert(i, u, now) \/ ResolveAlert(i, u, now), NEW q \in RuleIds
  PROVE  /\ ActiveAlerts(q)' \subseteq ActiveAlerts(q)
         /\ Raised(q) => Raised(q)'
<1>1. /\ DOMAIN alerts' = DOMAIN alerts
      /\ \A j \in DOMAIN alerts : alerts[j] \in Alert
  BY AcknowledgeType, ResolveType, SMT, Z3 DEF StoreTypeOK
<1>2. ASSUME NEW j \in DOMAIN alerts
      PROVE  /\ alerts'[j].alert_rule_id = alerts[j].alert_rule_id
             /\ Active(alerts'[j]) => Active(alerts[j])
             /\ \/ /\ Active(alerts[j]) => Active(alerts'[j])
                   /\ alerts'[j].resolved_by = alerts[j].resolved_by
                \/ alerts'[j].resolved_by = u
  <2>1. \/ alerts'[j] = alerts[j]
        \/ alerts[j].status = "open" /\ alerts'[j] = Acknowledged(alerts[j], now, u)
        \/ Active(alerts[j]) /\ alerts'[j] = Resolved(alerts[j], now, u)
    BY <1>1, RequestRows
  <2>2. alerts[j] \in Alert
    BY <1>1
  <2>3. CASE alerts'[j] = alerts[j]
    BY <2>3
  <2>4. CASE alerts[j].status = "open" /\ alerts'[j] = Acknowledged(alerts[j], now, u)
    BY <2>2, <2>4 DEF Acknowledged, Alert, Active, ActiveStatus
  <2>5. CASE Active(alerts[j]) /\ alerts'[j] = Resolved(alerts[j], now, u)
    BY <2>2, <2>5 DEF Resolved, Alert
  <2>6. QED
    BY <2>1, <2>3, <2>4, <2>5
<1>3. ActiveAlerts(q)' = {j \in DOMAIN alerts : alerts'[j].alert_rule_id = q /\ Active(alerts'[j])}
  BY <1>1 DEF ActiveAlerts, Active
<1>4. ClosedByAPerson(q)' <=> \E j \in DOMAIN alerts :
                                alerts'[j].alert_rule_id = q /\ alerts'[j].resolved_by # NoUser
  BY <1>1 DEF ClosedByAPerson
<1>5. Raised(q)' <=> ActiveAlerts(q)' # {} \/ ClosedByAPerson(q)'
  BY DEF Raised
<1>6. QED
  BY <1>2, <1>3, <1>4, <1>5, NullsAssumption, Zenon DEF Raised, ActiveAlerts, ClosedByAPerson

\* There are finitely many alerts to count.
LEMMA ActiveFinite ==
  ASSUME StoreTypeOK, NEW q
  PROVE  /\ IsFiniteSet(ActiveAlerts(q)) /\ Cardinality(ActiveAlerts(q)) \in Nat
         /\ Len(alerts) + 1 \notin ActiveAlerts(q)
<1>1. DOMAIN alerts = 1..Len(alerts) /\ Len(alerts) \in Nat
  BY SMT, Z3 DEF StoreTypeOK
<1>2. IsFiniteSet(1..Len(alerts)) /\ ActiveAlerts(q) \subseteq 1..Len(alerts)
  BY <1>1, FS_Interval, SMT, Z3 DEF ActiveAlerts
<1>3. QED
  BY <1>1, <1>2, FS_Subset, FS_CardinalityType, SMT, Z3

LEMMA EvaluateOrigin ==
  ASSUME TypeOK, NEW w \in Workers, WorkerStep(w), worker'[w].stage = "evaluate"
  PROVE  /\ worker[w].stage = "active" /\ UNCHANGED storeVars
         /\ worker'[w].rules = worker[w].rules /\ worker'[w].job = worker[w].job
         /\ worker'[w].active = ActiveRuleIDs(Device(w))
<1>0. worker \in [Workers -> WorkerType] /\ worker[w] \in WorkerType
  BY Zenon DEF TypeOK
<1>1. CASE TakeJob(w) \/ StopWorker(w)
  BY <1>0, <1>1, Zenon DEF TakeJob, StopWorker, Goto, WorkerType
<1>2. CASE WriteTelemetry(w)
  BY <1>0, <1>2, SMT, Z3 DEF WriteTelemetry, Return, IdleWorker, WorkerType
<1>3. CASE CheckLastSeen(w) \/ UpdateLastSeen(w)
  BY <1>0, <1>3, SMT, Z3 DEF CheckLastSeen, UpdateLastSeen, Goto, WorkerType
<1>4. CASE LoadEnabledRules(w)
  BY <1>0, <1>4 DEF LoadEnabledRules, Return, IdleWorker, WorkerType
<1>5. CASE LoadActiveRuleIDs(w)
  <2> DEFINE active == ActiveRuleIDs(Device(w))
  <2>1. worker' = [worker EXCEPT ![w].stage = "evaluate", ![w].active = active]
    BY <1>0, <1>5 DEF LoadActiveRuleIDs, Return, IdleWorker
  <2> HIDE DEF active
  <2>2. /\ worker'[w].rules = worker[w].rules /\ worker'[w].job = worker[w].job
        /\ worker'[w].active = active
    BY <1>0, <2>1, Zenon DEF WorkerType
  <2>3. QED
    BY <1>5, <2>2, Zenon DEF active, LoadActiveRuleIDs
<1>6. CASE Evaluate(w)
  BY <1>0, <1>6, SMT, Z3 DEF Evaluate, Return, IdleWorker, WorkerType
<1>7. CASE ApplyDecision(w)
  BY <1>7, ApplyCases DEF Carried, IdleWorker
<1>8. QED
  BY <1>1, <1>2, <1>3, <1>4, <1>5, <1>6, <1>7, Zenon DEF WorkerStep

LEMMA ApplyOrigin ==
  ASSUME TypeOK, NEW w \in Workers, WorkerStep(w), worker'[w].stage = "apply"
  PROVE  Evaluate(w) \/ (ApplyDecision(w) /\ worker[w].stage = "apply")
<1>1. CASE ~Evaluate(w)
  <2>1. worker[w].stage = "apply"
    BY <1>1, DecisionsKept, Zenon
  <2>2. QED
    BY <1>1, <2>1 DEF WorkerStep, TakeJob, StopWorker, WriteTelemetry, CheckLastSeen,
                      UpdateLastSeen, LoadEnabledRules, LoadActiveRuleIDs
<1>2. QED
  BY <1>1, Zenon

-----------------------------------------------------------------------------
\* Self-healing.
LEMMA LoadActiveKnows ==
  ASSUME TypeOK, OwnerInv, NEW w \in Workers, WorkerStep(w), worker'[w].stage = "evaluate"
  PROVE  KnowsActive(worker[w])'
<1> DEFINE dev == Device(w)
           active == ActiveRuleIDs(dev)
<1>1. /\ worker[w].stage = "active" /\ UNCHANGED alerts
      /\ worker'[w].rules = worker[w].rules /\ worker'[w].active = active
  BY EvaluateOrigin DEF storeVars
<1>2. ASSUME NEW r \in RuleIds, worker[w].rules[r] # NoRule
      PROVE  r \in active <=> ActiveAlerts(r) # {}
  <2>1. Owned(alert_rules[r], dev)
    BY <1>1, <1>2, Zenon DEF OwnerInv, HoldsOwned, Loaded, Device
  <2>2. ASSUME NEW i \in ActiveAlerts(r) PROVE alerts[i].device_id = dev
    <3>1. alert_rules[r] \in Rule /\ alert_rules[r].device_id = alerts[i].device_id
      BY Zenon DEF OwnerInv, AlertsReferToTheirRule, LiveRules, ActiveAlerts
    <3>2. QED
      BY <2>1, <3>1, RowMarkersAssumption, Zenon DEF Owned
  <2>3. QED
    BY <2>2, Zenon DEF ActiveRuleIDs, ActiveAlerts
<1>3. \A r \in RuleIds : ActiveAlerts(r)' = ActiveAlerts(r)
  BY <1>1, Zenon DEF ActiveAlerts, Active
<1> HIDE DEF active
<1>4. QED
  BY <1>1, <1>2, <1>3 DEF KnowsActive, Raised

\* The engine misses no rule: one it evaluated is settled, or it decides on it.
LEMMA EvaluateDecides ==
  ASSUME TypeOK, NEW w \in Workers, Evaluate(w), KnowsActive(worker[w]),
         NEW r \in Evaluated(worker[w].rules, Readings(w))
  PROVE  \/ Settled(r)'
         \/ \E d \in Decisions(worker[w].rules, Readings(w), worker[w].active, streaks') :
              d.rule = r
<1> DEFINE rules == worker[w].rules
           active == worker[w].active
           t == Triggered(rules[r], Readings(w))
           Act == ActiveAlerts(r)
           Decided == \E d \in Decisions(rules, Readings(w), active, streaks') : d.rule = r
<1>1. r \in RuleIds /\ rules[r] # NoRule /\ t \in BOOLEAN /\ streaks[r] \in BreachState
  BY TriggeredIsBoolean, Zenon DEF Evaluated, TypeOK
<1>2. streaks'[r].Breaching = t
  BY <1>1, NextBreachStateType, Zenon DEF Evaluate, NextStreaks
<1>3. IF r \in active THEN Act # {} \/ ClosedByAPerson(r) ELSE Act = {}
  BY <1>1, Zenon DEF KnowsActive, Raised, Evaluate
<1>4. ActiveAlerts(r)' = Act /\ (ClosedByAPerson(r)' <=> ClosedByAPerson(r))
  BY Zenon DEF Evaluate, storeVars, ActiveAlerts, ClosedByAPerson, Active
<1>5. ASSUME streaks'[r].Count >= DebounceN, t <=> r \notin active PROVE Decided
  <2>1. CASE t
    <3> DEFINE d == [rule |-> r, decision |-> "create"]
    <3>1. d \in RuleDecision /\ d.rule = r /\ d.decision = "create"
      BY <1>1, Zenon DEF RuleDecision
    <3> HIDE DEF d
    <3>2. d \in Decisions(rules, Readings(w), active, streaks')
      BY <1>5, <2>1, <3>1, Zenon DEF Decisions
    <3>3. QED
      BY <3>1, <3>2, Zenon
  <2>2. CASE ~t
    <3> DEFINE d == [rule |-> r, decision |-> "auto_resolve"]
    <3>1. d \in RuleDecision /\ d.rule = r /\ d.decision = "auto_resolve"
      BY <1>1, Zenon DEF RuleDecision
    <3> HIDE DEF d
    <3>2. d \in Decisions(rules, Readings(w), active, streaks')
      BY <1>5, <2>2, <3>1, Zenon DEF Decisions
    <3>3. QED
      BY <3>1, <3>2, Zenon
  <2>3. QED
    BY <2>1, <2>2
<1> HIDE DEF t, Act, Decided
<1>6. ASSUME ~(streaks'[r].Count >= DebounceN) \/ ~(t <=> r \notin active) PROVE Settled(r)'
  BY <1>1, <1>2, <1>3, <1>4, <1>6, Zenon DEF Settled
<1>7. QED
  BY <1>5, <1>6, Zenon DEF Decided

LEMMA EvaluateHeals ==
  ASSUME TypeOK, NEW w \in Workers, Evaluate(w), KnowsActive(worker[w])
  PROVE  /\ FollowsStreaks(worker[w])' /\ WillSettle(worker[w])'
         /\ worker'[w].stage # "apply" =>
              \A r \in Evaluated(worker[w].rules, Readings(w)) : Settled(r)'
<1> DEFINE rules == worker[w].rules
           D == Decisions(rules, Readings(w), worker[w].active, streaks')
<1>1. PICK ds \in DecisionLists(rules, Readings(w), worker[w].active, streaks') :
        \/ ds = <<>> /\ worker'[w] = IdleWorker
        \/ /\ worker'[w].stage = "apply" /\ worker'[w].decisions = ds
           /\ worker'[w].rules = rules /\ worker'[w].job = worker[w].job
           /\ worker'[w].next = worker[w].next
  BY EvaluateOutcome, Zenon
<1>2. /\ ds \in Seq(RuleDecision)
      /\ \A k \in DOMAIN ds : ds[k] \in D
      /\ \A d \in D : \E k \in DOMAIN ds : ds[k] = d
  BY DecisionListType, DecisionListComplete, SMT, Z3
<1>3. worker[w].next = 1
  BY Zenon DEF TypeOK, WorkerOK, Evaluate
<1>4. \A d \in D : /\ d.rule \in RuleIds
                   /\ d.decision = "create" <=> streaks'[d.rule].Breaching
  <2> TAKE d \in D
  <2>1. /\ d.rule \in Evaluated(rules, Readings(w)) /\ d.rule \in RuleIds
        /\ d.decision = "create" <=> Triggered(rules[d.rule], Readings(w))
    BY Zenon DEF Decisions, Evaluated
  <2>2. streaks'[d.rule].Breaching = Triggered(rules[d.rule], Readings(w))
    <3>1. streaks[d.rule] \in BreachState
          /\ Triggered(rules[d.rule], Readings(w)) \in BOOLEAN
      BY <2>1, TriggeredIsBoolean, Zenon DEF TypeOK
    <3>2. QED
      BY <2>1, <3>1, NextBreachStateType, SMT, Z3 DEF Evaluate, NextStreaks
  <2>3. QED
    BY <2>1, <2>2, Zenon
<1>5. \A r \in Evaluated(rules, Readings(w)) : Settled(r)' \/ \E d \in D : d.rule = r
  BY EvaluateDecides, Zenon
<1> HIDE DEF D
<1>6. FollowsStreaks(worker[w])'
  BY <1>1, <1>2, <1>4 DEF FollowsStreaks, IdleWorker
<1>7. CASE worker'[w].stage = "apply"
  <2>1. /\ worker'[w].decisions = ds /\ worker'[w].next = 1
        /\ Evaluated(worker'[w].rules, worker'[w].job.payload.readings)
             = Evaluated(rules, Readings(w))
    BY <1>1, <1>3, <1>7, SMT, Z3 DEF IdleWorker, Readings
  <2>2. \A r \in Evaluated(rules, Readings(w)) : Settled(r)' \/ Pending(worker[w], r)'
    BY <1>2, <1>5, <2>1, SMT, Z3 DEF Pending
  <2>3. QED
    BY <1>6, <1>7, <2>1, <2>2, Zenon DEF WillSettle
<1>8. CASE worker'[w].stage # "apply"
  <2>1. ds = <<>>
    BY <1>1, <1>8
  <2>2. D = {}
    BY <1>2, <2>1, SMT, Z3
  <2>3. QED
    BY <1>5, <1>6, <1>8, <2>2, Zenon DEF WillSettle
<1>9. QED
  BY <1>7, <1>8, Zenon

\* A statement settles the rule it is about and unsettles no other.
LEMMA StatementSettles ==
  ASSUME TypeOK, NEW w \in Workers, worker[w].stage = "apply", Statement(w),
         FollowsStreaks(worker[w]), UNCHANGED streaks, NEW q \in RuleIds,
         Settled(q) \/ q = worker[w].decisions[worker[w].next].rule
  PROVE  Settled(q)'
<1> DEFINE d == worker[w].decisions[worker[w].next]
           r == d.rule
           dev == Device(w)
           at == worker[w].at
           Act == ActiveAlerts(q)
<1>1. /\ worker[w].decisions \in Seq(RuleDecision) /\ at \in Nat
      /\ worker[w].next \in DOMAIN worker[w].decisions
  BY Zenon DEF TypeOK, WorkerOK, WorkerType
<1>2. d \in RuleDecision
  BY <1>1
<1>3. r \in RuleIds /\ dev \in Devices /\ StoreTypeOK
  BY <1>2, ParsedDevice, Zenon DEF RuleDecision, TypeOK
<1>4. d.decision = "create" <=> streaks[r].Breaching
  BY <1>1, Zenon DEF FollowsStreaks
<1>5. \/ d.decision = "create" /\ InsertAlert(r, dev, at)
      \/ d.decision = "auto_resolve" /\ AutoResolveAlerts(r, at)
  BY Zenon DEF Statement
<1> HIDE DEF d, r, dev, at
<1>6. Settled(q) \/ q = r
  BY DEF r, d
<1>7. CASE d.decision = "create" /\ InsertAlert(r, dev, at)
  <2>1. /\ ActiveAlerts(q)' = IF q = r THEN Act \cup {Len(alerts) + 1} ELSE Act
        /\ ClosedByAPerson(q) => ClosedByAPerson(q)'
    BY <1>1, <1>3, <1>7, InsertActive, Zenon
  <2> HIDE DEF Act
  <2>2. QED
    BY <1>4, <1>6, <1>7, <2>1, Zenon DEF Settled, Act
<1>8. CASE d.decision = "auto_resolve" /\ AutoResolveAlerts(r, at)
  <2>1. /\ ActiveAlerts(q)' = IF q = r THEN {} ELSE Act
        /\ ClosedByAPerson(q) => ClosedByAPerson(q)'
    BY <1>1, <1>3, <1>8, AutoResolveActive
  <2> HIDE DEF Act
  <2>2. QED
    BY <1>4, <1>6, <1>8, <2>1, Zenon DEF Settled, Act
<1>9. QED
  BY <1>5, <1>7, <1>8, Zenon

LEMMA SettledKept ==
  ASSUME UNCHANGED <<alerts, streaks>>, NEW q
  PROVE  Settled(q) => Settled(q)'
BY Zenon DEF Settled, ActiveAlerts, ClosedByAPerson, Active

LEMMA ApplyHeals ==
  ASSUME TypeOK, NEW w \in Workers, ApplyDecision(w),
         FollowsStreaks(worker[w]), WillSettle(worker[w])
  PROVE  /\ FollowsStreaks(worker[w])' /\ WillSettle(worker[w])'
         /\ ~Broken(w) /\ worker'[w] = IdleWorker =>
              \A r \in Evaluated(worker[w].rules, Readings(w)) : Settled(r)'
<1> DEFINE wk == worker[w]
           rules == Evaluated(wk.rules, Readings(w))
<1>1. /\ wk.stage = "apply" /\ UNCHANGED streaks /\ rules \subseteq RuleIds
      /\ wk.decisions \in Seq(RuleDecision) /\ wk.next \in DOMAIN wk.decisions
      /\ wk.next \in Nat
  BY Zenon DEF ApplyDecision, TypeOK, WorkerOK, WorkerType, Evaluated
<1>2. \A r \in rules : Settled(r) \/ Pending(wk, r)
  BY <1>1, Zenon DEF WillSettle, Readings
<1>3. ASSUME Statement(w), NEW r \in rules,
             Settled(r) \/ r = wk.decisions[wk.next].rule
      PROVE  Settled(r)'
  BY <1>1, <1>3, StatementSettles
<1>4. \A r \in rules : Broken(w) /\ Settled(r) => Settled(r)'
  BY <1>1, <1>3, SettledKept, Zenon DEF Broken, storeVars
<1>5. Carried(wk, worker'[w]) =>
        /\ FollowsStreaks(worker[w])'
        /\ Evaluated(worker'[w].rules, worker'[w].job.payload.readings) = rules
  BY <1>1, Zenon DEF Carried, FollowsStreaks, Readings
<1>6. worker'[w] = IdleWorker => FollowsStreaks(worker[w])' /\ WillSettle(worker[w])'
  BY SMT, Z3 DEF FollowsStreaks, WillSettle, IdleWorker
<1> HIDE DEF rules
<1>7. CASE Written(w) /\ wk.next = Len(wk.decisions) /\ worker'[w] = IdleWorker
  <2>1. \A r \in rules : Settled(r) \/ r = wk.decisions[wk.next].rule
    BY <1>1, <1>2, <1>7, SMT, Z3 DEF Pending
  <2>2. QED
    BY <1>3, <1>6, <1>7, <2>1, Zenon DEF Written, rules
<1>8. CASE Written(w) /\ Carried(wk, worker'[w]) /\ worker'[w].next = wk.next + 1
  <2>1. ASSUME NEW r \in rules PROVE Settled(r)' \/ Pending(worker[w], r)'
    <3>1. CASE Settled(r) \/ r = wk.decisions[wk.next].rule
      BY <1>3, <1>8, <3>1, Zenon DEF Written
    <3>2. CASE ~Settled(r) /\ r # wk.decisions[wk.next].rule
      <4>1. PICK k \in DOMAIN wk.decisions : wk.next <= k /\ wk.decisions[k].rule = r
        BY <1>2, <3>2, Zenon DEF Pending
      <4>2. wk.next + 1 <= k
        BY <1>1, <3>2, <4>1, SMT, Z3
      <4>3. QED
        BY <1>8, <4>1, <4>2, Zenon DEF Pending, Carried
    <3>3. QED
      BY <3>1, <3>2, Zenon
  <2>2. worker'[w] # IdleWorker
    BY <1>8 DEF Carried, IdleWorker
  <2>3. QED
    BY <1>5, <1>8, <2>1, <2>2 DEF WillSettle
<1>9. CASE Broken(w) /\ Carried(wk, worker'[w]) /\ worker'[w].next = 1
  <2>1. ASSUME NEW r \in rules PROVE Settled(r)' \/ Pending(worker[w], r)'
    <3>1. CASE Settled(r)
      BY <1>4, <1>9, <3>1, Zenon
    <3>2. CASE Pending(wk, r)
      BY <1>1, <1>9, <3>2, SMT, Z3 DEF Pending, Carried
    <3>3. QED
      BY <1>2, <3>1, <3>2, Zenon
  <2>2. worker'[w] # IdleWorker
    BY <1>9, SMT, Z3 DEF Carried, IdleWorker
  <2>3. QED
    BY <1>5, <1>9, <2>1, <2>2, Zenon DEF WillSettle
<1>10. CASE Broken(w) /\ worker'[w] = IdleWorker
  BY <1>6, <1>10, Zenon
<1>11. QED
  BY <1>7, <1>8, <1>9, <1>10, ApplyCases

LEMMA EnvironmentHeals ==
  ASSUME TypeOK, HealInv, UNCHANGED <<worker, streaks>>,
         \/ UNCHANGED alerts
         \/ \E i \in DOMAIN alerts, u \in Users : Acknowledge(i, u) \/ Resolve(i, u)
  PROVE  HealInv'
<1>1. ASSUME NEW q \in RuleIds
      PROVE  /\ ActiveAlerts(q)' \subseteq ActiveAlerts(q)
             /\ Raised(q) => Raised(q)'
             /\ Settled(q) => Settled(q)'
  <2>1. ActiveAlerts(q)' \subseteq ActiveAlerts(q) /\ (Raised(q) => Raised(q)')
    <3>1. CASE UNCHANGED alerts
      BY <3>1, Zenon DEF Raised, ActiveAlerts, ClosedByAPerson, Active
    <3>2. CASE \E i \in DOMAIN alerts, u \in Users : Acknowledge(i, u) \/ Resolve(i, u)
      BY <3>2, RequestActive, Zenon DEF Acknowledge, Resolve, TypeOK
    <3>3. QED
      BY <3>1, <3>2, Zenon
  <2>2. QED
    BY <2>1, Zenon DEF Settled, Raised
<1>2. ASSUME NEW w \in Workers
      PROVE  /\ KnowsActive(worker[w])' /\ FollowsStreaks(worker[w])'
             /\ WillSettle(worker[w])'
  <2>1. KnowsActive(worker[w]) /\ FollowsStreaks(worker[w]) /\ WillSettle(worker[w])
    BY Zenon DEF HealInv
  <2>2. KnowsActive(worker[w])'
    BY <1>1, <2>1, Zenon DEF KnowsActive
  <2>3. FollowsStreaks(worker[w])'
    BY <2>1, Zenon DEF FollowsStreaks
  <2>4. WillSettle(worker[w])'
    BY <1>1, <2>1, Zenon DEF WillSettle, Evaluated, Pending
  <2>5. QED
    BY <2>2, <2>3, <2>4
<1>3. QED
  BY <1>2, Zenon DEF HealInv

LEMMA NextHeal ==
  ASSUME SingleWorker, TypeOK, OwnerInv, HealInv, [Next]_vars
  PROVE  HealInv'
<1>1. CASE \E w \in Workers : WorkerStep(w)
  <2>1. PICK w \in Workers : WorkerStep(w)
    BY <1>1, Zenon
  <2>2. KnowsActive(worker[w]) /\ FollowsStreaks(worker[w]) /\ WillSettle(worker[w])
    BY Zenon DEF HealInv
  <2>3. KnowsActive(worker[w])'
    <3>1. CASE worker'[w].stage = "evaluate"
      BY <2>1, <3>1, LoadActiveKnows, Zenon
    <3>2. CASE worker'[w].stage # "evaluate"
      BY <3>2 DEF KnowsActive
    <3>3. QED
      BY <3>1, <3>2, Zenon
  <2>4. FollowsStreaks(worker[w])' /\ WillSettle(worker[w])'
    <3>1. CASE worker'[w].stage = "apply"
      BY <2>1, <2>2, <3>1, ApplyOrigin, EvaluateHeals, ApplyHeals, Zenon
    <3>2. CASE worker'[w].stage # "apply"
      BY <3>2 DEF FollowsStreaks, WillSettle
    <3>3. QED
      BY <3>1, <3>2, Zenon
  <2>5. \A v \in Workers : v = w
    BY <2>1, Zenon DEF SingleWorker
  <2>6. QED
    BY <2>3, <2>4, <2>5, Zenon DEF HealInv
<1>2. CASE Restart
  BY <1>2, Zenon DEF Restart, HealInv, KnowsActive, FollowsStreaks, WillSettle, IdleWorker
<1>3. CASE ~Restart /\ ~\E w \in Workers : WorkerStep(w)
  BY <1>3, OthersSteps, EnvironmentHeals, Zenon
<1>4. QED
  BY <1>1, <1>2, <1>3, Zenon

\* The step EvaluationHeals speaks of.
LEMMA FinishSettles ==
  ASSUME SingleWorker, TypeOK, HealInv, [Next]_vars, NEW w \in Workers,
         worker[w].stage \in {"evaluate", "apply"}, worker'[w].stage = "idle",
         ~ctxDone, UNCHANGED used, worker[w].stage = "apply" => ~ForeignKeyViolation(w),
         NEW r \in Evaluated(worker[w].rules, Readings(w))
  PROVE  Settled(r)'
<1>0. used \in Used
  BY Zenon DEF TypeOK
<1>1. KnowsActive(worker[w]) /\ FollowsStreaks(worker[w]) /\ WillSettle(worker[w])
  BY DEF HealInv
<1>2. ~Restart
  BY <1>0, SMT, Z3 DEF Restart, Used
<1>3. WorkerStep(w)
  <2>1. \E v \in Workers : WorkerStep(v)
    BY <1>2, OthersSteps, Zenon
  <2>2. QED
    BY <2>1 DEF SingleWorker
<1>4. Evaluate(w) \/ ApplyDecision(w)
  BY <1>3, Zenon DEF WorkerStep, TakeJob, StopWorker, WriteTelemetry, CheckLastSeen,
              UpdateLastSeen, LoadEnabledRules, LoadActiveRuleIDs
<1>5. CASE Evaluate(w)
  BY <1>1, <1>5, EvaluateHeals, Zenon
<1>6. CASE ApplyDecision(w)
  <2>1. worker[w].stage = "apply"
    BY <1>6 DEF ApplyDecision
  <2>2. ~Broken(w)
    BY <1>0, <2>1, SMT, Z3 DEF Broken, Used
  <2>3. worker'[w] = IdleWorker
    BY <1>6, ApplyCases DEF Carried
  <2>4. QED
    BY <1>1, <1>6, <2>2, <2>3, ApplyHeals, Zenon
<1>7. QED
  BY <1>4, <1>5, <1>6, Zenon

\* Self-healing (process() with applyDecisionsWithRetry): with one worker, a
\* message processed to its end leaves every rule it evaluated settled, whatever
\* calls failed before and whoever closed alerts meanwhile.
THEOREM SingleWorkerHeals == ASSUME SingleWorker PROVE Spec => EvaluationHeals
<1>1. Init => HealInv /\ OwnerInv
  BY InitOwner, SMT, Z3 DEF Init, HealInv, KnowsActive, FollowsStreaks, WillSettle, IdleWorker
<1>2. TypeOK /\ OwnerInv /\ HealInv /\ [Next]_vars => HealInv'
  BY NextHeal, Zenon
<1>3. TypeOK /\ HealInv /\ [Next]_vars =>
        [\A w \in Workers :
           /\ worker[w].stage \in {"evaluate", "apply"}
           /\ worker'[w].stage = "idle"
           /\ ~ctxDone /\ UNCHANGED used
           /\ worker[w].stage = "apply" => ~ForeignKeyViolation(w)
           => \A r \in Evaluated(worker[w].rules, Readings(w)) : Settled(r)']_vars
  BY FinishSettles, Zenon
<1>4. QED
  BY <1>1, <1>2, <1>3, NextOwner, TypeCorrect, PTL DEF Spec, EvaluationHeals

-----------------------------------------------------------------------------
\* Duplicates.
LEMMA StatementCounts ==
  ASSUME TypeOK, NEW w \in Workers, worker[w].stage = "apply", Statement(w),
         NEW q \in RuleIds
  PROVE  LET d == worker[w].decisions[worker[w].next]
             n == Cardinality(ActiveAlerts(q))
             m == Cardinality(ActiveAlerts(q)')
         IN  /\ n \in Nat /\ m \in Nat
             /\ m <= n + 1
             /\ m <= n \/ (d.decision = "create" /\ q = d.rule)
<1> DEFINE d == worker[w].decisions[worker[w].next]
           r == d.rule
           dev == Device(w)
           at == worker[w].at
           Act == ActiveAlerts(q)
           Then == ActiveAlerts(q)'
<1>1. /\ worker[w].decisions \in Seq(RuleDecision) /\ at \in Nat
      /\ worker[w].next \in DOMAIN worker[w].decisions
  BY Zenon DEF TypeOK, WorkerOK, WorkerType
<1>2. d \in RuleDecision
  BY <1>1
<1>3. r \in RuleIds /\ dev \in Devices /\ StoreTypeOK
  BY <1>2, ParsedDevice, Zenon DEF RuleDecision, TypeOK
<1>4. \/ d.decision = "create" /\ InsertAlert(r, dev, at)
      \/ d.decision = "auto_resolve" /\ AutoResolveAlerts(r, at)
  BY Zenon DEF Statement
<1>5. IsFiniteSet(Act) /\ Cardinality(Act) \in Nat /\ Len(alerts) + 1 \notin Act
  BY <1>3, ActiveFinite, Zenon
<1> SUFFICES /\ Cardinality(Then) \in Nat /\ Cardinality(Then) <= Cardinality(Act) + 1
             /\ \/ Cardinality(Then) <= Cardinality(Act)
                \/ d.decision = "create" /\ q = r
  BY <1>5, Zenon
<1> HIDE DEF d, r, dev, at
<1>6. CASE d.decision = "create" /\ InsertAlert(r, dev, at)
  <2>1. Then = IF q = r THEN Act \cup {Len(alerts) + 1} ELSE Act
    BY <1>1, <1>3, <1>6, InsertActive
  <2> HIDE DEF Act, Then
  <2>2. Cardinality(Act \cup {Len(alerts) + 1}) = Cardinality(Act) + 1
    BY <1>5, FS_AddElement, Zenon
  <2>3. QED
    BY <1>5, <1>6, <2>1, <2>2, SMT, Z3
<1>7. CASE d.decision = "auto_resolve" /\ AutoResolveAlerts(r, at)
  <2>1. Then = IF q = r THEN {} ELSE Act
    BY <1>1, <1>3, <1>7, AutoResolveActive, Zenon
  <2> HIDE DEF Act, Then
  <2>2. QED
    BY <1>5, <2>1, FS_EmptySet
<1>8. QED
  BY <1>4, <1>6, <1>7, Zenon

\* Nothing undoes a disturbance.
LEMMA DisturbedForGood ==
  ASSUME TypeOK, [Next]_vars, Undisturbed'
  PROVE  Undisturbed
<1>1. ASSUME NEW r \in RuleIds, alert_rules[r] = DroppedRule PROVE FALSE
  <2>1. alert_rules \in [RuleIds -> Rule \cup {NoRule, DroppedRule}]
    BY Zenon DEF TypeOK, StoreTypeOK
  <2>2. CASE UNCHANGED alert_rules
    BY <1>1, <2>2 DEF Undisturbed
  <2>3. CASE \E q \in RuleIds : EditRule(q)
    <3>1. alert_rules'[r] = DroppedRule
      BY <1>1, <2>1, <2>3, RowMarkersAssumption, Zenon
         DEF EditRule, InsertRule, UpdateRule, DeleteRule, LiveRules
    <3>2. QED
      BY <3>1 DEF Undisturbed
  <2>4. CASE \E w \in Workers : WorkerStep(w)
    BY <2>2, <2>4, WorkerWrites, Zenon DEF Statement, InsertAlert, AutoResolveAlerts, storeVars
  <2>5. QED
    BY <2>2, <2>3, <2>4, Zenon DEF Next, Enqueue, DropMessage, Shutdown, Restart, Tick, Waiting,
       Acknowledge, Resolve, AcknowledgeAlert, ResolveAlert, vars, storeVars
<1>2. used.faults = 0 /\ used.lost = 0
  <2>0. used \in Used /\ used'.faults = 0 /\ used'.lost = 0
    BY DEF TypeOK, Undisturbed
  <2>1. QED
    BY <2>0, UsedSteps, SMT, Z3 DEF Used
<1>3. QED
  BY <1>1, <1>2, Zenon DEF Undisturbed

\* An attempt that breaks off is a disturbance, unless the service is stopping.
LEMMA BrokenDisturbs ==
  ASSUME TypeOK, OwnerInv, NEW w \in Workers, worker[w].stage = "apply", Broken(w),
         Undisturbed'
  PROVE  ctxDone /\ UNCHANGED storeVars
<1> DEFINE d == worker[w].decisions[worker[w].next]
<1>0. used \in Used /\ used'.faults = 0 /\ used'.lost = 0
  BY Zenon DEF TypeOK, Undisturbed
<1>1. CASE UNCHANGED <<storeVars, used>> /\ ForeignKeyViolation(w)
  <2>1. /\ worker[w].decisions \in Seq(RuleDecision)
        /\ worker[w].next \in DOMAIN worker[w].decisions
    BY Zenon DEF TypeOK, WorkerOK, WorkerType
  <2>2. d \in RuleDecision
    BY <2>1
  <2>3. d.rule \in RuleIds
    BY <2>2, Zenon DEF RuleDecision
  <2>4. worker[w].rules[d.rule] # NoRule
    BY <2>1 DEF OwnerInv, DecidesOnHeld
  <2>5. Owned(alert_rules[d.rule], worker[w].job.payload.device_id)
    BY <2>3, <2>4, Zenon DEF OwnerInv, HoldsOwned, Loaded
  <2>6. alert_rules[d.rule] = DroppedRule
    BY <1>1, <2>3, <2>5, Zenon DEF ForeignKeyViolation, Owned, LiveRules
  <2>7. QED
    BY <1>1, <2>3, <2>6, Zenon DEF Undisturbed, storeVars
<1>2. CASE UNCHANGED <<storeVars, used>> /\ ctxDone
  BY <1>2
<1>3. CASE used' = [used EXCEPT !.faults = @ + 1] \/ used' = [used EXCEPT !.lost = @ + 1]
  BY <1>0, <1>3 DEF Used
<1>4. QED
  BY <1>1, <1>2, <1>3 DEF Broken

\* A worker at rest has nothing to write.
LEMMA AtRest ==
  ASSUME NEW w \in Workers, worker'[w] = IdleWorker
  PROVE  OncePerRule(worker[w])' /\ CreatesCounted(worker[w])' /\ FirstAttempt(worker[w])'
<1>1. worker'[w].stage # "apply" /\ worker'[w].attempt = 1
  BY SMT, Z3 DEF IdleWorker
<1>2. QED
  BY <1>1, Zenon DEF OncePerRule, CreatesCounted, FirstAttempt

\* The arithmetic of an attempt: n alerts before and m after the decision at x,
\* for the rule decided on at k.
LEMMA OneMore ==
  ASSUME NEW n \in Nat, NEW m \in Nat, NEW a \in Nat, NEW k \in Nat, NEW x \in Nat,
         m <= n + 1, m <= n \/ k = x, n <= IF k < x THEN a ELSE a - 1
  PROVE  m <= IF k < x + 1 THEN a ELSE a - 1
BY SMT, Z3

\* One attempt of ApplyDecisions adds at most one active alert to a rule.
LEMMA ApplyDuplicates ==
  ASSUME TypeOK, OwnerInv, DuplicatesInv, [Next]_vars, NEW w \in Workers,
         ApplyDecision(w)
  PROVE  /\ OncePerRule(worker[w])' /\ CreatesCounted(worker[w])'
         /\ FirstAttempt(worker[w])'
         /\ \A q \in RuleIds :
              Cardinality(ActiveAlerts(q)') <= IF Undisturbed' THEN 1 ELSE maxAttempts
<1> DEFINE wk == worker[w]
           ds == wk.decisions
           d == ds[wk.next]
           N(q) == Cardinality(ActiveAlerts(q))
           M(q) == Cardinality(ActiveAlerts(q)')
           Limit == IF Undisturbed THEN 1 ELSE maxAttempts
<1>0. /\ wk.stage = "apply" /\ ds \in Seq(RuleDecision) /\ wk.attempt \in 1..maxAttempts
      /\ wk.next \in DOMAIN ds /\ wk.next \in Nat /\ DOMAIN ds \subseteq Nat
      /\ wk.attempt \in Nat
  BY SMT, Z3 DEF TypeOK, WorkerOK, WorkerType, ApplyDecision
<1>1. /\ \A k \in DOMAIN ds : ds[k] \in RuleDecision /\ ds[k].rule \in RuleIds
      /\ d.rule \in RuleIds
  <2>1. \A k \in DOMAIN ds : ds[k] \in RuleDecision
    BY <1>0
  <2>2. QED
    BY <1>0, <2>1, Zenon DEF RuleDecision
<1>2. /\ \A k, l \in DOMAIN ds : ds[k].rule = ds[l].rule => k = l
      /\ \A k \in DOMAIN ds : ds[k].decision = "create" =>
           N(ds[k].rule) <= IF k < wk.next THEN wk.attempt ELSE wk.attempt - 1
      /\ wk.attempt = 1 \/ (Undisturbed => ctxDone)
      /\ \A q \in RuleIds : N(q) <= Limit
  BY <1>0, Zenon DEF DuplicatesInv, OncePerRule, CreatesCounted, FirstAttempt
<1>3. Undisturbed' => Undisturbed
  BY DisturbedForGood
<1>4. ASSUME UNCHANGED storeVars \/ Statement(w), NEW q \in RuleIds
      PROVE  /\ N(q) \in Nat /\ M(q) \in Nat /\ M(q) <= N(q) + 1
             /\ M(q) <= N(q) \/ (d.decision = "create" /\ q = d.rule)
  <2>1. CASE UNCHANGED storeVars
    <3>1. ActiveAlerts(q)' = ActiveAlerts(q)
      BY <2>1, Zenon DEF storeVars, ActiveAlerts, Active
    <3>2. N(q) \in Nat
      BY ActiveFinite DEF TypeOK
    <3>3. QED
      BY <3>1, <3>2, SMT, Z3
  <2>2. CASE Statement(w)
    BY <1>0, <2>2, StatementCounts, Zenon
  <2>3. QED
    BY <1>4, <2>1, <2>2, Zenon
<1>5. UNCHANGED ctxDone
  BY DEF ApplyDecision
<1> DEFINE Retried == /\ Carried(wk, worker'[w])
                      /\ worker'[w].next = 1 /\ worker'[w].attempt = wk.attempt + 1
           Advanced == /\ Carried(wk, worker'[w])
                       /\ worker'[w].next = wk.next + 1 /\ worker'[w].attempt = wk.attempt
<1> HIDE DEF N, M
<1>6. CASE Broken(w) /\ (Retried \/ worker'[w] = IdleWorker)
  <2>1. UNCHANGED storeVars \/ Statement(w)
    BY <1>6 DEF Broken
  <2>2. ASSUME NEW q \in RuleIds PROVE M(q) <= IF Undisturbed' THEN 1 ELSE maxAttempts
    <3>1. CASE Undisturbed'
      <4>1. UNCHANGED storeVars
        BY <1>0, <1>6, <3>1, BrokenDisturbs
      <4>2. M(q) = N(q)
        BY <4>1, Zenon DEF M, N, storeVars, ActiveAlerts, Active
      <4>3. QED
        BY <1>2, <1>3, <3>1, <4>2, Zenon
    <3>2. CASE ~Undisturbed'
      <4>1. N(q) <= maxAttempts /\ N(q) \in Nat /\ M(q) \in Nat
        BY <1>2, <1>4, <2>1, SMT, Z3 DEF maxAttempts
      <4>2. CASE M(q) <= N(q)
        BY <3>2, <4>1, <4>2, SMT, Z3 DEF maxAttempts
      <4>3. CASE d.decision = "create" /\ q = d.rule
        <5>1. N(q) <= wk.attempt - 1
          BY <1>0, <1>2, <4>3
        <5>2. QED
          BY <1>0, <1>4, <2>1, <3>2, <4>1, <5>1, SMT, Z3 DEF maxAttempts
      <4>4. QED
        BY <1>4, <2>1, <4>2, <4>3, Zenon
    <3>3. QED
      BY <3>1, <3>2, Zenon
  <2>3. CASE worker'[w] = IdleWorker
    BY <2>2, <2>3, AtRest, Zenon DEF M
  <2>4. CASE Retried
    <3>1. worker'[w].decisions = ds /\ worker'[w].stage = "apply"
      BY <1>0, <2>4, Zenon DEF Carried
    <3>2. OncePerRule(worker[w])'
      BY <1>2, <3>1 DEF OncePerRule
    <3>3. FirstAttempt(worker[w])'
      BY <1>0, <1>5, <1>6, <3>1, BrokenDisturbs, Zenon DEF FirstAttempt
    <3>4. ASSUME NEW k \in DOMAIN ds, ds[k].decision = "create"
          PROVE  M(ds[k].rule) <= wk.attempt
      <4>1. /\ N(ds[k].rule) \in Nat /\ M(ds[k].rule) \in Nat
            /\ M(ds[k].rule) <= N(ds[k].rule) + 1
            /\ M(ds[k].rule) <= N(ds[k].rule) \/ ds[k].rule = d.rule
        BY <1>1, <1>4, <2>1, Zenon
      <4>2. N(ds[k].rule) <= IF k < wk.next THEN wk.attempt ELSE wk.attempt - 1
        BY <1>2, <3>4, Zenon
      <4>3. /\ k \in Nat /\ wk.next \in Nat /\ wk.attempt \in Nat
            /\ N(ds[k].rule) \in Nat /\ M(ds[k].rule) \in Nat
            /\ M(ds[k].rule) <= N(ds[k].rule) + 1
            /\ M(ds[k].rule) <= N(ds[k].rule) \/ k = wk.next
        BY <1>0, <1>2, <4>1, Zenon
      <4>4. M(ds[k].rule) <= IF k < wk.next + 1 THEN wk.attempt ELSE wk.attempt - 1
        BY <4>2, <4>3, OneMore, Zenon
      <4>5. QED
        BY <4>3, <4>4
    <3>5. CreatesCounted(worker[w])'
      <4>1. ASSUME NEW k \in DOMAIN ds, ds[k].decision = "create"
            PROVE  M(ds[k].rule) <= IF k < 1 THEN wk.attempt + 1 ELSE (wk.attempt + 1) - 1
        BY <1>0, <3>4, <4>1
      <4>2. QED
        BY <2>4, <3>1, <4>1, Zenon DEF CreatesCounted, M
    <3>6. QED
      BY <2>2, <3>2, <3>3, <3>5, Zenon DEF M
  <2>5. QED
    BY <1>6, <2>3, <2>4, Zenon
<1>7. CASE Written(w) /\ (Advanced \/ worker'[w] = IdleWorker)
  <2>1. Statement(w) /\ ~ctxDone /\ UNCHANGED used
    BY <1>7, Zenon DEF Written
  <2>2. Undisturbed' <=> Undisturbed
    <3>1. UNCHANGED alert_rules
      BY <2>1, Zenon DEF Statement, InsertAlert, AutoResolveAlerts
    <3>2. QED
      BY <2>1, <3>1 DEF Undisturbed
  <2>3. ASSUME NEW q \in RuleIds PROVE M(q) <= Limit
    <3>1. N(q) \in Nat /\ M(q) \in Nat /\ N(q) <= Limit
      BY <1>2, <1>4, <2>1, Zenon
    <3>2. CASE M(q) <= N(q)
      BY <3>1, <3>2, SMT, Z3 DEF maxAttempts
    <3>3. CASE d.decision = "create" /\ q = d.rule
      <4>1. N(q) <= wk.attempt - 1
        BY <1>0, <1>2, <3>3
      <4>2. Undisturbed => wk.attempt = 1
        BY <1>2, <2>1, Zenon
      <4>3. QED
        BY <1>0, <1>4, <2>1, <3>1, <4>1, <4>2 DEF maxAttempts
    <3>4. QED
      BY <1>4, <2>1, <3>2, <3>3
  <2>4. CASE worker'[w] = IdleWorker
    BY <2>2, <2>3, <2>4, AtRest, Zenon DEF M
  <2>5. CASE Advanced
    <3>1. worker'[w].decisions = ds /\ worker'[w].stage = "apply"
      BY <1>0, <2>5 DEF Carried
    <3>2. OncePerRule(worker[w])'
      BY <1>2, <3>1 DEF OncePerRule
    <3>3. FirstAttempt(worker[w])'
      BY <1>2, <1>5, <2>2, <2>5, <3>1, Zenon DEF FirstAttempt
    <3>4. ASSUME NEW k \in DOMAIN ds, ds[k].decision = "create"
          PROVE  M(ds[k].rule) <= IF k < wk.next + 1 THEN wk.attempt ELSE wk.attempt - 1
      <4>1. /\ N(ds[k].rule) \in Nat /\ M(ds[k].rule) \in Nat /\ k \in Nat
            /\ M(ds[k].rule) <= N(ds[k].rule) + 1
            /\ M(ds[k].rule) <= N(ds[k].rule) \/ ds[k].rule = d.rule
        BY <1>0, <1>1, <1>4, <2>1, Zenon
      <4>2. N(ds[k].rule) <= IF k < wk.next THEN wk.attempt ELSE wk.attempt - 1
        BY <1>2, <3>4, Zenon
      <4>3. /\ k \in Nat /\ wk.next \in Nat /\ wk.attempt \in Nat
            /\ N(ds[k].rule) \in Nat /\ M(ds[k].rule) \in Nat
            /\ M(ds[k].rule) <= N(ds[k].rule) + 1
            /\ M(ds[k].rule) <= N(ds[k].rule) \/ k = wk.next
        BY <1>0, <1>2, <4>1, Zenon
      <4>4. QED
        BY <4>2, <4>3, OneMore, Zenon
    <3>5. CreatesCounted(worker[w])'
      BY <2>5, <3>1, <3>4, Zenon DEF CreatesCounted, M
    <3>6. QED
      BY <2>2, <2>3, <3>2, <3>3, <3>5, Zenon DEF M
  <2>6. QED
    BY <1>7, <2>4, <2>5, Zenon
<1>8. QED
  BY <1>6, <1>7, ApplyCases, Zenon

\* Any other step of the worker writes nothing, and only an evaluation of a first
\* attempt enters the apply stage.
LEMMA AttemptKept ==
  ASSUME TypeOK, NEW w \in Workers, WorkerStep(w), ~ApplyDecision(w)
  PROVE  /\ worker[w].stage # "apply" /\ UNCHANGED <<storeVars, ctxDone>>
         /\ worker'[w].attempt \in {1, worker[w].attempt}
<1>0. worker \in [Workers -> WorkerType] /\ worker[w] \in WorkerType
  BY Zenon DEF TypeOK
<1>1. worker[w].stage # "apply" /\ UNCHANGED <<storeVars, ctxDone>>
  BY Zenon DEF WorkerStep, TakeJob, StopWorker, WriteTelemetry, CheckLastSeen, UpdateLastSeen,
         LoadEnabledRules, LoadActiveRuleIDs, Evaluate
<1>2. CASE Evaluate(w)
  BY <1>0, <1>2, SMT, Z3 DEF Evaluate, Return, IdleWorker, WorkerType
<1>3. CASE TakeJob(w) \/ StopWorker(w) \/ CheckLastSeen(w) \/ UpdateLastSeen(w)
  BY <1>0, <1>3, SMT, Z3 DEF TakeJob, StopWorker, CheckLastSeen, UpdateLastSeen, Goto, WorkerType
<1>4. CASE WriteTelemetry(w) \/ LoadActiveRuleIDs(w)
  BY <1>0, <1>4, SMT, Z3 DEF WriteTelemetry, LoadActiveRuleIDs, Return, IdleWorker, WorkerType
<1>5. CASE LoadEnabledRules(w)
  BY <1>0, <1>5 DEF LoadEnabledRules, Return, IdleWorker, WorkerType
<1>6. QED
  BY <1>1, <1>2, <1>3, <1>4, <1>5, Zenon DEF WorkerStep

LEMMA ProcessDuplicates ==
  ASSUME TypeOK, HealInv, DuplicatesInv, [Next]_vars, NEW w \in Workers,
         WorkerStep(w), ~ApplyDecision(w)
  PROVE  /\ OncePerRule(worker[w])' /\ CreatesCounted(worker[w])'
         /\ FirstAttempt(worker[w])'
         /\ \A q \in RuleIds :
              Cardinality(ActiveAlerts(q)') <= IF Undisturbed' THEN 1 ELSE maxAttempts
<1>1. /\ worker[w].stage # "apply" /\ UNCHANGED alerts
      /\ worker'[w].attempt \in {1, worker[w].attempt}
  BY AttemptKept, Zenon DEF storeVars
<1>2. worker[w].attempt = 1 /\ worker'[w].attempt = 1
  BY <1>1, Zenon DEF DuplicatesInv, FirstAttempt
<1>3. \A q \in RuleIds : ActiveAlerts(q)' = ActiveAlerts(q)
  BY <1>1, Zenon DEF ActiveAlerts, Active
<1>4. \A q \in RuleIds :
        Cardinality(ActiveAlerts(q)') <= IF Undisturbed' THEN 1 ELSE maxAttempts
  <2>1. ASSUME NEW q \in RuleIds
        PROVE  /\ Cardinality(ActiveAlerts(q)) \in Nat
               /\ Cardinality(ActiveAlerts(q)) <= IF Undisturbed THEN 1 ELSE maxAttempts
    BY ActiveFinite, Zenon DEF TypeOK, DuplicatesInv
  <2>2. QED
    BY <1>3, <2>1, DisturbedForGood DEF maxAttempts
<1>5. CASE worker'[w].stage # "apply"
  BY <1>2, <1>4, <1>5 DEF OncePerRule, CreatesCounted, FirstAttempt
<1>6. CASE worker'[w].stage = "apply"
  <2>1. Evaluate(w)
    BY <1>6, ApplyOrigin
  <2>2. PICK ds \in DecisionLists(worker[w].rules, Readings(w), worker[w].active, streaks') :
          worker'[w].decisions = ds
    <3>1. IdleWorker.stage # "apply"
      BY Zenon DEF IdleWorker
    <3>2. QED
      BY <1>6, <2>1, <3>1, EvaluateOutcome, Zenon
  <2>3. \A k, l \in DOMAIN ds : ds[k].rule = ds[l].rule => k = l
    BY DecisionListComplete
  <2>4. ASSUME NEW k \in DOMAIN ds, ds[k].decision = "create"
        PROVE  Cardinality(ActiveAlerts(ds[k].rule)') = 0
    <3>1. /\ ds[k].rule \in RuleIds /\ worker[w].rules[ds[k].rule] # NoRule
          /\ ds[k].rule \notin worker[w].active
      BY <2>4, DecisionListType, SMT, Z3 DEF Decisions, Evaluated
    <3>2. ActiveAlerts(ds[k].rule) = {}
      BY <2>1, <3>1 DEF HealInv, KnowsActive, Evaluate
    <3>3. QED
      BY <1>3, <3>1, <3>2, FS_EmptySet, Zenon
  <2>5. OncePerRule(worker[w])'
    BY <2>2, <2>3, Zenon DEF OncePerRule
  <2>6. CreatesCounted(worker[w])'
    <3>1. ASSUME NEW k \in DOMAIN ds, ds[k].decision = "create"
          PROVE  Cardinality(ActiveAlerts(ds[k].rule)')
                   <= IF k < worker'[w].next THEN 1 ELSE 1 - 1
      BY <2>4, <3>1
    <3>2. QED
      BY <1>2, <2>2, <3>1, Zenon DEF CreatesCounted
  <2>7. QED
    BY <1>2, <1>4, <2>5, <2>6, Zenon DEF FirstAttempt
<1>7. QED
  BY <1>5, <1>6, Zenon

LEMMA EnvironmentDuplicates ==
  ASSUME TypeOK, DuplicatesInv, [Next]_vars, ~\E w \in Workers : WorkerStep(w)
  PROVE  DuplicatesInv'
<1> DEFINE N(q) == Cardinality(ActiveAlerts(q))
           M(q) == Cardinality(ActiveAlerts(q)')
<1>1. ASSUME NEW q \in RuleIds PROVE N(q) \in Nat /\ M(q) \in Nat /\ M(q) <= N(q)
  <2>1. ActiveAlerts(q)' \subseteq ActiveAlerts(q)
    <3>1. CASE \E i \in DOMAIN alerts, u \in Users : Acknowledge(i, u) \/ Resolve(i, u)
      BY <3>1, RequestActive, Zenon DEF Acknowledge, Resolve, TypeOK
    <3>2. CASE UNCHANGED alerts
      BY <3>2, Zenon DEF ActiveAlerts, Active
    <3>3. QED
      BY <3>1, <3>2, OthersSteps, Zenon DEF Restart, storeVars
  <2>2. QED
    BY <2>1, ActiveFinite, FS_Subset, FS_CardinalityType DEF TypeOK
<1> HIDE DEF N, M
<1>2. \A q \in RuleIds : M(q) <= IF Undisturbed' THEN 1 ELSE maxAttempts
  <2>1. \A q \in RuleIds : N(q) <= IF Undisturbed THEN 1 ELSE maxAttempts
    BY Zenon DEF DuplicatesInv, N
  <2>2. QED
    BY <1>1, <2>1, DisturbedForGood, SMT, Z3 DEF maxAttempts
<1>3. ASSUME NEW w \in Workers
      PROVE  /\ OncePerRule(worker[w])' /\ CreatesCounted(worker[w])'
             /\ FirstAttempt(worker[w])'
  <2>1. CASE Restart
    BY <2>1, Zenon DEF Restart, IdleWorker, OncePerRule, CreatesCounted, FirstAttempt
  <2>2. CASE ~Restart
    <3>1. UNCHANGED worker /\ (UNCHANGED ctxDone \/ ctxDone' = TRUE)
      BY <2>2, Zenon DEF Next, Enqueue, DropMessage, Shutdown, Tick, Waiting, Acknowledge, Resolve,
                  EditRule, engineVars, vars
    <3>2. OncePerRule(worker[w]) /\ CreatesCounted(worker[w]) /\ FirstAttempt(worker[w])
      BY Zenon DEF DuplicatesInv
    <3>3. /\ worker[w].decisions \in Seq(RuleDecision) /\ worker[w].attempt \in Nat
          /\ worker[w].next \in Nat
      <4>1. worker[w] \in WorkerType
        BY Zenon DEF TypeOK
      <4>2. QED
        BY <4>1, SMT, Z3 DEF WorkerType, maxAttempts
    <3>4. ASSUME NEW k \in DOMAIN worker[w].decisions,
                 worker[w].stage = "apply", worker[w].decisions[k].decision = "create"
          PROVE  M(worker[w].decisions[k].rule)
                   <= IF k < worker[w].next THEN worker[w].attempt ELSE worker[w].attempt - 1
      <4>1. worker[w].decisions[k] \in RuleDecision
        BY <3>3, SMT, Z3
      <4>2. worker[w].decisions[k].rule \in RuleIds
        BY <4>1 DEF RuleDecision
      <4>3. N(worker[w].decisions[k].rule)
              <= IF k < worker[w].next THEN worker[w].attempt ELSE worker[w].attempt - 1
        BY <3>2, <3>4, Zenon DEF CreatesCounted, N
      <4>4. QED
        BY <1>1, <3>3, <4>2, <4>3, SMT, Z3
    <3>5. CreatesCounted(worker[w])'
      BY <3>1, <3>4 DEF CreatesCounted, M
    <3>6. OncePerRule(worker[w])' /\ FirstAttempt(worker[w])'
      BY <3>1, <3>2, DisturbedForGood, Zenon DEF OncePerRule, FirstAttempt
    <3>7. QED
      BY <3>5, <3>6, Zenon
  <2>3. QED
    BY <2>1, <2>2, Zenon
<1>4. QED
  BY <1>2, <1>3, Zenon DEF DuplicatesInv, M

LEMMA NextDuplicates ==
  ASSUME SingleWorker, TypeOK, OwnerInv, HealInv, DuplicatesInv, [Next]_vars
  PROVE  DuplicatesInv'
<1>1. CASE \E w \in Workers : WorkerStep(w)
  <2>1. PICK w \in Workers : WorkerStep(w)
    BY <1>1, Zenon
  <2>2. \A v \in Workers : v = w
    BY Zenon DEF SingleWorker
  <2>3. /\ OncePerRule(worker[w])' /\ CreatesCounted(worker[w])'
        /\ FirstAttempt(worker[w])'
        /\ \A q \in RuleIds :
             Cardinality(ActiveAlerts(q)') <= IF Undisturbed' THEN 1 ELSE maxAttempts
    BY <2>1, ApplyDuplicates, ProcessDuplicates, Zenon
  <2>4. QED
    BY <2>2, <2>3 DEF DuplicatesInv
<1>2. CASE ~\E w \in Workers : WorkerStep(w)
  BY <1>2, EnvironmentDuplicates, Zenon
<1>3. QED
  BY <1>1, <1>2, Zenon

LEMMA InitDuplicates == Init => HealInv /\ DuplicatesInv
<1> SUFFICES ASSUME Init PROVE HealInv /\ DuplicatesInv
  BY Zenon
<1>1. \A r \in RuleIds : ActiveAlerts(r) = {}
  BY DEF Init, ActiveAlerts
<1>2. HealInv
  BY Zenon DEF Init, HealInv, KnowsActive, FollowsStreaks, WillSettle, IdleWorker
<1>3. \A r \in RuleIds : Cardinality(ActiveAlerts(r)) <= IF Undisturbed THEN 1 ELSE maxAttempts
  BY <1>1, FS_EmptySet DEF maxAttempts
<1>4. QED
  BY <1>2, <1>3, Zenon DEF Init, DuplicatesInv, OncePerRule, CreatesCounted, FirstAttempt, IdleWorker

\* Two positions of a rule's active alerts make the count two.
LEMMA OneActive ==
  ASSUME TypeOK, DuplicatesInv
  PROVE  DuplicatesBounded /\ DuplicatesNeedARetry
<1>1. DuplicatesBounded
  <2>1. ASSUME NEW r \in RuleIds PROVE Cardinality(ActiveAlerts(r)) <= maxAttempts
    <3>1. Cardinality(ActiveAlerts(r)) <= IF Undisturbed THEN 1 ELSE maxAttempts
      BY Zenon DEF DuplicatesInv
    <3>2. Cardinality(ActiveAlerts(r)) \in Nat
      BY ActiveFinite, Zenon DEF TypeOK
    <3>3. QED
      BY <3>1, <3>2, SMT, Z3 DEF maxAttempts
  <2>2. QED
    BY <2>1, Zenon DEF DuplicatesBounded
<1>2. ASSUME Undisturbed, NEW i \in DOMAIN alerts, NEW j \in DOMAIN alerts,
             Active(alerts[i]), Active(alerts[j]),
             alerts[i].alert_rule_id = alerts[j].alert_rule_id, i # j
      PROVE  FALSE
  <2> DEFINE r == alerts[i].alert_rule_id
             Act == ActiveAlerts(r)
  <2>1. r \in RuleIds
    <3>1. alerts[i] \in Alert
      BY DEF TypeOK, StoreTypeOK
    <3>2. QED
      BY <3>1, Zenon DEF Alert
  <2>2. i \in Act /\ j \in Act
    BY <1>2, Zenon DEF ActiveAlerts
  <2>3. IsFiniteSet(Act) /\ Cardinality(Act) <= 1
    BY <1>2, <2>1, ActiveFinite DEF TypeOK, DuplicatesInv
  <2> HIDE DEF Act
  <2>4. IsFiniteSet({i}) /\ Cardinality({i}) = 1 /\ j \notin {i}
    BY <1>2, FS_Singleton, Zenon
  <2>5. IsFiniteSet({i} \cup {j}) /\ Cardinality({i} \cup {j}) = 2
    <3>1. /\ IsFiniteSet({i} \cup {j})
          /\ Cardinality({i} \cup {j}) = Cardinality({i}) + 1
      BY <2>4, FS_AddElement, Zenon
    <3>2. QED
      BY <2>4, <3>1
  <2>6. {i} \cup {j} \subseteq Act
    BY <2>2, Zenon
  <2>7. Cardinality({i} \cup {j}) <= Cardinality(Act)
    BY <2>3, <2>6, FS_Subset
  <2>8. Cardinality(Act) \in Nat
    BY <2>3, FS_CardinalityType, Zenon
  <2>9. QED
    BY <2>3, <2>5, <2>7, <2>8, SMT, Z3
<1>3. DuplicatesNeedARetry
  BY <1>2 DEF DuplicatesNeedARetry, AtMostOneActive, Undisturbed
<1>4. QED
  BY <1>1, <1>3, Zenon

\* Duplicates (applyDecisionsWithRetry): with one worker, a rule never has more
\* active alerts than maxAttempts, however calls fail and rules come and go.
THEOREM SingleWorkerBoundsDuplicates == ASSUME SingleWorker PROVE Spec => []DuplicatesBounded
<1>1. TypeOK /\ OwnerInv /\ HealInv /\ DuplicatesInv /\ [Next]_vars
        => HealInv' /\ DuplicatesInv'
  BY NextHeal, NextDuplicates
<1>2. TypeOK /\ DuplicatesInv => DuplicatesBounded
  BY OneActive
<1>3. QED
  BY <1>1, <1>2, InitDuplicates, InitOwner, NextOwner, TypeCorrect, PTL DEF Spec

\* And with one worker there is no duplicate at all until a call fails, a reply is
\* lost or a rule is deleted: restarts, edits and requests never cause one.
THEOREM SingleWorkerOneAlert == ASSUME SingleWorker PROVE Spec => []DuplicatesNeedARetry
<1>1. TypeOK /\ OwnerInv /\ HealInv /\ DuplicatesInv /\ [Next]_vars
        => HealInv' /\ DuplicatesInv'
  BY NextHeal, NextDuplicates
<1>2. TypeOK /\ DuplicatesInv => DuplicatesNeedARetry
  BY OneActive
<1>3. QED
  BY <1>1, <1>2, InitDuplicates, InitOwner, NextOwner, TypeCorrect, PTL DEF Spec

=============================================================================
