----------------------------- MODULE PoolProofs -----------------------------
(***************************************************************************)
(* What the records of the ingestion service stand for, for every rule set *)
(* and pattern of failures: the debounce of the alert engine and the age   *)
(* of last_seen_at for every pool size, the times of alerts for one worker *)
(* (with two, an alert can be resolved before it was triggered).           *)
(***************************************************************************)
EXTENDS IngestionProofs

\* The debounce.  An alert is backed by DebounceN evaluations in a row that
\* breached its rule, and an automatic resolution by DebounceN in a row that did
\* not.  DebounceHonoured alone is not inductive.  A worker inserts an alert from
\* a decision it took earlier, and took the decision from a streak, so the
\* invariant also says what a streak and a pending decision stand for.

\* A streak counts the last evaluations of its rule, all with one outcome.
CountsTheEnd(state, outcomes) ==
  /\ state.Count <= Len(outcomes)
  /\ \A k \in (Len(outcomes) - state.Count + 1)..Len(outcomes) :
       outcomes[k] = state.Breaching

StreaksAreSuffixes == \A r \in RuleIds : CountsTheEnd(streaks[r], evaluated[r])

\* A decision has the run of evaluations it needs.
Backed(d, outcomes) ==
  \/ d.decision = "create" /\ HasRun(outcomes[d.rule], TRUE, DebounceN)
  \/ d.decision = "auto_resolve" /\ HasRun(outcomes[d.rule], FALSE, DebounceN)

PendingBacked ==
  \A w \in Workers : worker[w].stage = "apply" =>
    \A i \in DOMAIN worker[w].decisions : Backed(worker[w].decisions[i], evaluated)

DebounceInv ==
  /\ StreaksAreSuffixes
  /\ PendingBacked
  /\ DebounceHonoured

-----------------------------------------------------------------------------
\* Runs in a sequence of outcomes.
LEMMA HasRunAppend ==
  ASSUME NEW s \in Seq(BOOLEAN), NEW b \in BOOLEAN, NEW x \in BOOLEAN,
         NEW n \in Nat, HasRun(s, b, n)
  PROVE  HasRun(Append(s, x), b, n)
<1>1. PICK p \in n..Len(s) : \A k \in (p - n + 1)..p : s[k] = b
  BY DEF HasRun
<1>2. p \in n..Len(Append(s, x))
  BY <1>1, SMT, Z3
<1>3. \A k \in (p - n + 1)..p : k <= Len(s)
  BY <1>1
<1>4. CASE n = 0
  BY <1>2, <1>4 DEF HasRun
<1>5. CASE n # 0
  <2>1. \A k \in (p - n + 1)..p : Append(s, x)[k] = b
    BY <1>1, <1>3, <1>5
  <2>2. QED
    BY <1>2, <2>1 DEF HasRun
<1>6. QED
  BY <1>4, <1>5

LEMMA SuffixIsRun ==
  ASSUME NEW s \in Seq(BOOLEAN), NEW st \in BreachState, NEW n \in Nat,
         n <= st.Count, CountsTheEnd(st, s)
  PROVE  HasRun(s, st.Breaching, n)
<1>0. st.Count \in Nat
  BY DEF BreachState
<1>1. Len(s) \in n..Len(s)
  BY <1>0 DEF CountsTheEnd
<1>2. \A k \in (Len(s) - n + 1)..Len(s) : s[k] = st.Breaching
  BY <1>0, SMT, Z3 DEF CountsTheEnd
<1>3. QED
  BY <1>1, <1>2 DEF HasRun

-----------------------------------------------------------------------------
\* Evaluation.
LEMMA EvaluatedGrows ==
  ASSUME TypeOK, NEW w \in Workers, Evaluate(w), NEW r \in RuleIds
  PROVE  \/ evaluated'[r] = evaluated[r]
         \/ \E x \in BOOLEAN : evaluated'[r] = Append(evaluated[r], x)
<1>1. Triggered(worker[w].rules[r], Readings(w)) \in BOOLEAN
  BY TriggeredIsBoolean
<1>2. QED
  BY <1>1, Zenon DEF Evaluate

LEMMA RunsKept ==
  ASSUME TypeOK, NEW r \in RuleIds, NEW b \in BOOLEAN,
         UNCHANGED evaluated \/ \E w \in Workers : Evaluate(w),
         HasRun(evaluated[r], b, DebounceN)
  PROVE  HasRun(evaluated'[r], b, DebounceN)
<1>1. evaluated[r] \in Seq(BOOLEAN)
  BY DEF TypeOK
<1>2. CASE evaluated'[r] = evaluated[r]
  BY <1>2, Zenon
<1>3. CASE \E x \in BOOLEAN : evaluated'[r] = Append(evaluated[r], x)
  BY <1>1, <1>3, HasRunAppend, DebounceAssumption
<1>4. QED
  BY <1>2, <1>3, EvaluatedGrows

LEMMA StreakExtended ==
  ASSUME NEW s \in Seq(BOOLEAN), NEW st \in BreachState, NEW x \in BOOLEAN,
         CountsTheEnd(st, s)
  PROVE  /\ NextBreachState(st, x).Breaching = x
         /\ CountsTheEnd(NextBreachState(st, x), Append(s, x))
<1> DEFINE nst == NextBreachState(st, x)
           ns == Append(s, x)
<1>0. st.Count \in Nat /\ st.Breaching \in BOOLEAN
  BY DEF BreachState
<1>1. Len(ns) = Len(s) + 1 /\ ns[Len(s) + 1] = x /\ \A k \in 1..Len(s) : ns[k] = s[k]
  OBVIOUS
<1> HIDE DEF ns
<1>2. CASE st.Breaching = x
  <2>1. nst.Count = st.Count + 1 /\ nst.Breaching = x
    BY <1>2 DEF NextBreachState, BreachState
  <2>2. \A k \in (Len(s) + 1 - (st.Count + 1) + 1)..(Len(s) + 1) : ns[k] = x
    <3> TAKE k \in (Len(s) + 1 - (st.Count + 1) + 1)..(Len(s) + 1)
    <3>1. CASE k = Len(s) + 1
      BY <1>1, <3>1
    <3>2. CASE k # Len(s) + 1
      <4>1. k \in (Len(s) - st.Count + 1)..Len(s) /\ k \in 1..Len(s)
        BY <1>0, <3>2, SMT, Z3 DEF CountsTheEnd
      <4>2. QED
        BY <1>1, <1>2, <4>1, Zenon DEF CountsTheEnd
    <3>3. QED
      BY <3>1, <3>2
  <2> HIDE DEF nst
  <2>3. CountsTheEnd(nst, ns)
    BY <1>0, <1>1, <2>1, <2>2 DEF CountsTheEnd
  <2>4. QED
    BY <2>1, <2>3 DEF nst, ns
<1>3. CASE st.Breaching # x
  <2>1. nst.Count = 1 /\ nst.Breaching = x
    BY <1>3 DEF NextBreachState
  <2>2. \A k \in (Len(s) + 1 - 1 + 1)..(Len(s) + 1) : ns[k] = x
    BY <1>1
  <2> HIDE DEF nst
  <2>3. CountsTheEnd(nst, ns)
    BY <1>1, <2>1, <2>2, SMT, Z3 DEF CountsTheEnd
  <2>4. QED
    BY <2>1, <2>3 DEF nst, ns
<1>4. QED
  BY <1>2, <1>3

LEMMA EvaluateStreaks ==
  ASSUME TypeOK, StreaksAreSuffixes, NEW w \in Workers, Evaluate(w), NEW r \in RuleIds
  PROVE  /\ CountsTheEnd(streaks'[r], evaluated'[r])
         /\ r \in Evaluated(worker[w].rules, Readings(w))
              => streaks'[r].Breaching = Triggered(worker[w].rules[r], Readings(w))
<1> DEFINE x == Triggered(worker[w].rules[r], Readings(w))
<1>1. /\ x \in BOOLEAN /\ evaluated[r] \in Seq(BOOLEAN) /\ streaks[r] \in BreachState
      /\ CountsTheEnd(streaks[r], evaluated[r])
  BY TriggeredIsBoolean DEF TypeOK, StreaksAreSuffixes
<1>2. CASE r \in Evaluated(worker[w].rules, Readings(w))
  <2>1. /\ streaks'[r] = NextBreachState(streaks[r], x)
        /\ evaluated'[r] = Append(evaluated[r], x)
    BY <1>2 DEF Evaluate, NextStreaks
  <2> HIDE DEF x
  <2>2. streaks'[r].Breaching = x /\ CountsTheEnd(streaks'[r], evaluated'[r])
    BY <1>1, <2>1, StreakExtended, Zenon
  <2>3. QED
    BY <2>2, Zenon DEF x
<1>3. CASE r \notin Evaluated(worker[w].rules, Readings(w))
  <2>1. streaks'[r] = streaks[r] /\ evaluated'[r] = evaluated[r]
    BY <1>3 DEF Evaluate, NextStreaks
  <2>2. QED
    BY <1>1, <1>3, <2>1, Zenon
<1>4. QED
  BY <1>2, <1>3, Zenon

\* Every decision of an evaluation has its run.
LEMMA DecisionBacked ==
  ASSUME TypeOK, StreaksAreSuffixes, NEW w \in Workers, Evaluate(w),
         NEW d \in Decisions(worker[w].rules, Readings(w), worker[w].active, streaks')
  PROVE  Backed(d, evaluated')
<1> DEFINE r == d.rule
           x == Triggered(worker[w].rules[r], Readings(w))
<1>1. /\ r \in RuleIds /\ r \in Evaluated(worker[w].rules, Readings(w))
      /\ streaks'[r].Count >= DebounceN
      /\ (d.decision = "create" /\ x) \/ (d.decision = "auto_resolve" /\ ~x)
  BY Zenon DEF Decisions, RuleDecision
<1>2. streaks'[r] \in BreachState /\ evaluated'[r] \in Seq(BOOLEAN)
  <2>1. TypeOK'
    BY NextTypeOK, Zenon DEF Next, WorkerStep
  <2>2. QED
    BY <1>1, <2>1 DEF TypeOK
<1>3. streaks'[r].Breaching = x /\ CountsTheEnd(streaks'[r], evaluated'[r])
  BY <1>1, EvaluateStreaks, Zenon
<1>4. DebounceN \in Nat /\ DebounceN <= streaks'[r].Count
  BY <1>1, <1>2, DebounceAssumption, Zenon DEF BreachState
<1>5. HasRun(evaluated'[r], streaks'[r].Breaching, DebounceN)
  BY <1>2, <1>3, <1>4, SuffixIsRun, Zenon
<1>6. x \in BOOLEAN
  BY TriggeredIsBoolean
<1>7. CASE x
  BY <1>1, <1>3, <1>5, <1>7, Zenon DEF Backed
<1>8. CASE ~x
  BY <1>1, <1>3, <1>5, <1>6, <1>8, Zenon DEF Backed
<1>9. QED
  BY <1>7, <1>8, Zenon

LEMMA EvaluatePending ==
  ASSUME TypeOK, StreaksAreSuffixes, PendingBacked, NEW w \in Workers, Evaluate(w)
  PROVE  PendingBacked'
<1> SUFFICES ASSUME NEW v \in Workers, worker'[v].stage = "apply",
                    NEW i \in DOMAIN worker'[v].decisions
             PROVE  Backed(worker'[v].decisions[i], evaluated')
  BY Zenon DEF PendingBacked
<1>1. PICK ds \in DecisionLists(worker[w].rules, Readings(w), worker[w].active, streaks') :
        IF ds = <<>> THEN Return(w)
        ELSE worker' = [worker EXCEPT ![w].stage = "apply", ![w].decisions = ds]
  BY Zenon DEF Evaluate
<1>2. CASE v = w
  <2>1. worker'[w].decisions = ds
    BY <1>1, <1>2 DEF TypeOK, WorkerType, Return, IdleWorker
  <2>2. ds[i] \in Decisions(worker[w].rules, Readings(w), worker[w].active, streaks')
    BY <1>2, <2>1, DecisionListType
  <2>3. QED
    BY <1>2, <2>1, <2>2, DecisionBacked, Zenon
<1>3. CASE v # w
  <2>1. worker'[v] = worker[v]
    BY <1>1, <1>3, Zenon DEF TypeOK, Return
  <2> DEFINE d == worker[v].decisions[i]
  <2>2. Backed(d, evaluated) /\ d.rule \in RuleIds
    <3>1. worker[v].decisions \in Seq(RuleDecision)
      BY Zenon DEF TypeOK, WorkerType
    <3>2. d \in RuleDecision
      BY <2>1, <3>1
    <3>3. QED
      BY <2>1, <3>2, Zenon DEF PendingBacked, RuleDecision
  <2>3. QED
    BY <2>1, <2>2, RunsKept, Zenon DEF Backed
<1>4. QED
  BY <1>2, <1>3, Zenon

LEMMA EvaluateAlerts ==
  ASSUME TypeOK, DebounceHonoured, NEW w \in Workers, Evaluate(w)
  PROVE  DebounceHonoured'
<1>1. UNCHANGED alerts
  BY DEF Evaluate, storeVars
<1>2. \A i \in DOMAIN alerts : alerts[i].alert_rule_id \in RuleIds
  <2>1. \A i \in DOMAIN alerts : alerts[i] \in Alert
    BY SMT, Z3 DEF TypeOK, StoreTypeOK
  <2>2. QED
    BY <2>1, Zenon DEF Alert
<1>3. QED
  BY <1>1, <1>2, RunsKept, Zenon DEF DebounceHonoured

-----------------------------------------------------------------------------
\* Writing a decision: a new alert, or automatically resolved ones.
LEMMA StatementDebounce ==
  ASSUME TypeOK, PendingBacked, DebounceHonoured, NEW w \in Workers,
         worker[w].stage = "apply", Statement(w), UNCHANGED evaluated
  PROVE  DebounceHonoured'
<1> DEFINE d == worker[w].decisions[worker[w].next]
           Runs(r) == HasRun(evaluated[r], TRUE, DebounceN)
           Quiets(r) == HasRun(evaluated[r], FALSE, DebounceN)
<1>1. /\ worker[w].decisions \in Seq(RuleDecision) /\ worker[w].at \in Nat
      /\ worker[w].next \in DOMAIN worker[w].decisions
  BY Zenon DEF TypeOK, WorkerOK, WorkerType
<1>2. d \in RuleDecision /\ d.rule \in RuleIds
  <2>1. d \in RuleDecision
    BY <1>1
  <2>2. QED
    BY <2>1, Zenon DEF RuleDecision
<1>3. /\ d.decision = "create" => Runs(d.rule)
      /\ d.decision = "auto_resolve" => Quiets(d.rule)
  BY <1>1, Zenon DEF PendingBacked, Backed
<1>4. StoreTypeOK /\ Device(w) \in Devices
  BY ParsedDevice DEF TypeOK
<1>5. \A i \in DOMAIN alerts :
        /\ Runs(alerts[i].alert_rule_id)
        /\ alerts[i].status = "resolved" /\ alerts[i].resolved_by = NoUser
             => Quiets(alerts[i].alert_rule_id)
  BY Zenon DEF DebounceHonoured
<1> SUFFICES ASSUME NEW i \in DOMAIN alerts'
             PROVE  /\ Runs(alerts'[i].alert_rule_id)
                    /\ alerts'[i].status = "resolved" /\ alerts'[i].resolved_by = NoUser
                         => Quiets(alerts'[i].alert_rule_id)
  BY Zenon DEF DebounceHonoured
<1> DEFINE r == d.rule
           dev == Device(w)
           at == worker[w].at
           new == NewAlert(r, dev, at)
<1>6. /\ r \in RuleIds /\ dev \in Devices /\ at \in Nat
      /\ d.decision = "create" => Runs(r)
      /\ d.decision = "auto_resolve" => Quiets(r)
  BY <1>1, <1>2, <1>3, <1>4, Zenon
<1>7. new.alert_rule_id = r /\ new.status = "open"
  BY Zenon DEF NewAlert
<1>8. \/ d.decision = "create" /\ InsertAlert(r, dev, at)
      \/ d.decision = "auto_resolve" /\ AutoResolveAlerts(r, at)
  BY Zenon DEF Statement
<1> HIDE DEF Runs, Quiets, d, r, dev, at
<1>9. CASE d.decision = "create" /\ InsertAlert(r, dev, at)
  <2>1. \/ i \in DOMAIN alerts /\ alerts'[i] = alerts[i]
        \/ i \notin DOMAIN alerts /\ alerts'[i] = new
    BY <1>6, <1>4, <1>9, InsertRows, Zenon
  <2> HIDE DEF new
  <2>2. QED
    BY <1>6, <1>7, <1>5, <1>9, <2>1
<1>10. CASE d.decision = "auto_resolve" /\ AutoResolveAlerts(r, at)
  <2>1. /\ i \in DOMAIN alerts
        /\ \/ alerts'[i] = alerts[i]
           \/ alerts[i].alert_rule_id = r /\ alerts'[i] = Cleared(alerts[i], at)
    BY <1>6, <1>4, <1>10, AutoResolveRows, Zenon
  <2>2. alerts[i] \in Alert
    BY <1>4, <2>1 DEF StoreTypeOK
  <2>3. alerts'[i].alert_rule_id = alerts[i].alert_rule_id
    BY <2>1, <2>2, Zenon DEF Alert, Cleared
  <2>4. QED
    BY <1>6, <1>5, <1>10, <2>1, <2>3
<1>11. QED
  BY <1>8, <1>9, <1>10

\* A person's update never leaves a row resolved by nobody.
LEMMA RequestDebounce ==
  ASSUME TypeOK, DebounceHonoured, UNCHANGED evaluated,
         NEW i \in DOMAIN alerts, NEW u \in Users,
         AcknowledgeAlert(i, u, clock) \/ ResolveAlert(i, u, clock)
  PROVE  DebounceHonoured'
<1>1. StoreTypeOK /\ clock \in Nat
  BY DEF TypeOK
<1> SUFFICES ASSUME NEW j \in DOMAIN alerts'
             PROVE  /\ HasRun(evaluated[alerts'[j].alert_rule_id], TRUE, DebounceN)
                    /\ alerts'[j].status = "resolved" /\ alerts'[j].resolved_by = NoUser
                         => HasRun(evaluated[alerts'[j].alert_rule_id], FALSE, DebounceN)
  BY Zenon DEF DebounceHonoured
<1>2. /\ j \in DOMAIN alerts
      /\ \/ alerts'[j] = alerts[j]
         \/ alerts'[j] = Acknowledged(alerts[j], clock, u)
         \/ alerts'[j] = Resolved(alerts[j], clock, u)
  BY <1>1, RequestRows, Zenon
<1>3. alerts[j] \in Alert
  BY <1>1, <1>2 DEF StoreTypeOK
<1>4. /\ alerts'[j].alert_rule_id = alerts[j].alert_rule_id
      /\ \/ alerts'[j] = alerts[j] \/ alerts'[j].status = "acknowledged"
         \/ alerts'[j].resolved_by = u
  BY <1>2, <1>3, Zenon DEF Alert, Acknowledged, Resolved
<1>5. QED
  BY <1>2, <1>4, NullsAssumption, Zenon DEF DebounceHonoured

-----------------------------------------------------------------------------
LEMMA WorkerStepDebounce ==
  ASSUME TypeOK, DebounceInv, NEW w \in Workers, WorkerStep(w)
  PROVE  DebounceInv'
<1>1. CASE Evaluate(w)
  <2>1. StreaksAreSuffixes'
    BY <1>1, EvaluateStreaks DEF DebounceInv, StreaksAreSuffixes
  <2>2. QED
    BY <1>1, <2>1, EvaluatePending, EvaluateAlerts, Zenon DEF DebounceInv
<1>2. CASE ~Evaluate(w)
  <2>1. UNCHANGED <<streaks, evaluated>>
    BY <1>2, DecisionsKept, Zenon
  <2>2. StreaksAreSuffixes'
    BY <2>1, Zenon DEF DebounceInv, StreaksAreSuffixes
  <2>3. PendingBacked'
    BY <1>2, <2>1, DecisionsKept DEF DebounceInv, PendingBacked
  <2>4. DebounceHonoured'
    <3>1. CASE UNCHANGED storeVars
      BY <2>1, <3>1, Zenon DEF storeVars, DebounceInv, DebounceHonoured
    <3>2. CASE worker[w].stage = "apply" /\ Statement(w)
      BY <2>1, <3>2, StatementDebounce DEF DebounceInv
    <3>3. QED
      BY <3>1, <3>2, WorkerWrites
  <2>5. QED
    BY <2>2, <2>3, <2>4, Zenon DEF DebounceInv
<1>3. QED
  BY <1>1, <1>2

LEMMA RestartDebounce ==
  ASSUME TypeOK, DebounceInv, Restart
  PROVE  DebounceInv'
<1>1. StreaksAreSuffixes'
  <2> SUFFICES ASSUME NEW r \in RuleIds
               PROVE  CountsTheEnd(streaks'[r], evaluated'[r])
    BY DEF StreaksAreSuffixes
  <2>1. streaks'[r].Count = 0 /\ evaluated'[r] \in Seq(BOOLEAN)
    BY DEF Restart, ZeroBreachState, TypeOK
  <2>2. QED
    BY <2>1 DEF CountsTheEnd
<1>2. PendingBacked'
  BY DEF Restart, PendingBacked, IdleWorker
<1>3. DebounceHonoured'
  BY Zenon DEF Restart, storeVars, DebounceInv, DebounceHonoured
<1>4. QED
  BY <1>1, <1>2, <1>3 DEF DebounceInv

\* Steps that touch neither outcomes, streaks nor workers.
LEMMA EnvironmentDebounce ==
  ASSUME TypeOK, DebounceInv, UNCHANGED <<worker, streaks, evaluated>>,
         \/ UNCHANGED alerts
         \/ \E i \in DOMAIN alerts, u \in Users : Acknowledge(i, u) \/ Resolve(i, u)
  PROVE  DebounceInv'
<1>1. StreaksAreSuffixes' /\ PendingBacked'
  BY DEF DebounceInv, StreaksAreSuffixes, PendingBacked
<1>2. CASE UNCHANGED alerts
  BY <1>1, <1>2, Zenon DEF DebounceInv, DebounceHonoured
<1>3. CASE \E i \in DOMAIN alerts, u \in Users : Acknowledge(i, u) \/ Resolve(i, u)
  BY <1>1, <1>3, RequestDebounce DEF DebounceInv, Acknowledge, Resolve
<1>4. QED
  BY <1>2, <1>3, Zenon

LEMMA InitDebounce == Init => DebounceInv
<1> SUFFICES ASSUME Init PROVE DebounceInv
  BY Zenon
<1>1. StreaksAreSuffixes
  BY DEF Init, StreaksAreSuffixes, CountsTheEnd, ZeroBreachState
<1>2. PendingBacked
  BY Zenon DEF Init, PendingBacked, IdleWorker
<1>3. DebounceHonoured
  BY SMT, Z3 DEF Init, DebounceHonoured
<1>4. QED
  BY <1>1, <1>2, <1>3 DEF DebounceInv

LEMMA NextDebounce == TypeOK /\ DebounceInv /\ [Next]_vars => DebounceInv'
<1> SUFFICES ASSUME TypeOK, DebounceInv, [Next]_vars PROVE DebounceInv'
  OBVIOUS
<1>1. CASE \E w \in Workers : WorkerStep(w)
  BY <1>1, WorkerStepDebounce
<1>2. CASE Restart
  BY <1>2, RestartDebounce
<1>3. CASE \E i \in DOMAIN alerts, u \in Users : Acknowledge(i, u) \/ Resolve(i, u)
  <2>1. UNCHANGED <<worker, streaks, evaluated>>
    BY <1>3 DEF Acknowledge, Resolve, engineVars
  <2>2. QED
    BY <1>3, <2>1, EnvironmentDebounce, Zenon
<1>4. CASE \/ \E t \in Topics, p \in Payloads : Enqueue(t, p)
           \/ \E r \in RuleIds : EditRule(r)
           \/ DropMessage \/ Shutdown \/ Tick \/ Waiting \/ UNCHANGED vars
  <2>1. UNCHANGED <<alerts, worker, streaks, evaluated>>
    BY <1>4, Zenon DEF Enqueue, EditRule, InsertRule, UpdateRule, DeleteRule, DropMessage,
                Shutdown, Tick, Waiting, vars, storeVars, engineVars
  <2>2. QED
    BY <2>1, EnvironmentDebounce
<1>5. QED
  BY <1>1, <1>2, <1>3, <1>4 DEF Next

\* Debounce (EvaluateRules, BreachTracker, ApplyDecisions): no alert without
\* DebounceN breaching evaluations of its rule in a row, no automatic resolution
\* without DebounceN non-breaching ones, through races, retries, restarts and
\* rule edits.
THEOREM DebounceCorrect == Spec => []DebounceHonoured
<1>1. Init => TypeOK /\ DebounceInv
  BY InitTypeOK, InitDebounce
<1>2. (TypeOK /\ DebounceInv) /\ [Next]_vars => (TypeOK /\ DebounceInv)'
  BY NextTypeOK, NextDebounce
<1>3. DebounceInv => DebounceHonoured
  BY DEF DebounceInv
<1>4. QED
  BY <1>1, <1>2, <1>3, PTL DEF Spec
-----------------------------------------------------------------------------
\* last_seen_at: what the debounce of MaybeUpdateLastSeen may cost a device that
\* reports.

\* Past the critical section, a report is less than a debounce window after the
\* time the service last recorded for its device.
Checked == {"touch", "rules", "active", "evaluate", "apply"}

Recent(wk, sent) ==
  LET last == sent[wk.job.payload.device_id]
  IN  wk.stage \in Checked => last \in Nat /\ wk.at - last < LastSeenDebounce

LastSeenInv == \A w \in Workers : Recent(worker[w], lastSeenSent)

\* The time of a report is taken once.
LEMMA ReportKept ==
  ASSUME TypeOK, NEW w \in Workers, WorkerStep(w), ~CheckLastSeen(w),
         worker'[w].stage \in Checked
  PROVE  /\ worker[w].stage \in Checked
         /\ worker'[w].job = worker[w].job /\ worker'[w].at = worker[w].at
         /\ UNCHANGED lastSeenSent
<1>0. worker \in [Workers -> WorkerType] /\ worker[w] \in WorkerType
  BY Zenon DEF TypeOK
<1>1. CASE TakeJob(w)
  BY <1>0, <1>1 DEF TakeJob, WorkerType, Checked
<1>2. CASE StopWorker(w)
  BY <1>0, <1>2, Zenon DEF StopWorker, Goto, WorkerType, Checked
<1>3. CASE WriteTelemetry(w)
  BY <1>0, <1>3 DEF WriteTelemetry, Return, IdleWorker, WorkerType, Checked
<1>4. CASE UpdateLastSeen(w)
  BY <1>0, <1>4, Zenon DEF UpdateLastSeen, Goto, WorkerType, Checked
<1>5. CASE LoadEnabledRules(w)
  <2>1. ~Return(w) /\ worker[w].stage = "rules" /\ UNCHANGED lastSeenSent
    BY <1>0, <1>5 DEF LoadEnabledRules, Return, IdleWorker, Checked
  <2> DEFINE rules == EnabledRules(Device(w))
  <2>2. worker' = [worker EXCEPT ![w].stage = "active", ![w].rules = rules]
    BY <1>5, <2>1, Zenon DEF LoadEnabledRules
  <2> HIDE DEF rules
  <2>3. QED
    BY <1>0, <2>1, <2>2, Zenon DEF WorkerType, Checked
<1>6. CASE LoadActiveRuleIDs(w)
  BY <1>0, <1>6, SMT, Z3 DEF LoadActiveRuleIDs, Return, IdleWorker, WorkerType, Checked
<1>7. CASE Evaluate(w)
  BY <1>0, <1>7, SMT, Z3 DEF Evaluate, Return, IdleWorker, WorkerType, Checked
<1>8. CASE ApplyDecision(w)
  BY <1>0, <1>8 DEF ApplyDecision, NextAttempt, Return, IdleWorker, WorkerType, Checked
<1>9. QED
  BY <1>1, <1>2, <1>3, <1>4, <1>5, <1>6, <1>7, <1>8, Zenon DEF WorkerStep

\* The recorded time only moves forward.
LEMMA SentMovesOn ==
  ASSUME TypeOK, NEW w \in Workers, WorkerStep(w), NEW d \in Devices, lastSeenSent[d] \in Nat
  PROVE  lastSeenSent'[d] \in Nat /\ lastSeenSent'[d] >= lastSeenSent[d]
<1>0. /\ worker[w] \in WorkerType /\ worker[w].at \in Nat
      /\ lastSeenSent \in [Devices -> Nat \cup {Never}]
      /\ LastSeenDebounce \in Nat /\ lastSeenSent[d] # Never
  BY BoundsAssumption, NullsAssumption, Zenon DEF TypeOK, WorkerType
<1>1. CASE CheckLastSeen(w)
  BY <1>0, <1>1, SMT, Z3 DEF CheckLastSeen, LastSeenDue
<1>2. CASE ~CheckLastSeen(w)
  <2>1. UNCHANGED lastSeenSent
    BY <1>2, Zenon DEF WorkerStep, TakeJob, StopWorker, WriteTelemetry, UpdateLastSeen,
       LoadEnabledRules, LoadActiveRuleIDs, Evaluate, ApplyDecision
  <2>2. QED
    BY <1>0, <2>1, SMT, Z3
<1>3. QED
  BY <1>1, <1>2, Zenon

LEMMA CheckRecent ==
  ASSUME TypeOK, NEW w \in Workers, CheckLastSeen(w)
  PROVE  Recent(worker'[w], lastSeenSent')
<1> DEFINE d == Device(w)
           at == worker[w].at
<1>1. worker[w] \in WorkerType /\ worker \in [Workers -> WorkerType] /\ worker[w].stage = "seen"
  BY DEF TypeOK, CheckLastSeen
<1>2. d \in Devices /\ at \in Nat /\ lastSeenSent \in [Devices -> Nat \cup {Never}]
  BY <1>1, ParsedDevice, Zenon DEF TypeOK, WorkerType
<1>3. worker'[w].job = worker[w].job /\ worker'[w].at = at
  BY <1>1 DEF CheckLastSeen, Goto, WorkerType
<1>4. lastSeenSent' = [lastSeenSent EXCEPT ![d] = IF LastSeenDue(d, at) THEN at ELSE @]
  BY Zenon DEF CheckLastSeen
<1> HIDE DEF at
<1>5. lastSeenSent'[d] \in Nat /\ at - lastSeenSent'[d] < LastSeenDebounce
  <2>1. CASE LastSeenDue(d, at)
    BY <1>2, <1>4, <2>1, BoundsAssumption, SMT, Z3
  <2>2. CASE ~LastSeenDue(d, at)
    BY <1>2, <1>4, <2>2, BoundsAssumption, SMT, Z3 DEF LastSeenDue
  <2>3. QED
    BY <2>1, <2>2, Zenon
<1>6. QED
  BY <1>3, <1>5, Zenon DEF Recent, Device

LEMMA RecentKept ==
  ASSUME TypeOK, LastSeenInv, [Next]_vars, NEW v \in Workers
  PROVE  Recent(worker'[v], lastSeenSent')
<1>0. Recent(worker[v], lastSeenSent) /\ worker[v] \in WorkerType
  BY Zenon DEF LastSeenInv, TypeOK
<1>1. CASE worker'[v] = worker[v] /\ UNCHANGED lastSeenSent
  BY <1>0, <1>1
<1>2. CASE CheckLastSeen(v)
  BY <1>2, CheckRecent, Zenon
<1>3. CASE WorkerStep(v) /\ ~CheckLastSeen(v)
  BY <1>0, <1>3, ReportKept, Zenon DEF Recent
<1>4. CASE \E w \in Workers : w # v /\ WorkerStep(w)
  <2>1. PICK w \in Workers : w # v /\ WorkerStep(w)
    BY <1>4
  <2>2. worker'[v] = worker[v]
    BY <2>1, OtherWorkersKept, Zenon
  <2>3. CASE worker[v].stage \in Checked
    <3> DEFINE d == worker[v].job.payload.device_id
    <3>1. d \in Devices
      BY <2>3, ParsedDevice, Zenon DEF Checked, Device
    <3>2. worker[v].at \in Nat /\ lastSeenSent[d] \in Nat
          /\ worker[v].at - lastSeenSent[d] < LastSeenDebounce
      BY <1>0, <2>3, Zenon DEF Recent, WorkerType
    <3>3. lastSeenSent'[d] \in Nat /\ lastSeenSent'[d] >= lastSeenSent[d]
      BY <2>1, <3>1, <3>2, SentMovesOn, Zenon
    <3> HIDE DEF d
    <3>4. worker[v].at - lastSeenSent'[d] < LastSeenDebounce
      BY <3>2, <3>3, BoundsAssumption, SMT, Z3
    <3>5. QED
      BY <2>2, <3>3, <3>4, Zenon DEF Recent, d
  <2>4. CASE worker[v].stage \notin Checked
    BY <2>2, <2>4 DEF Recent
  <2>5. QED
    BY <2>3, <2>4
<1>5. CASE ~\E w \in Workers : WorkerStep(w)
  <2>1. CASE Restart
    BY <2>1, Zenon DEF Restart, IdleWorker, Recent, Checked
  <2>2. CASE ~Restart
    BY <1>1, <1>5, <2>2, Zenon DEF Next, Enqueue, DropMessage, Shutdown, Tick, Waiting,
       Acknowledge, Resolve, EditRule, engineVars, vars
  <2>3. QED
    BY <2>1, <2>2
<1>6. QED
  BY <1>2, <1>3, <1>4, <1>5, Zenon

LEMMA OnlineFollows == TypeOK /\ LastSeenInv => ReportedDeviceIsOnline
<1> SUFFICES ASSUME TypeOK, LastSeenInv, NEW w \in Workers,
                    worker[w].stage \in {"rules", "active", "evaluate", "apply"},
                    clock - worker[w].at <= OnlineThreshold - LastSeenDebounce
             PROVE  \/ isDeviceOnline(Device(w))
                    \/ /\ last_seen_at[Device(w)] # lastSeenSent[Device(w)]
                       /\ worker[w].at - lastSeenSent[Device(w)] < LastSeenDebounce
  BY Zenon DEF ReportedDeviceIsOnline
<1> DEFINE sent == lastSeenSent[Device(w)]
           at == worker[w].at
<1>1. sent \in Nat /\ at - sent < LastSeenDebounce
  BY Zenon DEF LastSeenInv, Recent, Checked, Device
<1>2. at \in Nat /\ clock \in Nat /\ LastSeenDebounce \in Nat /\ OnlineThreshold \in Nat
  BY BoundsAssumption, Zenon DEF TypeOK, WorkerType
<1>3. clock - at <= OnlineThreshold - LastSeenDebounce
  BY Zenon
<1> HIDE DEF sent, at
<1>4. sent # Never /\ clock - sent < OnlineThreshold
  BY <1>1, <1>2, <1>3, NullsAssumption
<1>5. QED
  BY <1>1, <1>4, Zenon DEF isDeviceOnline, sent, at

\* However many workers, failed UPDATEs and restarts: a device is shown online
\* for OnlineThreshold - LastSeenDebounce after each report, unless the latest
\* UPDATE is not in the table, and then only until the first report one debounce
\* window later.
THEOREM ReportedDevicesOnline == Spec => []ReportedDeviceIsOnline
<1>1. Init => LastSeenInv
  BY DEF Init, IdleWorker, LastSeenInv, Recent, Checked
<1>2. TypeOK /\ LastSeenInv /\ [Next]_vars => LastSeenInv'
  BY RecentKept, Zenon DEF LastSeenInv
<1>3. QED
  BY <1>1, <1>2, OnlineFollows, TypeCorrect, PTL DEF Spec

-----------------------------------------------------------------------------
\* Timestamps of one worker never run backwards.
Stamped == {"seen", "touch", "rules", "active", "evaluate", "apply"}

TimesInv ==
  /\ ResolvedNotBeforeTriggered
  /\ \A i \in DOMAIN alerts : alerts[i].triggered_at <= clock
  /\ \A w \in Workers :
       /\ worker[w].at <= clock
       /\ worker[w].stage \in Stamped =>
            \A i \in DOMAIN alerts : alerts[i].triggered_at <= worker[w].at

-----------------------------------------------------------------------------
\* Timestamps.  A row is as it was, or resolved now, or new now.
Rewritten(old, new, now) ==
  /\ new.triggered_at = old.triggered_at
  /\ new = old \/ new.status # "resolved" \/ new.resolved_at = now

LEMMA StatementTimes ==
  ASSUME TypeOK, NEW w \in Workers, worker[w].stage = "apply", Statement(w),
         NEW i \in DOMAIN alerts'
  PROVE  \/ i \in DOMAIN alerts /\ Rewritten(alerts[i], alerts'[i], worker[w].at)
         \/ alerts'[i].triggered_at = worker[w].at /\ alerts'[i].status = "open"
<1> DEFINE d == worker[w].decisions[worker[w].next]
           r == d.rule
           dev == Device(w)
           at == worker[w].at
<1>1. /\ worker[w].decisions \in Seq(RuleDecision) /\ at \in Nat
      /\ worker[w].next \in DOMAIN worker[w].decisions
  BY Zenon DEF TypeOK, WorkerOK, WorkerType
<1>2. d \in RuleDecision
  BY <1>1
<1>3. r \in RuleIds /\ dev \in Devices /\ StoreTypeOK
  BY <1>2, ParsedDevice, Zenon DEF RuleDecision, TypeOK
<1>4. InsertAlert(r, dev, at) \/ AutoResolveAlerts(r, at)
  BY Zenon DEF Statement
<1> HIDE DEF d, r, dev, at
<1> SUFFICES \/ i \in DOMAIN alerts /\ Rewritten(alerts[i], alerts'[i], at)
             \/ alerts'[i].triggered_at = at /\ alerts'[i].status = "open"
  BY Zenon DEF at
<1>5. CASE InsertAlert(r, dev, at)
  <2>1. \/ i \in DOMAIN alerts /\ alerts'[i] = alerts[i]
        \/ alerts'[i] = NewAlert(r, dev, at)
    BY <1>1, <1>3, <1>5, InsertRows
  <2>2. QED
    BY <2>1, SMT, Z3 DEF NewAlert, Rewritten
<1>6. CASE AutoResolveAlerts(r, at)
  <2>1. /\ i \in DOMAIN alerts
        /\ alerts'[i] = alerts[i] \/ alerts'[i] = Cleared(alerts[i], at)
    BY <1>1, <1>3, <1>6, AutoResolveRows, Zenon
  <2>2. alerts[i] \in Alert
    BY <1>3, <2>1, SMT, Z3 DEF StoreTypeOK
  <2>3. /\ Cleared(alerts[i], at).triggered_at = alerts[i].triggered_at
        /\ Cleared(alerts[i], at).resolved_at = at
    BY <2>2, Zenon DEF Cleared, Alert
  <2>4. QED
    BY <2>1, <2>3, Zenon DEF Rewritten
<1>7. QED
  BY <1>4, <1>5, <1>6, Zenon

LEMMA RequestTimes ==
  ASSUME TypeOK, NEW k \in DOMAIN alerts, NEW u \in Users, Acknowledge(k, u) \/ Resolve(k, u),
         NEW i \in DOMAIN alerts'
  PROVE  i \in DOMAIN alerts /\ Rewritten(alerts[i], alerts'[i], clock)
<1>1. /\ StoreTypeOK /\ clock \in Nat
      /\ AcknowledgeAlert(k, u, clock) \/ ResolveAlert(k, u, clock)
  BY Zenon DEF TypeOK, Acknowledge, Resolve
<1>2. /\ i \in DOMAIN alerts
      /\ \/ alerts'[i] = alerts[i]
         \/ alerts'[i] = Acknowledged(alerts[i], clock, u)
         \/ alerts'[i] = Resolved(alerts[i], clock, u)
  BY <1>1, RequestRows, Zenon
<1>3. alerts[i] \in Alert
  BY <1>1, <1>2, SMT, Z3 DEF StoreTypeOK
<1>4. /\ Acknowledged(alerts[i], clock, u).triggered_at = alerts[i].triggered_at
      /\ Acknowledged(alerts[i], clock, u).status = "acknowledged"
  BY <1>3, Zenon DEF Acknowledged, Alert
<1>5. /\ Resolved(alerts[i], clock, u).triggered_at = alerts[i].triggered_at
      /\ Resolved(alerts[i], clock, u).resolved_at = clock
  BY <1>3 DEF Resolved, Alert
<1>6. QED
  BY <1>2, <1>4, <1>5, Zenon DEF Rewritten

\* now := time.Now() comes once per message.
LEMMA StampKept ==
  ASSUME TypeOK, NEW w \in Workers, WorkerStep(w)
  PROVE  /\ worker'[w].at \in {0, clock, worker[w].at}
         /\ worker'[w].stage \in Stamped =>
              \/ worker'[w].at = clock /\ UNCHANGED alerts
              \/ worker[w].stage \in Stamped /\ worker'[w].at = worker[w].at
<1>0. worker \in [Workers -> WorkerType] /\ worker[w] \in WorkerType
  BY Zenon DEF TypeOK
<1>1. CASE TakeJob(w) \/ StopWorker(w)
  BY <1>0, <1>1, SMT, Z3 DEF TakeJob, StopWorker, Goto, WorkerType, Stamped
<1>2. CASE WriteTelemetry(w)
  BY <1>0, <1>2, SMT, Z3 DEF WriteTelemetry, Return, IdleWorker, WorkerType, Stamped, storeVars
<1>3. CASE CheckLastSeen(w) \/ UpdateLastSeen(w)
  BY <1>0, <1>3, SMT, Z3 DEF CheckLastSeen, UpdateLastSeen, Goto, WorkerType, Stamped
<1>4. CASE LoadEnabledRules(w)
  BY <1>0, <1>4, SMT, Z3 DEF LoadEnabledRules, Return, IdleWorker, WorkerType, Stamped
<1>5. CASE LoadActiveRuleIDs(w)
  BY <1>0, <1>5, SMT, Z3 DEF LoadActiveRuleIDs, Return, IdleWorker, WorkerType, Stamped
<1>6. CASE Evaluate(w)
  BY <1>0, <1>6, SMT, Z3 DEF Evaluate, Return, IdleWorker, WorkerType, Stamped
<1>7. CASE ApplyDecision(w)
  <2>1. \/ worker'[w] = IdleWorker
        \/ worker[w].stage = "apply" /\ worker'[w].at = worker[w].at
    BY <1>7, ApplyCases DEF Carried
  <2>2. QED
    BY <2>1, SMT, Z3 DEF IdleWorker, Stamped
<1>8. QED
  BY <1>1, <1>2, <1>3, <1>4, <1>5, <1>6, <1>7, Zenon DEF WorkerStep

LEMMA NextTimes ==
  ASSUME SingleWorker, TypeOK, TimesInv, [Next]_vars
  PROVE  TimesInv'
<1> DEFINE Ordered(row) == row.status = "resolved" => row.resolved_at >= row.triggered_at
<1>0. /\ clock \in Nat /\ worker \in [Workers -> WorkerType]
      /\ \A i \in DOMAIN alerts : alerts[i].triggered_at \in Nat
      /\ \A i \in DOMAIN alerts : Ordered(alerts[i]) /\ alerts[i].triggered_at <= clock
      /\ \A w \in Workers :
           /\ worker[w].at \in Nat /\ worker[w].at <= clock
           /\ worker[w].stage \in Stamped =>
                \A i \in DOMAIN alerts : alerts[i].triggered_at <= worker[w].at
  <2>1. \A i \in DOMAIN alerts : alerts[i] \in Alert
    BY SMT, Z3 DEF TypeOK, StoreTypeOK
  <2>2. \A i \in DOMAIN alerts : alerts[i].triggered_at \in Nat
    BY <2>1, Zenon DEF Alert
  <2>3. clock \in Nat /\ worker \in [Workers -> WorkerType]
    BY DEF TypeOK
  <2>4. \A w \in Workers : worker[w].at \in Nat
    BY <2>3, Zenon DEF WorkerType
  <2>5. QED
    BY <2>2, <2>3, <2>4, Zenon DEF TimesInv, ResolvedNotBeforeTriggered
<1>1. CASE \E w \in Workers : WorkerStep(w)
  <2>1. PICK w \in Workers : WorkerStep(w)
    BY <1>1, Zenon
  <2>2. UNCHANGED clock /\ \A v \in Workers : v = w
    BY <2>1, Zenon DEF SingleWorker, WorkerStep, TakeJob, StopWorker, WriteTelemetry, CheckLastSeen,
       UpdateLastSeen, LoadEnabledRules, LoadActiveRuleIDs, Evaluate, ApplyDecision
  <2>3. ASSUME NEW i \in DOMAIN alerts'
        PROVE  /\ Ordered(alerts'[i]) /\ alerts'[i].triggered_at <= clock
               /\ \/ UNCHANGED alerts
                  \/ worker[w].stage \in Stamped /\ alerts'[i].triggered_at <= worker[w].at
    <3>1. CASE UNCHANGED storeVars
      BY <1>0, <3>1, Zenon DEF storeVars
    <3>2. CASE worker[w].stage = "apply" /\ Statement(w)
      <4>1. worker[w].stage \in Stamped
        BY <3>2, Zenon DEF Stamped
      <4>2. CASE i \in DOMAIN alerts /\ Rewritten(alerts[i], alerts'[i], worker[w].at)
        BY <1>0, <4>1, <4>2, Zenon DEF Rewritten
      <4>3. CASE alerts'[i].triggered_at = worker[w].at /\ alerts'[i].status = "open"
        BY <1>0, <4>1, <4>3
      <4>4. QED
        BY <3>2, <4>2, <4>3, StatementTimes, Zenon
    <3>3. QED
      BY <2>1, <3>1, <3>2, WorkerWrites, Zenon
  <2>4. /\ worker'[w].at <= clock
        /\ worker'[w].stage \in Stamped =>
             \A i \in DOMAIN alerts' : alerts'[i].triggered_at <= worker'[w].at
    <3>1. worker'[w].at <= clock
      BY <1>0, <2>1, StampKept
    <3>2. ASSUME worker'[w].stage \in Stamped, NEW i \in DOMAIN alerts'
          PROVE  alerts'[i].triggered_at <= worker'[w].at
      <4>1. CASE worker'[w].at = clock
        BY <2>3, <4>1, Zenon
      <4>2. CASE worker[w].stage \in Stamped /\ worker'[w].at = worker[w].at
        BY <1>0, <2>3, <4>2, Zenon
      <4>3. QED
        BY <2>1, <3>2, <4>1, <4>2, StampKept, Zenon
    <3>3. QED
      BY <3>1, <3>2, Zenon
  <2>5. QED
    BY <2>2, <2>3, <2>4, Zenon DEF TimesInv, ResolvedNotBeforeTriggered
<1>2. CASE \E k \in DOMAIN alerts, u \in Users : Acknowledge(k, u) \/ Resolve(k, u)
  <2>1. \A i \in DOMAIN alerts' :
          i \in DOMAIN alerts /\ Rewritten(alerts[i], alerts'[i], clock)
    BY <1>2, RequestTimes, Zenon
  <2>2. ASSUME NEW i \in DOMAIN alerts'
        PROVE  /\ i \in DOMAIN alerts /\ Ordered(alerts'[i])
               /\ alerts'[i].triggered_at = alerts[i].triggered_at
    BY <1>0, <2>1, Zenon DEF Rewritten
  <2>3. UNCHANGED <<worker, clock>>
    BY <1>2 DEF Acknowledge, Resolve, engineVars
  <2>4. QED
    BY <1>0, <2>2, <2>3, Zenon DEF TimesInv, ResolvedNotBeforeTriggered
<1>3. CASE UNCHANGED alerts /\ ~\E w \in Workers : WorkerStep(w)
  <2>1. clock' \in Nat /\ clock <= clock'
    <3>1. UNCHANGED clock \/ clock' = clock + 1
      BY <1>3, Zenon DEF Next, Enqueue, DropMessage, Shutdown, Restart, Tick, Waiting,
         Acknowledge, Resolve, EditRule, engineVars, vars
    <3>2. QED
      BY <1>0, <3>1, SMT, Z3
  <2>2. CASE Restart
    BY <1>0, <1>3, <2>1, <2>2
       DEF Restart, IdleWorker, Stamped, TimesInv, ResolvedNotBeforeTriggered
  <2>3. CASE UNCHANGED worker
    <3>1. \A i \in DOMAIN alerts : alerts[i].triggered_at <= clock'
      BY <1>0, <2>1, SMT, Z3
    <3>2. \A w \in Workers : worker[w].at <= clock'
      BY <1>0, <2>1
    <3>3. QED
      BY <1>0, <1>3, <2>3, <3>1, <3>2, Zenon DEF TimesInv, ResolvedNotBeforeTriggered
  <2>4. QED
    BY <1>3, <2>2, <2>3, OthersSteps, Zenon
<1>4. QED
  BY <1>1, <1>2, <1>3, OthersSteps, Zenon DEF Restart, storeVars

\* Timestamps (process(), ApplyDecisions, transitionAlert): with one worker, no
\* alert is resolved before it was triggered.
THEOREM SingleWorkerTimes == ASSUME SingleWorker PROVE Spec => []ResolvedNotBeforeTriggered
<1>1. Init => TimesInv
  BY SMT, Z3 DEF Init, TimesInv, ResolvedNotBeforeTriggered, IdleWorker, Stamped
<1>2. TypeOK /\ TimesInv /\ [Next]_vars => TimesInv'
  BY NextTimes, Zenon
<1>3. TimesInv => ResolvedNotBeforeTriggered
  BY DEF TimesInv
<1>4. QED
  BY <1>1, <1>2, <1>3, TypeCorrect, PTL DEF Spec
=============================================================================
