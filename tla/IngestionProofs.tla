-------------------------- MODULE IngestionProofs ---------------------------
(***************************************************************************)
(* Proofs about Ingestion for every number of workers, rules, devices and  *)
(* users, and every bound: every step keeps its types, resolved alerts are *)
(* final, the table implements AlertLifecycle, and every alert points at a *)
(* live rule of its device.                                                *)
(***************************************************************************)
EXTENDS Ingestion, AlertStoreProofs

\* An idle worker is a worker.
LEMMA IdleWorkerType == IdleWorker \in WorkerType
BY SMT, Z3 DEF IdleWorker, WorkerType, Stages, Job, NoJob, maxAttempts

\* A message that parses names a device and carries readings.
LEMMA ParsedDevice ==
  ASSUME TypeOK, NEW w \in Workers, worker[w].stage \notin {"idle", "stopped"}
  PROVE  /\ worker[w].job.payload \in Payload
         /\ Device(w) \in Devices
BY DEF TypeOK, WorkerOK, WorkerType, Job, Parses, Device, Payload

-----------------------------------------------------------------------------
\* Types.
LEMMA InitTypeOK == Init => TypeOK
<1> SUFFICES ASSUME Init PROVE TypeOK
  BY Zenon
<1>1. worker \in [Workers -> WorkerType] /\ \A w \in Workers : WorkerOK(w)
  BY IdleWorkerType DEF Init, WorkerOK, IdleWorker
<1>2. StoreTypeOK
  BY InitialRulesAssumption, SMT, Z3 DEF Init, StoreTypeOK
<1>3. streaks \in [RuleIds -> BreachState]
  BY DEF Init, ZeroBreachState, BreachState
<1>4. used \in Used
  BY DEF Init, Used
<1>5. /\ jobs \in Seq(Job) /\ arrivals \in Seq(Job)
      /\ evaluated \in [RuleIds -> Seq(BOOLEAN)]
  BY DEF Init
<1>6. /\ lastSeenSent \in [Devices -> Nat \cup {Never}] /\ ctxDone \in BOOLEAN
      /\ last_seen_at \in [Devices -> Nat \cup {Never}]
      /\ telemetry_raw \subseteq Nat /\ clock \in Nat
  BY Zenon DEF Init
<1>7. QED
  BY <1>1, <1>2, <1>3, <1>4, <1>5, <1>6 DEF TypeOK

\* One step per step of process(), and one for everybody else's.
LEMMA NextTypeOK == TypeOK /\ [Next]_vars => TypeOK'
\* The updates of a worker's local variables that process() makes.
<1>WorkerUpdateType.
  ASSUME NEW rec \in WorkerType, NEW s \in Stages
  PROVE  /\ [rec EXCEPT !.stage = s] \in WorkerType
         /\ \A j \in Job : [rec EXCEPT !.stage = s, !.job = j] \in WorkerType
         /\ \A t \in Nat : [rec EXCEPT !.stage = s, !.at = t] \in WorkerType
         /\ \A ds \in Seq(RuleDecision) :
              [rec EXCEPT !.stage = s, !.decisions = ds] \in WorkerType
  <2> USE <1>WorkerUpdateType
  <2>1. [rec EXCEPT !.stage = s] \in WorkerType
    BY DEF WorkerType
  <2> DEFINE r2 == [rec EXCEPT !.stage = s]
  <2> HIDE DEF r2
  <2>2. r2 \in WorkerType
    BY <2>1 DEF r2
  <2>3. \A j \in Job : [r2 EXCEPT !.job = j] \in WorkerType
    BY <2>2 DEF WorkerType
  <2>4. \A t \in Nat : [r2 EXCEPT !.at = t] \in WorkerType
    BY <2>2, Zenon DEF WorkerType
  <2>5. \A ds \in Seq(RuleDecision) : [r2 EXCEPT !.decisions = ds] \in WorkerType
    BY <2>2, Zenon DEF WorkerType
  <2>6. QED
    BY <2>1, <2>3, <2>4, <2>5, Zenon DEF r2
<1>StageNames.
  {"write", "seen", "rules", "active", "evaluate", "apply", "stopped"} \subseteq Stages
  BY DEF Stages
\* Leaving process() keeps the workers well formed.
<1>ReturnType.
  ASSUME TypeOK, NEW w \in Workers, Return(w)
  PROVE  /\ worker' \in [Workers -> WorkerType]
         /\ worker'[w] = IdleWorker
         /\ \A v \in Workers \ {w} : worker'[v] = worker[v]
  BY <1>ReturnType, IdleWorkerType DEF Return, TypeOK
\* The parts of TypeOK, for steps that leave the worker records alone.
<1>TypeOKWithSameWorkers.
  ASSUME TypeOK, UNCHANGED worker, StoreTypeOK',
         jobs' \in Seq(Job), streaks' \in [RuleIds -> BreachState],
         lastSeenSent' \in [Devices -> Nat \cup {Never}], ctxDone' \in BOOLEAN,
         last_seen_at' \in [Devices -> Nat \cup {Never}], telemetry_raw' \subseteq Nat,
         clock' \in Nat, arrivals' \in Seq(Job),
         used' \in Used,
         evaluated' \in [RuleIds -> Seq(BOOLEAN)]
  PROVE  TypeOK'
  BY <1>TypeOKWithSameWorkers DEF TypeOK, WorkerOK, Parses
\* A failed or unanswered call only spends a bound.
<1>UsedType.
  ASSUME TypeOK, CallSucceeds \/ CallFails \/ ReplyLost
  PROVE  used' \in Used
  <2> USE <1>UsedType
  <2>1. used \in Used
    BY DEF TypeOK
  <2>2. CASE CallSucceeds
    BY <2>1, <2>2 DEF CallSucceeds
  <2>3. CASE CallFails
    <3>1. CASE ctxDone
      BY <2>1, <2>3, <3>1 DEF CallFails
    <3>2. CASE ~ctxDone
      BY <2>1, <2>3, <3>2 DEF CallFails, Used
    <3>3. QED
      BY <3>1, <3>2
  <2>4. CASE ReplyLost
    BY <2>1, <2>4 DEF ReplyLost, Used
  <2>5. QED
    BY <2>2, <2>3, <2>4
\* A step of worker w alone that ends in a well-formed record keeps TypeOK.
<1>TypeOKWithOneWorker.
  ASSUME TypeOK, NEW w \in Workers, NEW rec \in WorkerType,
         worker' = [worker EXCEPT ![w] = rec], WorkerOK(w)', StoreTypeOK',
         jobs' \in Seq(Job), streaks' \in [RuleIds -> BreachState],
         lastSeenSent' \in [Devices -> Nat \cup {Never}], UNCHANGED ctxDone,
         last_seen_at' \in [Devices -> Nat \cup {Never}], telemetry_raw' \subseteq Nat,
         UNCHANGED <<clock, arrivals>>,
         used' \in Used,
         evaluated' \in [RuleIds -> Seq(BOOLEAN)]
  PROVE  TypeOK'
  <2> USE <1>TypeOKWithOneWorker
  <2>1. worker' \in [Workers -> WorkerType]
    BY DEF TypeOK
  <2>2. \A v \in Workers \ {w} : worker'[v] = worker[v]
    BY Zenon DEF TypeOK
  <2>3. \A v \in Workers : WorkerOK(v)'
    BY <2>2 DEF TypeOK, WorkerOK, Parses
  <2>4. QED
    BY <2>1, <2>3, Zenon DEF TypeOK
<1>TakeJobTypeOK.
  ASSUME TypeOK, NEW w \in Workers, TakeJob(w)
  PROVE  TypeOK'
  <2> USE <1>TakeJobTypeOK
  <2>1. /\ Head(jobs) \in Job
        /\ jobs' \in Seq(Job)
    BY SMT, Z3 DEF TypeOK, TakeJob
  <2>2. CASE ~Parses(Head(jobs))
    BY <2>1, <2>2, <1>TypeOKWithSameWorkers DEF TakeJob, TypeOK, storeVars, StoreTypeOK
  <2>3. CASE Parses(Head(jobs))
    <3> DEFINE rec == [worker[w] EXCEPT !.stage = "write", !.job = Head(jobs)]
    <3>1. rec \in WorkerType
      <4>1. worker[w] \in WorkerType /\ "write" \in Stages
        BY <1>StageNames DEF TypeOK
      <4>2. QED
        BY <2>1, <4>1, <1>WorkerUpdateType, Zenon
    <3>2. worker' = [worker EXCEPT ![w] = rec]
      BY <2>3, Zenon DEF TakeJob, TypeOK
    <3>3. /\ worker'[w].stage = "write" /\ worker'[w].job = Head(jobs)
          /\ worker'[w].next = worker[w].next
      BY <3>2, <3>1, Zenon DEF TypeOK, WorkerType
    <3>4. WorkerOK(w)'
      BY <2>3, <3>3 DEF WorkerOK, Parses, TypeOK, TakeJob
    <3>5. QED
      BY <2>1, <3>1, <3>2, <3>4, <1>TypeOKWithOneWorker, Zenon
         DEF TakeJob, TypeOK, storeVars, StoreTypeOK
  <2>4. QED
    BY <2>2, <2>3
\* process() returning, for a step that changes nothing else but what it may.
<1>ReturnTypeOK.
  ASSUME TypeOK, NEW w \in Workers, Return(w), StoreTypeOK',
         jobs' \in Seq(Job), streaks' \in [RuleIds -> BreachState],
         lastSeenSent' \in [Devices -> Nat \cup {Never}], UNCHANGED ctxDone,
         last_seen_at' \in [Devices -> Nat \cup {Never}], telemetry_raw' \subseteq Nat,
         UNCHANGED <<clock, arrivals>>, used' \in Used,
         evaluated' \in [RuleIds -> Seq(BOOLEAN)]
  PROVE  TypeOK'
  <2> USE <1>ReturnTypeOK
  <2>1. worker'[w].stage = "idle" /\ worker'[w].next = 1
    BY <1>ReturnType, SMT, Z3 DEF IdleWorker
  <2>2. WorkerOK(w)'
    BY <2>1 DEF WorkerOK
  <2>3. QED
    BY <2>2, IdleWorkerType, <1>TypeOKWithOneWorker, Zenon DEF Return
\* process() moving on to another call with the same message.
<1>AdvanceTypeOK.
  ASSUME TypeOK, NEW w \in Workers, NEW rec \in WorkerType,
         worker' = [worker EXCEPT ![w] = rec],
         worker[w].stage \notin {"idle", "stopped"}, rec.job = worker[w].job,
         \/ /\ rec.stage # "apply" /\ worker[w].stage # "apply"
            /\ rec.next = worker[w].next
         \/ rec.stage = "apply" /\ rec.next \in DOMAIN rec.decisions,
         StoreTypeOK',
         jobs' \in Seq(Job), streaks' \in [RuleIds -> BreachState],
         lastSeenSent' \in [Devices -> Nat \cup {Never}], UNCHANGED ctxDone,
         last_seen_at' \in [Devices -> Nat \cup {Never}], telemetry_raw' \subseteq Nat,
         UNCHANGED <<clock, arrivals>>, used' \in Used,
         evaluated' \in [RuleIds -> Seq(BOOLEAN)]
  PROVE  TypeOK'
  <2> USE <1>AdvanceTypeOK
  <2>1. worker'[w] = rec
    BY Zenon DEF TypeOK
  <2>2. WorkerOK(w)'
    BY <2>1 DEF TypeOK, WorkerOK, Parses
  <2>3. QED
    BY <2>2, <1>TypeOKWithOneWorker, Zenon
<1>StopWorkerTypeOK.
  ASSUME TypeOK, NEW w \in Workers, StopWorker(w)
  PROVE  TypeOK'
  <2> USE <1>StopWorkerTypeOK
  <2> DEFINE rec == [worker[w] EXCEPT !.stage = "stopped"]
  <2>1. rec \in WorkerType
    <3>1. worker[w] \in WorkerType /\ "stopped" \in Stages
      BY <1>StageNames DEF TypeOK
    <3>2. QED
      BY <3>1, <1>WorkerUpdateType, Zenon
  <2>2. worker' = [worker EXCEPT ![w] = rec]
    BY DEF StopWorker, Goto, TypeOK
  <2>3. worker'[w].stage = "stopped" /\ worker'[w].next = worker[w].next
    BY <2>2, <2>1, Zenon DEF TypeOK, WorkerType
  <2>4. WorkerOK(w)'
    BY <2>3 DEF WorkerOK, TypeOK, StopWorker
  <2>5. QED
    BY <2>1, <2>2, <2>4, <1>TypeOKWithOneWorker, Zenon
       DEF StopWorker, TypeOK, storeVars, StoreTypeOK
<1>WriteTelemetryTypeOK.
  ASSUME TypeOK, NEW w \in Workers, WriteTelemetry(w)
  PROVE  TypeOK'
  <2> USE <1>WriteTelemetryTypeOK
  <2>1. worker[w].job.id \in Nat
    BY DEF TypeOK, WorkerType, Job
  <2>2. telemetry_raw' \subseteq Nat
    BY <2>1 DEF TypeOK, WriteTelemetry
  <2>3. used' \in Used
    BY <1>UsedType DEF WriteTelemetry
  <2>4. CASE Return(w)
    BY <2>2, <2>3, <2>4, <1>ReturnTypeOK, Zenon DEF WriteTelemetry, TypeOK, storeVars, StoreTypeOK
  <2>5. CASE worker' = [worker EXCEPT ![w].stage = "seen", ![w].at = clock]
    <3> DEFINE rec == [worker[w] EXCEPT !.stage = "seen", !.at = clock]
    <3>1. rec \in WorkerType
      <4>1. worker[w] \in WorkerType /\ "seen" \in Stages /\ clock \in Nat
        BY <1>StageNames DEF TypeOK
      <4>2. QED
        BY <4>1, <1>WorkerUpdateType, Zenon
    <3>2. worker' = [worker EXCEPT ![w] = rec]
      BY <2>5, Zenon DEF TypeOK
    <3>3. rec.job = worker[w].job /\ rec.next = worker[w].next /\ rec.stage = "seen"
      BY DEF TypeOK, WorkerType
    <3>4. QED
      BY <2>2, <2>3, <3>1, <3>2, <3>3, <1>AdvanceTypeOK, Zenon
         DEF WriteTelemetry, TypeOK, storeVars, StoreTypeOK
  <2>6. QED
    BY <2>4, <2>5, Zenon DEF WriteTelemetry
<1>CheckLastSeenTypeOK.
  ASSUME TypeOK, NEW w \in Workers, CheckLastSeen(w)
  PROVE  TypeOK'
  <2> USE <1>CheckLastSeenTypeOK
  <2> DEFINE st == IF LastSeenDue(Device(w), worker[w].at) THEN "touch" ELSE "rules"
             rec == [worker[w] EXCEPT !.stage = st]
  <2>0. st \in Stages /\ st # "apply"
    BY DEF Stages
  <2>2. worker' = [worker EXCEPT ![w] = rec]
    BY DEF CheckLastSeen, Goto, TypeOK
  <2> HIDE DEF st
  <2>1. rec \in WorkerType
    BY <2>0, Zenon DEF TypeOK, WorkerType
  <2>3. rec.job = worker[w].job /\ rec.next = worker[w].next /\ rec.stage # "apply"
    BY <2>0 DEF TypeOK, WorkerType
  <2>4. lastSeenSent' \in [Devices -> Nat \cup {Never}]
    <3>1. worker[w].at \in Nat
      BY DEF TypeOK, WorkerType
    <3>2. QED
      BY <3>1, ParsedDevice, Zenon DEF CheckLastSeen, TypeOK
  <2>5. QED
    BY <2>1, <2>2, <2>3, <2>4, <1>AdvanceTypeOK, Zenon
       DEF CheckLastSeen, TypeOK, storeVars, StoreTypeOK
<1>UpdateLastSeenTypeOK.
  ASSUME TypeOK, NEW w \in Workers, UpdateLastSeen(w)
  PROVE  TypeOK'
  <2> USE <1>UpdateLastSeenTypeOK
  <2> DEFINE rec == [worker[w] EXCEPT !.stage = "rules"]
  <2>1. rec \in WorkerType
    <3>1. worker[w] \in WorkerType /\ "rules" \in Stages
      BY <1>StageNames DEF TypeOK
    <3>2. QED
      BY <3>1, <1>WorkerUpdateType, Zenon
  <2>2. worker' = [worker EXCEPT ![w] = rec]
    BY DEF UpdateLastSeen, Goto, TypeOK
  <2>3. rec.job = worker[w].job /\ rec.next = worker[w].next /\ rec.stage # "apply"
    BY DEF TypeOK, WorkerType
  <2>4. last_seen_at' \in [Devices -> Nat \cup {Never}]
    <3>1. worker[w].at \in Nat
      BY DEF TypeOK, WorkerType
    <3>2. QED
      BY <3>1, ParsedDevice, Zenon DEF UpdateLastSeen, TypeOK
  <2>5. used' \in Used
    BY <1>UsedType DEF UpdateLastSeen
  <2>6. QED
    BY <2>1, <2>2, <2>3, <2>4, <2>5, <1>AdvanceTypeOK, Zenon
       DEF UpdateLastSeen, TypeOK, storeVars, StoreTypeOK
<1>LoadEnabledRulesTypeOK.
  ASSUME TypeOK, NEW w \in Workers, LoadEnabledRules(w)
  PROVE  TypeOK'
  <2> USE <1>LoadEnabledRulesTypeOK
  <2>1. EnabledRules(Device(w)) \in [RuleIds -> Rule \cup {NoRule}]
    BY DEF EnabledRules, LiveRules
  <2>2. used' \in Used
    BY <1>UsedType DEF LoadEnabledRules
  <2>3. CASE Return(w)
    BY <2>2, <2>3, <1>ReturnTypeOK, Zenon DEF LoadEnabledRules, TypeOK, storeVars, StoreTypeOK
  <2>4. CASE ~Return(w)
    <3> DEFINE rules == EnabledRules(Device(w))
               rec == [worker[w] EXCEPT !.stage = "active", !.rules = rules]
    <3>2. worker' = [worker EXCEPT ![w] = rec]
      BY <2>4, Zenon DEF LoadEnabledRules, TypeOK
    <3>0. rules \in [RuleIds -> Rule \cup {NoRule}] /\ worker[w] \in WorkerType
      BY <2>1 DEF TypeOK
    <3> HIDE DEF rules
    <3>1. rec \in WorkerType
      BY <3>0, Zenon DEF WorkerType, Stages
    <3>3. rec.job = worker[w].job /\ rec.next = worker[w].next /\ rec.stage = "active"
      BY DEF TypeOK, WorkerType
    <3>4. QED
      BY <2>2, <3>1, <3>2, <3>3, <1>AdvanceTypeOK, Zenon
         DEF LoadEnabledRules, TypeOK, storeVars, StoreTypeOK
  <2>5. QED
    BY <2>3, <2>4
<1>LoadActiveRuleIDsTypeOK.
  ASSUME TypeOK, NEW w \in Workers, LoadActiveRuleIDs(w)
  PROVE  TypeOK'
  <2> USE <1>LoadActiveRuleIDsTypeOK
  <2>1. ActiveRuleIDs(Device(w)) \in SUBSET RuleIds
    <3>1. \A i \in DOMAIN alerts : alerts[i] \in Alert
      BY DEF TypeOK, StoreTypeOK
    <3>2. \A i \in DOMAIN alerts : alerts[i].alert_rule_id \in RuleIds
      BY <3>1 DEF Alert
    <3>3. QED
      BY <3>2, Zenon DEF ActiveRuleIDs
  <2>2. used' \in Used
    BY <1>UsedType DEF LoadActiveRuleIDs
  <2>3. CASE Return(w)
    BY <2>2, <2>3, <1>ReturnTypeOK, Zenon DEF LoadActiveRuleIDs, TypeOK, storeVars, StoreTypeOK
  <2>4. CASE ~Return(w)
    <3> DEFINE ids == ActiveRuleIDs(Device(w))
               rec == [worker[w] EXCEPT !.stage = "evaluate", !.active = ids]
    <3>2. worker' = [worker EXCEPT ![w] = rec]
      BY <2>4, Zenon DEF LoadActiveRuleIDs, TypeOK
    <3>0. ids \in SUBSET RuleIds /\ worker[w] \in WorkerType
      BY <2>1 DEF TypeOK
    <3> HIDE DEF ids
    <3>1. rec \in WorkerType
      BY <3>0, Zenon DEF WorkerType, Stages
    <3>3. rec.job = worker[w].job /\ rec.next = worker[w].next /\ rec.stage = "evaluate"
      BY DEF TypeOK, WorkerType
    <3>4. QED
      BY <2>2, <3>1, <3>2, <3>3, <1>AdvanceTypeOK, Zenon
         DEF LoadActiveRuleIDs, TypeOK, storeVars, StoreTypeOK
  <2>5. QED
    BY <2>3, <2>4
<1>EvaluateTypeOK.
  ASSUME TypeOK, NEW w \in Workers, Evaluate(w)
  PROVE  TypeOK'
  <2> USE <1>EvaluateTypeOK
  <2> DEFINE rules == worker[w].rules
             fired == Evaluated(rules, Readings(w))
  <2>1. streaks' \in [RuleIds -> BreachState]
    <3>1. \A r \in RuleIds : NextBreachState(streaks[r], Triggered(rules[r], Readings(w)))
                               \in BreachState
      BY TriggeredIsBoolean, NextBreachStateType DEF TypeOK
    <3>2. QED
      BY <3>1, Zenon DEF Evaluate, NextStreaks, TypeOK
  <2>2. evaluated' \in [RuleIds -> Seq(BOOLEAN)]
    <3>1. \A r \in RuleIds : Append(evaluated[r], Triggered(rules[r], Readings(w)))
                               \in Seq(BOOLEAN)
      BY TriggeredIsBoolean DEF TypeOK
    <3>2. QED
      BY <3>1, Zenon DEF Evaluate, TypeOK
  <2>3. PICK ds \in DecisionLists(rules, Readings(w), worker[w].active, streaks') :
          IF ds = <<>> THEN Return(w)
          ELSE worker' = [worker EXCEPT ![w].stage = "apply", ![w].decisions = ds]
    BY DEF Evaluate
  <2>4. ds \in Seq(RuleDecision)
    BY DecisionListType
  <2>5. CASE ds = <<>>
    <3>1. Return(w)
      BY <2>3, <2>5
    <3>2. QED
      BY <2>1, <2>2, <3>1, <1>ReturnTypeOK, Zenon DEF Evaluate, TypeOK, storeVars, StoreTypeOK
  <2>6. CASE ds # <<>>
    <3> DEFINE rec == [worker[w] EXCEPT !.stage = "apply", !.decisions = ds]
    <3>1. rec \in WorkerType
      <4>1. worker[w] \in WorkerType /\ "apply" \in Stages
        BY <1>StageNames DEF TypeOK
      <4>2. QED
        BY <2>4, <4>1, <1>WorkerUpdateType, Zenon
    <3>2. worker' = [worker EXCEPT ![w] = rec]
      BY <2>3, <2>6, Zenon DEF TypeOK
    <3>3. /\ rec.job = worker[w].job /\ rec.stage = "apply"
          /\ rec.next = worker[w].next /\ rec.decisions = ds
      BY Zenon DEF TypeOK, WorkerType
    <3>4. worker[w].next = 1
      BY DEF TypeOK, WorkerOK, Evaluate
    <3>5. 1 \in DOMAIN ds
      BY <2>4, <2>6
    <3>6. QED
      BY <2>1, <2>2, <3>1, <3>2, <3>3, <3>4, <3>5, <1>AdvanceTypeOK, Zenon
         DEF Evaluate, TypeOK, storeVars, StoreTypeOK
  <2>7. QED
    BY <2>5, <2>6, Zenon
\* The loop variables of ApplyDecisions and applyDecisionsWithRetry.
<1>NextFieldType.
  ASSUME NEW r \in WorkerType, r.next + 1 \in Nat
  PROVE  [r EXCEPT !.next = @ + 1] \in WorkerType
  <2> USE <1>NextFieldType
  <2> DEFINE n == r.next + 1
  <2> HIDE DEF n
  <2>1. n \in Nat
    BY DEF n
  <2>2. [r EXCEPT !.next = n] \in WorkerType
    BY <2>1 DEF WorkerType
  <2>3. QED
    BY <2>2 DEF n
<1>AttemptFieldType.
  ASSUME NEW r \in WorkerType, r.attempt + 1 \in 1..maxAttempts
  PROVE  [r EXCEPT !.attempt = @ + 1, !.next = 1] \in WorkerType
  <2> USE <1>AttemptFieldType
  <2> DEFINE n == r.attempt + 1
  <2> HIDE DEF n
  <2>1. n \in 1..maxAttempts
    BY DEF n
  <2>2. [r EXCEPT !.attempt = n, !.next = 1] \in WorkerType
    BY <2>1, Zenon DEF WorkerType
  <2>3. QED
    BY <2>2 DEF n
\* One statement of ApplyDecisions.
<1>StatementType.
  ASSUME TypeOK, NEW w \in Workers, worker[w].stage = "apply", Statement(w)
  PROVE  StoreTypeOK'
  <2> USE <1>StatementType
  <2> DEFINE d == worker[w].decisions[worker[w].next]
  <2>1. /\ worker[w].decisions \in Seq(RuleDecision) /\ worker[w].at \in Nat
        /\ worker[w].next \in DOMAIN worker[w].decisions
    BY Zenon DEF TypeOK, WorkerOK, WorkerType
  <2>2. d.rule \in RuleIds
    <3>1. d \in RuleDecision
      BY <2>1
    <3>2. QED
      BY <3>1, Zenon DEF RuleDecision
  <2>3. Device(w) \in Devices
    BY ParsedDevice
  <2>4. StoreTypeOK
    BY Zenon DEF TypeOK
  <2>5. CASE InsertAlert(d.rule, Device(w), worker[w].at)
    BY <2>1, <2>2, <2>3, <2>4, <2>5, InsertAlertType, Zenon
  <2>6. CASE AutoResolveAlerts(d.rule, worker[w].at)
    BY <2>1, <2>2, <2>4, <2>6, AutoResolveType, Zenon
  <2>7. QED
    BY <2>5, <2>6, Zenon DEF Statement
<1>ApplyDecisionTypeOK.
  ASSUME TypeOK, NEW w \in Workers, ApplyDecision(w)
  PROVE  TypeOK'
  <2> USE <1>ApplyDecisionTypeOK
  <2>1. used' \in Used
    BY <1>UsedType DEF ApplyDecision
  <2>2. StoreTypeOK'
    <3>1. CASE Statement(w)
      BY <3>1, <1>StatementType, Zenon DEF ApplyDecision
    <3>2. CASE UNCHANGED storeVars
      BY <3>2 DEF TypeOK, StoreTypeOK, storeVars
    <3>3. QED
      BY <3>1, <3>2 DEF ApplyDecision
  <2>3. CASE Return(w)
    BY <2>1, <2>2, <2>3, <1>ReturnTypeOK, Zenon DEF ApplyDecision, TypeOK
  <2>4. CASE /\ worker[w].next # Len(worker[w].decisions)
             /\ worker' = [worker EXCEPT ![w].next = @ + 1]
    <3> DEFINE rec == [worker[w] EXCEPT !.next = @ + 1]
    <3>1. /\ worker[w].decisions \in Seq(RuleDecision)
          /\ worker[w].next \in DOMAIN worker[w].decisions
      BY Zenon DEF ApplyDecision, TypeOK, WorkerOK, WorkerType
    <3>2. worker[w].next + 1 \in DOMAIN worker[w].decisions
      BY <2>4, <3>1
    <3>3. rec \in WorkerType
      <4>1. worker[w].next + 1 \in Nat
        BY DEF TypeOK, WorkerType
      <4>2. QED
        BY <4>1, <1>NextFieldType, Zenon DEF TypeOK
    <3>4. worker' = [worker EXCEPT ![w] = rec]
      BY <2>4 DEF TypeOK
    <3>5. /\ rec.job = worker[w].job /\ rec.stage = worker[w].stage
          /\ rec.next = worker[w].next + 1 /\ rec.decisions = worker[w].decisions
      BY DEF TypeOK, WorkerType
    <3>6. QED
      BY <2>1, <2>2, <3>2, <3>3, <3>4, <3>5, <1>AdvanceTypeOK, Zenon DEF ApplyDecision, TypeOK
  <2>5. CASE /\ worker[w].attempt < maxAttempts
             /\ worker' = [worker EXCEPT ![w].attempt = @ + 1, ![w].next = 1]
    <3> DEFINE rec == [worker[w] EXCEPT !.attempt = @ + 1, !.next = 1]
    <3>1. /\ worker[w].decisions \in Seq(RuleDecision)
          /\ worker[w].next \in DOMAIN worker[w].decisions
      BY SMT, Z3 DEF ApplyDecision, TypeOK, WorkerOK, WorkerType
    <3>2. 1 \in DOMAIN worker[w].decisions
      BY <3>1
    <3>3. rec \in WorkerType
      <4>0. worker[w].attempt \in 1..maxAttempts
        BY DEF TypeOK, WorkerType
      <4>1. worker[w].attempt + 1 \in 1..maxAttempts
        BY <2>5, <4>0 DEF maxAttempts
      <4>2. QED
        BY <4>1, <1>AttemptFieldType, Zenon DEF TypeOK
    <3>4. worker' = [worker EXCEPT ![w] = rec]
      BY <2>5, Zenon DEF TypeOK
    <3>5. /\ rec.job = worker[w].job /\ rec.stage = worker[w].stage
          /\ rec.next = 1 /\ rec.decisions = worker[w].decisions
      BY DEF TypeOK, WorkerType
    <3>6. QED
      BY <2>1, <2>2, <3>2, <3>3, <3>4, <3>5, <1>AdvanceTypeOK, Zenon DEF ApplyDecision, TypeOK
  <2>6. QED
    BY <2>3, <2>4, <2>5 DEF ApplyDecision, NextAttempt
<1>WorkerStepTypeOK.
  ASSUME TypeOK, NEW w \in Workers, WorkerStep(w)
  PROVE  TypeOK'
  BY <1>WorkerStepTypeOK, <1>TakeJobTypeOK, <1>StopWorkerTypeOK, <1>WriteTelemetryTypeOK,
     <1>CheckLastSeenTypeOK,
     <1>UpdateLastSeenTypeOK, <1>LoadEnabledRulesTypeOK, <1>LoadActiveRuleIDsTypeOK,
     <1>EvaluateTypeOK, <1>ApplyDecisionTypeOK DEF WorkerStep
<1>SpendType.
  ASSUME used \in Used,
         \/ used' = [used EXCEPT !.msgs = @ + 1]
         \/ used' = [used EXCEPT !.restarts = @ + 1]
         \/ used' = [used EXCEPT !.shutdowns = @ + 1]
         \/ UNCHANGED used
  PROVE  used' \in Used
  <2> USE <1>SpendType
  <2>1. CASE used' = [used EXCEPT !.msgs = @ + 1]
    BY <2>1 DEF Used
  <2>2. CASE used' = [used EXCEPT !.restarts = @ + 1]
    BY <2>2 DEF Used
  <2>3. CASE used' = [used EXCEPT !.shutdowns = @ + 1]
    BY <2>3, SMT, Z3 DEF Used
  <2>4. QED
    BY <2>1, <2>2, <2>3
<1>EnqueueTypeOK.
  ASSUME TypeOK, NEW t \in Topics, NEW p \in Payloads, Enqueue(t, p)
  PROVE  TypeOK'
  <2> USE <1>EnqueueTypeOK
  <2> DEFINE j == [id |-> Len(arrivals) + 1, topic |-> t, payload |-> p]
  <2>1. j \in Job
    <3>1. Len(arrivals) + 1 \in Nat
      BY DEF TypeOK
    <3>2. QED
      BY <3>1, InputsAssumption, Zenon DEF Job
  <2>2. /\ jobs' = Append(jobs, j) /\ arrivals' = Append(arrivals, j)
        /\ used' = [used EXCEPT !.msgs = @ + 1]
    BY DEF Enqueue
  <2> HIDE DEF j
  <2>3. jobs' \in Seq(Job) /\ arrivals' \in Seq(Job)
    BY <2>1, <2>2 DEF TypeOK
  <2>4. used' \in Used
    BY <2>2, <1>SpendType, Zenon DEF TypeOK
  <2>5. QED
    BY <2>3, <2>4, <1>TypeOKWithSameWorkers DEF Enqueue, TypeOK, storeVars, StoreTypeOK
<1>RestartTypeOK.
  ASSUME TypeOK, Restart
  PROVE  TypeOK'
  <2> USE <1>RestartTypeOK
  <2>1. worker' \in [Workers -> WorkerType]
    BY IdleWorkerType DEF Restart
  <2>2. \A w \in Workers : WorkerOK(w)'
    BY DEF Restart, WorkerOK, IdleWorker
  <2>3. used' \in Used
    BY <1>SpendType DEF TypeOK, Restart
  <2>4. streaks' \in [RuleIds -> BreachState]
    BY Zenon DEF Restart, ZeroBreachState, BreachState
  <2>5. StoreTypeOK'
    BY DEF TypeOK, Restart, StoreTypeOK, storeVars
  <2>6. /\ jobs' \in Seq(Job) /\ ctxDone' \in BOOLEAN
        /\ lastSeenSent' \in [Devices -> Nat \cup {Never}]
    <3>1. jobs' = <<>> /\ ctxDone' = FALSE
      BY DEF Restart
    <3>2. lastSeenSent' = [d \in Devices |-> Never]
      BY DEF Restart
    <3>3. jobs' \in Seq(Job)
      BY <3>1
    <3>4. ctxDone' \in BOOLEAN
      BY <3>1, Zenon
    <3>5. lastSeenSent' \in [Devices -> Nat \cup {Never}]
      BY <3>2
    <3>6. QED
      BY <3>3, <3>4, <3>5
  <2>7. UNCHANGED <<last_seen_at, telemetry_raw, clock, arrivals, evaluated>>
    BY Zenon DEF Restart
  <2>8. QED
    BY <2>1, <2>2, <2>3, <2>4, <2>5, <2>6, <2>7 DEF TypeOK
<1>RequestTypeOK.
  ASSUME TypeOK,
         \/ \E i \in DOMAIN alerts, u \in Users : Acknowledge(i, u) \/ Resolve(i, u)
         \/ \E r \in RuleIds : EditRule(r)
  PROVE  TypeOK'
  <2> USE <1>RequestTypeOK
  <2>1. StoreTypeOK /\ clock \in Nat /\ used \in Used
    BY DEF TypeOK
  <2>2. StoreTypeOK'
    BY <2>1, AcknowledgeType, ResolveType, EditRuleType DEF Acknowledge, Resolve, EditRule
  <2>3. used' \in Used
    BY <2>1 DEF Acknowledge, Resolve, EditRule, Used
  <2>4. UNCHANGED engineVars
    BY Zenon DEF Acknowledge, Resolve, EditRule
  <2>5. QED
    BY <2>2, <2>3, <2>4, <1>TypeOKWithSameWorkers, Zenon DEF engineVars, TypeOK
<1>QuietStepTypeOK.
  ASSUME TypeOK, DropMessage \/ Shutdown \/ Tick \/ UNCHANGED vars
  PROVE  TypeOK'
  <2> USE <1>QuietStepTypeOK
  <2>1. StoreTypeOK'
    BY Zenon DEF TypeOK, StoreTypeOK, storeVars, vars, DropMessage, Shutdown, Tick
  <2>0. used \in Used /\ clock \in Nat /\ ctxDone \in BOOLEAN
    BY DEF TypeOK
  <2>2. used' \in Used
    BY <2>0, <1>SpendType DEF vars, DropMessage, Shutdown, Tick
  <2>3. clock' \in Nat /\ ctxDone' \in BOOLEAN
    <3>1. CASE Shutdown
      BY <2>0, <3>1 DEF Shutdown
    <3>2. CASE Tick
      BY <2>0, <3>2 DEF Tick
    <3>3. CASE DropMessage \/ UNCHANGED vars
      BY <2>0, <3>3 DEF DropMessage, vars
    <3>4. QED
      BY <3>1, <3>2, <3>3
  <2>4. UNCHANGED <<jobs, worker, streaks, lastSeenSent, last_seen_at, telemetry_raw,
                    arrivals, evaluated>>
    BY DEF vars, DropMessage, Shutdown, Tick
  <2>5. QED
    BY <2>1, <2>2, <2>3, <2>4, <1>TypeOKWithSameWorkers, Zenon DEF TypeOK
<1> SUFFICES ASSUME TypeOK, [Next]_vars PROVE TypeOK'
  BY Zenon
<1>1. CASE \E t \in Topics, p \in Payloads : Enqueue(t, p)
  BY <1>1, <1>EnqueueTypeOK
<1>2. CASE \E w \in Workers : WorkerStep(w)
  BY <1>2, <1>WorkerStepTypeOK
<1>3. CASE Restart
  BY <1>3, <1>RestartTypeOK
<1>4. CASE \/ \E i \in DOMAIN alerts, u \in Users : Acknowledge(i, u) \/ Resolve(i, u)
           \/ \E r \in RuleIds : EditRule(r)
  BY <1>4, <1>RequestTypeOK
<1>5. CASE DropMessage \/ Shutdown \/ Tick \/ Waiting \/ UNCHANGED vars
  BY <1>5, <1>QuietStepTypeOK DEF Waiting
<1>6. QED
  BY <1>1, <1>2, <1>3, <1>4, <1>5 DEF Next

\* Type correctness of the ingestion service: a worker never indexes its decision
\* list outside its bounds, and never works on a message its parsers rejected,
\* for every pool size, rule set and pattern of failures.
THEOREM TypeCorrect == Spec => []TypeOK
<1>1. QED
  BY InitTypeOK, NextTypeOK, PTL DEF Spec

-----------------------------------------------------------------------------
\* A worker's step leaves the other workers alone.
LEMMA OtherWorkersKept ==
  ASSUME TypeOK, NEW w \in Workers, WorkerStep(w), NEW v \in Workers, v # w
  PROVE  worker'[v] = worker[v]
<1>0. worker \in [Workers -> WorkerType]
  BY DEF TypeOK
<1>1. CASE TakeJob(w) \/ StopWorker(w) \/ WriteTelemetry(w)
  BY <1>0, <1>1 DEF TakeJob, StopWorker, WriteTelemetry, Goto, Return
<1>2. CASE CheckLastSeen(w) \/ UpdateLastSeen(w)
  BY <1>0, <1>2 DEF CheckLastSeen, UpdateLastSeen, Goto
<1>3. CASE LoadEnabledRules(w) \/ LoadActiveRuleIDs(w)
  BY <1>0, <1>3 DEF LoadEnabledRules, LoadActiveRuleIDs, Return
<1>4. CASE Evaluate(w)
  BY <1>0, <1>4 DEF Evaluate, Return
<1>5. CASE ApplyDecision(w)
  BY <1>0, <1>5, Zenon DEF ApplyDecision, NextAttempt, Return
<1>6. QED
  BY <1>1, <1>2, <1>3, <1>4, <1>5 DEF WorkerStep

\* Only an evaluation brings decisions, streaks or outcomes.
LEMMA DecisionsKept ==
  ASSUME TypeOK, NEW w \in Workers, WorkerStep(w), ~Evaluate(w)
  PROVE  /\ UNCHANGED <<streaks, evaluated>>
         /\ \A v \in Workers : worker'[v].stage = "apply" =>
              /\ worker[v].stage = "apply"
              /\ worker'[v].job = worker[v].job
              /\ worker'[v].rules = worker[v].rules
              /\ worker'[v].decisions = worker[v].decisions
<1>0. worker \in [Workers -> WorkerType] /\ worker[w] \in WorkerType
  BY Zenon DEF TypeOK
<1>1. UNCHANGED <<streaks, evaluated>>
  BY Zenon DEF WorkerStep, TakeJob, StopWorker, WriteTelemetry, CheckLastSeen, UpdateLastSeen,
         LoadEnabledRules, LoadActiveRuleIDs, ApplyDecision
<1>2. ASSUME worker'[w].stage = "apply"
      PROVE  /\ worker[w].stage = "apply" /\ worker'[w].job = worker[w].job
             /\ worker'[w].rules = worker[w].rules
             /\ worker'[w].decisions = worker[w].decisions
  <2>1. CASE TakeJob(w)
    BY <1>0, <1>2, <2>1 DEF TakeJob, WorkerType
  <2>2. CASE StopWorker(w)
    BY <1>0, <1>2, <2>2 DEF StopWorker, Goto, WorkerType
  <2>3. CASE WriteTelemetry(w)
    BY <1>0, <1>2, <2>3 DEF WriteTelemetry, Return, IdleWorker, WorkerType
  <2>4. CASE CheckLastSeen(w)
    BY <1>0, <1>2, <2>4 DEF CheckLastSeen, Goto, WorkerType
  <2>5. CASE UpdateLastSeen(w)
    BY <1>0, <1>2, <2>5 DEF UpdateLastSeen, Goto, WorkerType
  <2>6. CASE LoadEnabledRules(w)
    BY <1>0, <1>2, <2>6 DEF LoadEnabledRules, Return, IdleWorker, WorkerType
  <2>7. CASE LoadActiveRuleIDs(w)
    BY <1>0, <1>2, <2>7, SMT, Z3 DEF LoadActiveRuleIDs, Return, IdleWorker, WorkerType
  <2>8. CASE ApplyDecision(w)
    BY <1>0, <1>2, <2>8 DEF ApplyDecision, NextAttempt, Return, IdleWorker, WorkerType
  <2>9. QED
    BY <2>1, <2>2, <2>3, <2>4, <2>5, <2>6, <2>7, <2>8 DEF WorkerStep
<1>3. \A v \in Workers : v # w => worker'[v] = worker[v]
  BY OtherWorkersKept, Zenon
<1>4. QED
  BY <1>1, <1>2, <1>3

\* Where the alert tables change.
LEMMA WorkerWrites ==
  ASSUME NEW w \in Workers, WorkerStep(w)
  PROVE  \/ UNCHANGED storeVars
         \/ worker[w].stage = "apply" /\ ApplyDecision(w) /\ Statement(w)
BY DEF WorkerStep, TakeJob, StopWorker, WriteTelemetry, CheckLastSeen, UpdateLastSeen,
       LoadEnabledRules, LoadActiveRuleIDs, Evaluate, ApplyDecision
-----------------------------------------------------------------------------
\* Every step that changes alerts is one of four statements.
LEMMA TableStep ==
  ASSUME TypeOK, [Next]_vars
  PROVE  \/ UNCHANGED alerts
         \/ \E r \in RuleIds, d \in Devices, at \in Nat : InsertAlert(r, d, at)
         \/ \E r \in RuleIds, at \in Nat : AutoResolveAlerts(r, at)
         \/ \E i \in DOMAIN alerts, u \in Users :
              AcknowledgeAlert(i, u, clock) \/ ResolveAlert(i, u, clock)
<1>1. CASE \E w \in Workers : WorkerStep(w)
  <2>1. PICK w \in Workers : WorkerStep(w)
    BY <1>1
  <2>2. CASE UNCHANGED storeVars
    BY <2>2, Zenon DEF storeVars
  <2>3. CASE worker[w].stage = "apply" /\ Statement(w)
    <3> DEFINE d == worker[w].decisions[worker[w].next]
    <3>1. /\ worker[w].decisions \in Seq(RuleDecision) /\ worker[w].at \in Nat
          /\ worker[w].next \in DOMAIN worker[w].decisions
      BY <2>3, Zenon DEF TypeOK, WorkerOK, WorkerType
    <3>2. d \in RuleDecision
      BY <3>1, SMT, Z3
    <3>3. d.rule \in RuleIds /\ Device(w) \in Devices
      BY <2>3, <3>2, ParsedDevice, Zenon DEF RuleDecision
    <3>4. QED
      BY <2>3, <3>1, <3>3, Zenon DEF Statement
  <2>4. QED
    BY <2>1, <2>2, <2>3, WorkerWrites
<1>2. CASE \E i \in DOMAIN alerts, u \in Users : Acknowledge(i, u) \/ Resolve(i, u)
  BY <1>2 DEF Acknowledge, Resolve
<1>3. CASE ~\E w \in Workers : WorkerStep(w)
  BY <1>2, <1>3, Zenon DEF Next, Enqueue, EditRule, InsertRule, UpdateRule, DeleteRule,
                    DropMessage, Shutdown, Restart, Tick, Waiting, vars, storeVars
<1>4. QED
  BY <1>1, <1>3, Zenon

-----------------------------------------------------------------------------
LEMMA ResolvedRowKept ==
  ASSUME TypeOK, [Next]_vars, NEW i \in DOMAIN alerts, alerts[i].status = "resolved"
  PROVE  alerts'[i] = alerts[i]
<1>0. StoreTypeOK /\ clock \in Nat /\ ~Active(alerts[i])
  BY Zenon DEF TypeOK, Active, ActiveStatus
<1>1. CASE \E r \in RuleIds, d \in Devices, at \in Nat : InsertAlert(r, d, at)
  BY <1>0, <1>1 DEF InsertAlert, StoreTypeOK
<1>2. CASE \E r \in RuleIds, at \in Nat : AutoResolveAlerts(r, at)
  BY <1>0, <1>2, Zenon DEF AutoResolveAlerts
<1>3. CASE \E k \in DOMAIN alerts, u \in Users :
             AcknowledgeAlert(k, u, clock) \/ ResolveAlert(k, u, clock)
  BY <1>0, <1>3 DEF AcknowledgeAlert, ResolveAlert, ActiveStatus
<1>4. QED
  BY <1>1, <1>2, <1>3, TableStep, Zenon

\* A resolved alert is final (transitionAlert, ApplyDecisions): no retry, late
\* auto-resolve or second request changes it.
THEOREM ResolvedForGood == Spec => ResolvedIsTerminal
<1>1. TypeOK /\ [Next]_vars =>
        [\A i \in DOMAIN alerts : alerts[i].status = "resolved" => alerts'[i] = alerts[i]]_vars
  BY ResolvedRowKept
<1>2. QED
  BY <1>1, TypeCorrect, PTL DEF Spec, ResolvedIsTerminal

-----------------------------------------------------------------------------
\* The refinement: each statement on alerts is a step of AlertLifecycle.
LogRow == [rule : RuleIds, status : Status, acknowledged_by : Users \cup {NoUser},
           resolved_by : Users \cup {NoUser}]

\* The two row updates of transitionAlert, on a row of the log.
LogEntry(r, s, a, b) ==
  [rule |-> r, status |-> s, acknowledged_by |-> a, resolved_by |-> b]
AcknowledgedEntry(e, u) == [e EXCEPT !.status = "acknowledged", !.acknowledged_by = u]
ResolvedEntry(e, u) == [e EXCEPT !.status = "resolved", !.resolved_by = u]

\* The alerts table implements the life of an alert (transitionAlert and
\* ApplyDecisions together): every step of workers, retries, crashes and requests
\* is a step of AlertLifecycle or leaves the log alone.
THEOREM TableImplementsLifecycle == Spec => ImplementsLifecycle
<1>LogType.
  ASSUME StoreTypeOK
  PROVE  /\ AlertLog \in Seq(LogRow)
         /\ DOMAIN AlertLog = DOMAIN alerts
         /\ \A i \in DOMAIN alerts :
              AlertLog[i] = [rule |-> alerts[i].alert_rule_id, status |-> alerts[i].status,
                             acknowledged_by |-> alerts[i].acknowledged_by,
                             resolved_by |-> alerts[i].resolved_by]
  <2> USE <1>LogType
  <2>1. /\ Len(alerts) \in Nat /\ DOMAIN alerts = 1..Len(alerts)
        /\ \A i \in DOMAIN alerts : alerts[i] \in Alert
    BY SMT, Z3 DEF StoreTypeOK
  <2>2. \A i \in DOMAIN alerts : AlertLog[i] \in LogRow
    BY <2>1, Zenon DEF AlertLog, LogRow, Alert
  <2>3. AlertLog \in [1..Len(alerts) -> LogRow]
    BY <2>1, <2>2, Zenon DEF AlertLog
  <2>4. QED
    BY <2>1, <2>3 DEF AlertLog
<1>InsertRefines.
  ASSUME StoreTypeOK, NEW r \in RuleIds, NEW d \in Devices, NEW at \in Nat,
         InsertAlert(r, d, at)
  PROVE  Lifecycle!Raise(r)
  <2> USE <1>InsertRefines
  <2> DEFINE row == NewAlert(r, d, at)
             new == [rule |-> r, status |-> "open", acknowledged_by |-> NoUser,
                     resolved_by |-> NoUser]
  <2>1. alerts' = Append(alerts, row) /\ alerts \in Seq(Alert) /\ row \in Alert
    BY Zenon DEF InsertAlert, StoreTypeOK, NewAlert, Alert, Status
  <2>2. /\ row.alert_rule_id = r /\ row.status = "open"
        /\ row.acknowledged_by = NoUser /\ row.resolved_by = NoUser
    BY Zenon DEF NewAlert
  <2> HIDE DEF row
  <2>3. /\ DOMAIN alerts' = 1..(Len(alerts) + 1) /\ DOMAIN alerts = 1..Len(alerts)
        /\ alerts'[Len(alerts) + 1] = row
        /\ \A i \in 1..Len(alerts) : alerts'[i] = alerts[i]
    BY <2>1, SMT, Z3
  <2>4. /\ AlertLog \in Seq(LogRow) /\ DOMAIN AlertLog = 1..Len(alerts)
        /\ Len(AlertLog) = Len(alerts)
    BY <2>3, <1>LogType
  <2>5. new \in LogRow
    BY Zenon DEF LogRow, Status
  <2>6. /\ AlertLog' = [i \in 1..(Len(alerts) + 1) |-> AlertLog'[i]]
        /\ AlertLog'[Len(alerts) + 1] = new
        /\ \A i \in 1..Len(alerts) : AlertLog'[i] = AlertLog[i]
    BY <2>2, <2>3, SMT, Z3 DEF AlertLog
  <2> HIDE DEF new
  <2>7. AlertLog' = Append(AlertLog, new)
    BY <2>4, <2>5, <2>6
  <2>8. QED
    BY <2>7, Zenon DEF new, Lifecycle!Raise, Lifecycle!Raised
<1>AutoResolveRefines.
  ASSUME StoreTypeOK, NEW r \in RuleIds, NEW at \in Nat, AutoResolveAlerts(r, at)
  PROVE  Lifecycle!ClearedByEngine(r)
  <2> USE <1>AutoResolveRefines
  <2>1. DOMAIN alerts' = DOMAIN alerts /\ \A i \in DOMAIN alerts : alerts[i] \in Alert
    BY AutoResolveType DEF StoreTypeOK
  <2>2. ASSUME NEW i \in DOMAIN alerts
        PROVE  AlertLog'[i] = IF AlertLog[i].rule = r /\ AlertLog[i].status # "resolved"
                                THEN [AlertLog[i] EXCEPT !.status = "resolved"]
                                ELSE AlertLog[i]
    <3>1. alerts[i] \in Alert
      BY <2>1, Zenon
    <3>2. Active(alerts[i]) <=> AlertLog[i].status # "resolved"
      BY <3>1 DEF Active, ActiveStatus, Alert, Status, AlertLog
    <3>3. CASE alerts[i].alert_rule_id = r /\ Active(alerts[i])
      <4>1. alerts'[i] = Cleared(alerts[i], at)
        BY <3>3, Zenon DEF AutoResolveAlerts, Cleared
      <4>2. /\ alerts'[i].alert_rule_id = alerts[i].alert_rule_id
            /\ alerts'[i].status = "resolved"
            /\ alerts'[i].acknowledged_by = alerts[i].acknowledged_by
            /\ alerts'[i].resolved_by = alerts[i].resolved_by
        BY <3>1, <4>1 DEF Cleared, Alert
      <4>3. AlertLog'[i] = [AlertLog[i] EXCEPT !.status = "resolved"]
        BY <2>1, <4>2, SMT, Z3 DEF AlertLog
      <4>4. QED
        BY <3>2, <3>3, <4>3 DEF AlertLog
    <3>4. CASE ~(alerts[i].alert_rule_id = r /\ Active(alerts[i]))
      <4>1. alerts'[i] = alerts[i]
        BY <3>4, Zenon DEF AutoResolveAlerts
      <4>2. AlertLog'[i] = AlertLog[i]
        BY <2>1, <4>1, Zenon DEF AlertLog
      <4>3. QED
        BY <3>2, <3>4, <4>2 DEF AlertLog
    <3>5. QED
      BY <3>3, <3>4, Zenon
  <2>3. /\ DOMAIN AlertLog = DOMAIN alerts
        /\ AlertLog' = [i \in DOMAIN alerts |-> AlertLog'[i]]
    BY <2>1, Zenon DEF AlertLog
  <2>4. QED
    BY <2>2, <2>3, Zenon DEF Lifecycle!ClearedByEngine
<1>EntryUpdates.
  ASSUME NEW r, NEW s, NEW a, NEW b, NEW u
  PROVE  /\ AcknowledgedEntry(LogEntry(r, s, a, b), u) = LogEntry(r, "acknowledged", u, b)
         /\ ResolvedEntry(LogEntry(r, s, a, b), u) = LogEntry(r, "resolved", a, u)
  <2> USE <1>EntryUpdates
  <2>1. AcknowledgedEntry(LogEntry(r, s, a, b), u) = LogEntry(r, "acknowledged", u, b)
    <3>1. [LogEntry(r, s, a, b) EXCEPT !.status = "acknowledged"]
            = LogEntry(r, "acknowledged", a, b)
      BY DEF LogEntry
    <3>2. [LogEntry(r, "acknowledged", a, b) EXCEPT !.acknowledged_by = u]
            = LogEntry(r, "acknowledged", u, b)
      BY DEF LogEntry
    <3>3. QED
      BY <3>1, <3>2, Zenon DEF AcknowledgedEntry
  <2>2. ResolvedEntry(LogEntry(r, s, a, b), u) = LogEntry(r, "resolved", a, u)
    <3>1. [LogEntry(r, s, a, b) EXCEPT !.status = "resolved"] = LogEntry(r, "resolved", a, b)
      BY DEF LogEntry
    <3>2. [LogEntry(r, "resolved", a, b) EXCEPT !.resolved_by = u]
            = LogEntry(r, "resolved", a, u)
      BY DEF LogEntry
    <3>3. QED
      BY <3>1, <3>2, Zenon DEF ResolvedEntry
  <2>3. QED
    BY <2>1, <2>2
<1>RequestRefines.
  ASSUME StoreTypeOK, NEW i \in DOMAIN alerts, NEW u \in Users, NEW now \in Nat,
         AcknowledgeAlert(i, u, now) \/ ResolveAlert(i, u, now)
  PROVE  Lifecycle!AcknowledgedBy(i, u) \/ Lifecycle!ResolvedBy(i, u)
  <2> USE <1>RequestRefines
  <2>1. /\ DOMAIN alerts' = DOMAIN alerts /\ alerts[i] \in Alert
        /\ DOMAIN AlertLog = DOMAIN alerts
        /\ AlertLog' = [j \in DOMAIN alerts |-> AlertLog'[j]]
    <3>1. DOMAIN alerts' = DOMAIN alerts
      BY AcknowledgeType, ResolveType
    <3>2. alerts[i] \in Alert
      BY DEF StoreTypeOK
    <3>3. QED
      BY <3>1, <3>2, Zenon DEF AlertLog
  <2>2. \A j \in DOMAIN alerts : j # i => AlertLog'[j] = AlertLog[j]
    BY <2>1 DEF AcknowledgeAlert, ResolveAlert, AlertLog
  <2>3. CASE AcknowledgeAlert(i, u, now)
    <3>1. alerts[i].status = "open" /\ alerts'[i] = Acknowledged(alerts[i], now, u)
      BY <2>3 DEF AcknowledgeAlert, Acknowledged
    <3>2. /\ alerts'[i].alert_rule_id = alerts[i].alert_rule_id
          /\ alerts'[i].status = "acknowledged" /\ alerts'[i].acknowledged_by = u
          /\ alerts'[i].resolved_by = alerts[i].resolved_by
      BY <2>1, <3>1 DEF Acknowledged, Alert
    <3> DEFINE row == AcknowledgedEntry(AlertLog[i], u)
    <3>3. AlertLog[i].status = "open" /\ AlertLog'[i] = row
      <4>1. AlertLog[i] = LogEntry(alerts[i].alert_rule_id, alerts[i].status,
                                   alerts[i].acknowledged_by, alerts[i].resolved_by)
        BY <2>1, Zenon DEF AlertLog, LogEntry
      <4>2. AlertLog'[i] = LogEntry(alerts[i].alert_rule_id, "acknowledged",
                                    u, alerts[i].resolved_by)
        BY <2>1, <3>2, Zenon DEF AlertLog, LogEntry
      <4>3. AlertLog'[i] = row
        BY <4>1, <4>2, <1>EntryUpdates, SMT, Z3
      <4>4. QED
        BY <2>1, <3>1, <4>3, Zenon DEF AlertLog
    <3>4. AlertLog' = [AlertLog EXCEPT ![i] = row]
      <4> HIDE DEF row
      <4>1. AlertLog = [j \in DOMAIN alerts |-> AlertLog[j]]
        BY DEF AlertLog
      <4>2. QED
        BY <2>1, <2>2, <3>3, <4>1, Zenon
    <3>5. QED
      BY <3>3, <3>4, Zenon DEF Lifecycle!AcknowledgedBy, AcknowledgedEntry
  <2>4. CASE ResolveAlert(i, u, now)
    <3>1. alerts[i].status # "resolved" /\ alerts'[i] = Resolved(alerts[i], now, u)
      BY <2>4 DEF ResolveAlert, Resolved, ActiveStatus
    <3>2. /\ alerts'[i].alert_rule_id = alerts[i].alert_rule_id
          /\ alerts'[i].status = "resolved" /\ alerts'[i].resolved_by = u
          /\ alerts'[i].acknowledged_by = alerts[i].acknowledged_by
      BY <2>1, <3>1 DEF Resolved, Alert
    <3> DEFINE row == ResolvedEntry(AlertLog[i], u)
    <3>3. AlertLog[i].status # "resolved" /\ AlertLog'[i] = row
      <4>1. AlertLog[i] = LogEntry(alerts[i].alert_rule_id, alerts[i].status,
                                   alerts[i].acknowledged_by, alerts[i].resolved_by)
        BY <2>1 DEF AlertLog, LogEntry
      <4>2. AlertLog'[i] = LogEntry(alerts[i].alert_rule_id, "resolved",
                                    alerts[i].acknowledged_by, u)
        BY <2>1, <3>2, Zenon DEF AlertLog, LogEntry
      <4>3. AlertLog'[i] = row
        BY <4>1, <4>2, <1>EntryUpdates, SMT, Z3
      <4>4. QED
        BY <2>1, <3>1, <4>3, Zenon DEF AlertLog
    <3>4. AlertLog' = [AlertLog EXCEPT ![i] = row]
      <4> HIDE DEF row
      <4>1. AlertLog = [j \in DOMAIN alerts |-> AlertLog[j]]
        BY DEF AlertLog
      <4>2. QED
        BY <2>1, <2>2, <3>3, <4>1
    <3>5. QED
      BY <3>3, <3>4, Zenon DEF Lifecycle!ResolvedBy, ResolvedEntry
  <2>5. QED
    BY <2>3, <2>4, Zenon
<1>1. Init => Lifecycle!Start
  <2> SUFFICES ASSUME Init PROVE AlertLog = <<>>
    BY Zenon DEF Lifecycle!Start
  <2>1. alerts = <<>> /\ StoreTypeOK
    BY InitTypeOK, Zenon DEF Init, TypeOK
  <2>2. AlertLog \in Seq(LogRow) /\ DOMAIN AlertLog = {}
    BY <2>1, <1>LogType, SMT, Z3
  <2>3. QED
    BY <2>2
<1>2. TypeOK /\ [Next]_vars => [Lifecycle!Step]_AlertLog
  <2> SUFFICES ASSUME TypeOK, [Next]_vars PROVE Lifecycle!Step \/ UNCHANGED AlertLog
    OBVIOUS
  <2>0. StoreTypeOK /\ clock \in Nat
    BY Zenon DEF TypeOK
  <2>1. CASE UNCHANGED alerts
    BY <2>1, Zenon DEF AlertLog
  <2>2. CASE \E r \in RuleIds, d \in Devices, at \in Nat : InsertAlert(r, d, at)
    BY <2>0, <2>2, <1>InsertRefines, Zenon DEF Lifecycle!Step
  <2>3. CASE \E r \in RuleIds, at \in Nat : AutoResolveAlerts(r, at)
    BY <2>0, <2>3, <1>AutoResolveRefines, Zenon DEF Lifecycle!Step
  <2>4. CASE \E i \in DOMAIN alerts, u \in Users :
               AcknowledgeAlert(i, u, clock) \/ ResolveAlert(i, u, clock)
    <3>1. DOMAIN AlertLog = DOMAIN alerts
      BY DEF AlertLog
    <3>2. QED
      BY <2>0, <2>4, <3>1, <1>RequestRefines, Zenon DEF Lifecycle!Step
  <2>5. QED
    BY <2>1, <2>2, <2>3, <2>4, TableStep
<1>3. QED
  BY <1>1, <1>2, TypeCorrect, PTL DEF Spec, ImplementsLifecycle, Lifecycle!LifecycleSpec

-----------------------------------------------------------------------------
\* Alerts point at live rules of their device.  A worker writes an alert for a
\* rule it loaded several steps earlier; by then the rule may have been edited or
\* deleted, but it cannot have moved to another device.
Owned(row, device) == row = DroppedRule \/ (row \in Rule /\ row.device_id = device)

Loaded == {"active", "evaluate", "apply"}

HoldsOwned(rec, table) ==
  rec.stage \in Loaded =>
    \A r \in RuleIds : rec.rules[r] # NoRule => Owned(table[r], rec.job.payload.device_id)

DecidesOnHeld(rec) ==
  rec.stage = "apply" =>
    \A k \in DOMAIN rec.decisions : rec.rules[rec.decisions[k].rule] # NoRule

OwnerInv == /\ AlertsReferToTheirRule
            /\ \A w \in Workers : HoldsOwned(worker[w], alert_rules)
            /\ \A w \in Workers : DecidesOnHeld(worker[w])

\* A worker's rules come from LoadEnabledRules and stay until it is done.
LEMMA RulesHeld ==
  ASSUME TypeOK, NEW w \in Workers, WorkerStep(w), worker'[w].stage \in Loaded
  PROVE  /\ worker'[w].job = worker[w].job
         /\ \/ worker[w].stage \in Loaded /\ worker'[w].rules = worker[w].rules
            \/ worker'[w].rules = EnabledRules(Device(w))
<1>0. worker \in [Workers -> WorkerType] /\ worker[w] \in WorkerType
  BY Zenon DEF TypeOK
<1>1. CASE TakeJob(w)
  BY <1>0, <1>1 DEF TakeJob, WorkerType, Loaded
<1>2. CASE StopWorker(w)
  BY <1>0, <1>2, Zenon DEF StopWorker, Goto, WorkerType, Loaded
<1>3. CASE WriteTelemetry(w)
  BY <1>0, <1>3 DEF WriteTelemetry, Return, IdleWorker, WorkerType, Loaded
<1>4. CASE CheckLastSeen(w)
  BY <1>0, <1>4 DEF CheckLastSeen, Goto, WorkerType, Loaded
<1>5. CASE UpdateLastSeen(w)
  BY <1>0, <1>5, Zenon DEF UpdateLastSeen, Goto, WorkerType, Loaded
<1>6. CASE LoadEnabledRules(w)
  <2>1. ~Return(w)
    BY <1>0, SMT, Z3 DEF Return, IdleWorker, Loaded
  <2> DEFINE rules == EnabledRules(Device(w))
  <2>2. worker' = [worker EXCEPT ![w].stage = "active", ![w].rules = rules]
    BY <1>6, <2>1 DEF LoadEnabledRules
  <2> HIDE DEF rules
  <2>3. worker'[w].job = worker[w].job /\ worker'[w].rules = rules
    BY <1>0, <2>2, Zenon DEF WorkerType
  <2>4. QED
    BY <2>3, Zenon DEF rules
<1>7. CASE LoadActiveRuleIDs(w)
  BY <1>0, <1>7, SMT, Z3 DEF LoadActiveRuleIDs, Return, IdleWorker, WorkerType, Loaded
<1>8. CASE Evaluate(w)
  BY <1>0, <1>8, SMT, Z3 DEF Evaluate, Return, IdleWorker, WorkerType, Loaded
<1>9. CASE ApplyDecision(w)
  BY <1>0, <1>9, SMT, Z3 DEF ApplyDecision, NextAttempt, Return, IdleWorker, WorkerType, Loaded
<1>10. QED
  BY <1>1, <1>2, <1>3, <1>4, <1>5, <1>6, <1>7, <1>8, <1>9, Zenon DEF WorkerStep

\* Rows keep their rule and their device.
SameOwner(a, b) == a.alert_rule_id = b.alert_rule_id /\ a.device_id = b.device_id

LEMMA NextOwner == TypeOK /\ OwnerInv /\ [Next]_vars => OwnerInv'
\* No statement on alert_rules moves a rule to another device or revives it.
<1>OwnerKept.
  ASSUME TypeOK, [Next]_vars, NEW r \in RuleIds, NEW d, Owned(alert_rules[r], d)
  PROVE  Owned(alert_rules'[r], d)
  <2> USE <1>OwnerKept
  <2>0. /\ StoreTypeOK /\ alert_rules[r] # NoRule
        /\ alert_rules \in [RuleIds -> Rule \cup {NoRule, DroppedRule}]
    BY RowMarkersAssumption DEF TypeOK, StoreTypeOK, Owned
  <2>1. CASE UNCHANGED alert_rules
    BY <2>1
  <2>2. CASE \E q \in RuleIds : EditRule(q)
    <3>1. PICK q \in RuleIds : EditRule(q)
      BY <2>2
    <3>2. CASE q # r
      BY <2>0, <3>1, <3>2, Zenon DEF EditRule, InsertRule, UpdateRule, DeleteRule
    <3>3. CASE q = r /\ DeleteRule(r)
      BY <2>0, <3>3, Zenon DEF DeleteRule, Owned
    <3>4. CASE q = r /\ \E in \in RuleInputs : UpdateRule(r, in)
      <4>1. PICK in \in RuleInputs : UpdateRule(r, in)
        BY <3>4, Zenon
      <4>2. alert_rules[r] \in Rule /\ in.operator \in Operators
        BY <4>1 DEF UpdateRule, LiveRules
      <4>3. alert_rules[r].device_id = d /\ alert_rules[r].device_id \in Devices
        BY <4>2, RowMarkersAssumption, Zenon DEF Owned, Rule
      <4>4. alert_rules'[r] = RuleFrom(d, in)
        BY <2>0, <4>1, <4>3 DEF UpdateRule
      <4>5. RuleFrom(d, in) \in Rule /\ RuleFrom(d, in).device_id = d
        BY <4>2, <4>3, RuleFromType, Zenon DEF RuleFrom
      <4>6. QED
        BY <4>4, <4>5 DEF Owned
    <3>5. QED
      BY <2>0, <3>1, <3>2, <3>3, <3>4, Zenon DEF EditRule, InsertRule
  <2>3. CASE ~\E q \in RuleIds : EditRule(q)
    <3>1. CASE \E w \in Workers : WorkerStep(w)
      BY <2>1, <3>1, WorkerWrites, Zenon DEF Statement, InsertAlert, AutoResolveAlerts, storeVars
    <3>2. CASE ~\E w \in Workers : WorkerStep(w)
      BY <2>1, <2>3, <3>2, Zenon DEF Next, Enqueue, DropMessage, Shutdown, Restart, Tick, Waiting,
         Acknowledge, Resolve, AcknowledgeAlert, ResolveAlert, vars, storeVars
    <3>3. QED
      BY <3>1, <3>2
  <2>4. QED
    BY <2>2, <2>3, Zenon
\* Whoever moves, a rule a worker holds stays with the worker's device.
<1>HoldsOwnedKept.
  ASSUME TypeOK, [Next]_vars, NEW v \in Workers, HoldsOwned(worker[v], alert_rules)
  PROVE  HoldsOwned(worker'[v], alert_rules')
  <2> USE <1>HoldsOwnedKept
  <2> SUFFICES ASSUME worker'[v].stage \in Loaded, NEW r \in RuleIds,
                      worker'[v].rules[r] # NoRule
               PROVE  Owned(alert_rules'[r], worker'[v].job.payload.device_id)
    BY Zenon DEF HoldsOwned
  <2> DEFINE dev == worker[v].job.payload.device_id
  <2>1. CASE worker'[v] = worker[v]
    BY <2>1, <1>OwnerKept, Zenon DEF HoldsOwned
  <2>2. CASE WorkerStep(v)
    <3>1. CASE worker[v].stage \in Loaded /\ worker'[v].rules = worker[v].rules
      BY <2>2, <3>1, RulesHeld, <1>OwnerKept, Zenon DEF HoldsOwned
    <3>2. CASE worker'[v].rules = EnabledRules(Device(v))
      <4>1. alert_rules[r] \in Rule /\ alert_rules[r].device_id = dev
        BY <3>2, Zenon DEF EnabledRules, LiveRules, Device
      <4>2. Owned(alert_rules[r], dev)
        BY <4>1, Zenon DEF Owned
      <4>3. QED
        BY <2>2, <4>2, RulesHeld, <1>OwnerKept, Zenon
    <3>3. QED
      BY <2>2, <3>1, <3>2, RulesHeld, Zenon
  <2>3. CASE \E w \in Workers : w # v /\ WorkerStep(w)
    BY <2>1, <2>3, OtherWorkersKept, Zenon
  <2>4. CASE ~\E w \in Workers : WorkerStep(w)
    <3>1. CASE Restart
      BY <3>1 DEF Restart, IdleWorker, Loaded
    <3>2. CASE ~Restart
      BY <2>1, <2>4, <3>2, Zenon DEF Next, Enqueue, DropMessage, Shutdown, Tick, Waiting,
         Acknowledge, Resolve, EditRule, engineVars, vars
    <3>3. QED
      BY <3>1, <3>2
  <2>5. QED
    BY <2>2, <2>3, <2>4, Zenon
<1>DecidesOnHeldKept.
  ASSUME TypeOK, [Next]_vars, NEW v \in Workers, DecidesOnHeld(worker[v])
  PROVE  DecidesOnHeld(worker'[v])
  <2> USE <1>DecidesOnHeldKept
  <2>1. CASE worker'[v] = worker[v]
    BY <2>1, Zenon
  <2>2. CASE Evaluate(v)
    <3> DEFINE rules == worker[v].rules
    <3>1. PICK ds \in DecisionLists(rules, Readings(v), worker[v].active, streaks') :
            IF ds = <<>> THEN Return(v)
            ELSE worker' = [worker EXCEPT ![v].stage = "apply", ![v].decisions = ds]
      BY <2>2, Zenon DEF Evaluate
    <3>2. \A k \in DOMAIN ds : rules[ds[k].rule] # NoRule
      BY DecisionListType, SMT, Z3 DEF Decisions, Evaluated
    <3>3. worker'[v].stage = "apply" => worker'[v].decisions = ds /\ worker'[v].rules = rules
      BY <3>1, SMT, Z3 DEF TypeOK, WorkerType, Return, IdleWorker
    <3>4. QED
      BY <3>2, <3>3 DEF DecidesOnHeld
  <2>3. CASE WorkerStep(v) /\ ~Evaluate(v)
    BY <2>3, DecisionsKept, Zenon DEF DecidesOnHeld
  <2>4. CASE \E w \in Workers : w # v /\ WorkerStep(w)
    BY <2>1, <2>4, OtherWorkersKept
  <2>5. CASE ~\E w \in Workers : WorkerStep(w)
    <3>1. CASE Restart
      BY <3>1 DEF Restart, IdleWorker, DecidesOnHeld
    <3>2. CASE ~Restart
      BY <2>1, <2>5, <3>2, Zenon DEF Next, Enqueue, DropMessage, Shutdown, Tick, Waiting,
         Acknowledge, Resolve, EditRule, engineVars, vars
    <3>3. QED
      BY <3>1, <3>2, Zenon
  <2>6. QED
    BY <2>2, <2>3, <2>4, <2>5, Zenon
<1>RowsKeepOwner.
  ASSUME TypeOK, AlertsReferToTheirRule, UNCHANGED alert_rules,
         \A i \in DOMAIN alerts' : i \in DOMAIN alerts /\ SameOwner(alerts'[i], alerts[i])
  PROVE  AlertsReferToTheirRule'
  BY <1>RowsKeepOwner DEF AlertsReferToTheirRule, SameOwner, LiveRules
<1>StatementReferences.
  ASSUME TypeOK, OwnerInv, NEW w \in Workers, worker[w].stage = "apply", Statement(w)
  PROVE  AlertsReferToTheirRule'
  <2> USE <1>StatementReferences
  <2> DEFINE d == worker[w].decisions[worker[w].next]
             r == d.rule
             dev == Device(w)
             at == worker[w].at
  <2>1. /\ worker[w].decisions \in Seq(RuleDecision) /\ at \in Nat
        /\ worker[w].next \in DOMAIN worker[w].decisions
    BY Zenon DEF TypeOK, WorkerOK, WorkerType
  <2>2. d \in RuleDecision
    BY <2>1
  <2>3. r \in RuleIds /\ dev \in Devices /\ StoreTypeOK
    BY <2>2, ParsedDevice, Zenon DEF RuleDecision, TypeOK
  <2>4. worker[w].rules[r] # NoRule
    BY <2>1, Zenon DEF OwnerInv, DecidesOnHeld
  <2>5. Owned(alert_rules[r], dev)
    BY <2>3, <2>4, Zenon DEF OwnerInv, HoldsOwned, Loaded, Device
  <2>6. InsertAlert(r, dev, at) \/ AutoResolveAlerts(r, at)
    BY Zenon DEF Statement
  <2> HIDE DEF d, r, dev, at
  <2>7. CASE InsertAlert(r, dev, at)
    <3>1. alert_rules[r] \in Rule /\ alert_rules[r].device_id = dev /\ UNCHANGED alert_rules
      BY <2>5, <2>7, RowMarkersAssumption, Zenon DEF InsertAlert, LiveRules, Owned
    <3> DEFINE new == NewAlert(r, dev, at)
    <3>2. new.alert_rule_id = r /\ new.device_id = dev
      BY Zenon DEF NewAlert
    <3>3. \A i \in DOMAIN alerts' : \/ i \in DOMAIN alerts /\ alerts'[i] = alerts[i]
                                    \/ alerts'[i] = new
      BY <2>1, <2>3, <2>7, InsertRows, Zenon
    <3> HIDE DEF new
    <3>4. QED
      BY <2>3, <3>1, <3>2, <3>3, Zenon DEF OwnerInv, AlertsReferToTheirRule, LiveRules
  <2>8. CASE AutoResolveAlerts(r, at)
    <3>1. ASSUME NEW i \in DOMAIN alerts'
          PROVE  i \in DOMAIN alerts /\ SameOwner(alerts'[i], alerts[i])
      <4>1. /\ i \in DOMAIN alerts
            /\ alerts'[i] = alerts[i] \/ alerts'[i] = Cleared(alerts[i], at)
        BY <2>1, <2>3, <2>8, AutoResolveRows, Zenon
      <4>2. alerts[i] \in Alert
        BY <2>3, <4>1, SMT, Z3 DEF StoreTypeOK
      <4>3. QED
        BY <4>1, <4>2, Zenon DEF SameOwner, Cleared, Alert
    <3>2. QED
      BY <2>8, <3>1, <1>RowsKeepOwner, Zenon DEF OwnerInv, AutoResolveAlerts
  <2>9. QED
    BY <2>6, <2>7, <2>8, Zenon
<1>RequestReferences.
  ASSUME TypeOK, AlertsReferToTheirRule, NEW i \in DOMAIN alerts, NEW u \in Users,
         Acknowledge(i, u) \/ Resolve(i, u)
  PROVE  AlertsReferToTheirRule'
  <2> USE <1>RequestReferences
  <2>1. /\ StoreTypeOK /\ clock \in Nat /\ UNCHANGED alert_rules
        /\ AcknowledgeAlert(i, u, clock) \/ ResolveAlert(i, u, clock)
    BY DEF TypeOK, Acknowledge, Resolve, AcknowledgeAlert, ResolveAlert
  <2>2. ASSUME NEW j \in DOMAIN alerts'
        PROVE  j \in DOMAIN alerts /\ SameOwner(alerts'[j], alerts[j])
    <3>1. /\ j \in DOMAIN alerts
          /\ \/ alerts'[j] = alerts[j]
             \/ alerts'[j] = Acknowledged(alerts[j], clock, u)
             \/ alerts'[j] = Resolved(alerts[j], clock, u)
      BY <2>1, RequestRows, Zenon
    <3>2. alerts[j] \in Alert
      BY <2>1, <3>1, SMT, Z3 DEF StoreTypeOK
    <3>3. QED
      BY <3>1, <3>2, Zenon DEF SameOwner, Acknowledged, Resolved, Alert
  <2>3. QED
    BY <2>1, <2>2, <1>RowsKeepOwner
\* ON DELETE RESTRICT: a rule an alert refers to is not deleted.
<1>EditReferences.
  ASSUME TypeOK, AlertsReferToTheirRule, NEW q \in RuleIds, EditRule(q)
  PROVE  AlertsReferToTheirRule'
  <2> USE <1>EditReferences
  <2> SUFFICES ASSUME NEW i \in DOMAIN alerts
               PROVE  LET r == alerts[i].alert_rule_id
                      IN  r \in RuleIds /\ alert_rules'[r] \in Rule
                          /\ alert_rules'[r].device_id = alerts[i].device_id
    BY Zenon DEF AlertsReferToTheirRule, LiveRules, EditRule, InsertRule, UpdateRule, DeleteRule
  <2> DEFINE r == alerts[i].alert_rule_id
  <2>1. r \in RuleIds /\ alert_rules[r] \in Rule /\ alert_rules[r].device_id = alerts[i].device_id
    BY Zenon DEF AlertsReferToTheirRule, LiveRules
  <2>2. Owned(alert_rules'[r], alerts[i].device_id)
    <3>1. Owned(alert_rules[r], alerts[i].device_id)
      BY <2>1, Zenon DEF Owned
    <3>2. QED
      BY <2>1, <3>1, <1>OwnerKept, Zenon DEF Next
  <2>3. alert_rules'[r] # DroppedRule
    <3>0. alert_rules \in [RuleIds -> Rule \cup {NoRule, DroppedRule}]
          /\ alert_rules[r] # DroppedRule
      BY <2>1, RowMarkersAssumption, Zenon DEF TypeOK, StoreTypeOK
    <3>1. CASE q # r
      BY <2>1, <3>0, <3>1, Zenon DEF EditRule, InsertRule, UpdateRule, DeleteRule
    <3>2. CASE q = r
      <4>1. ~DeleteRule(r) /\ alert_rules[r] # NoRule
        BY <2>1, RowMarkersAssumption DEF DeleteRule
      <4>2. PICK in \in RuleInputs : UpdateRule(r, in)
        BY <3>2, <4>1, Zenon DEF EditRule, InsertRule
      <4>3. alert_rules'[r] = RuleFrom(alert_rules[r].device_id, in) /\ in.operator \in Operators
        BY <2>1, <3>0, <4>2 DEF UpdateRule
      <4>4. alert_rules[r].device_id \in Devices
        BY <2>1, Zenon DEF Rule
      <4>5. QED
        BY <4>3, <4>4, RuleFromType, RowMarkersAssumption, Zenon
    <3>3. QED
      BY <3>1, <3>2, Zenon
  <2>4. QED
    BY <2>1, <2>2, <2>3 DEF Owned
<1> SUFFICES ASSUME TypeOK, OwnerInv, [Next]_vars PROVE OwnerInv'
  BY Zenon
<1>1. \A w \in Workers : HoldsOwned(worker'[w], alert_rules') /\ DecidesOnHeld(worker'[w])
  BY <1>HoldsOwnedKept, <1>DecidesOnHeldKept DEF OwnerInv
<1>2. AlertsReferToTheirRule'
  <2>0. AlertsReferToTheirRule
    BY Zenon DEF OwnerInv
  <2>1. CASE UNCHANGED storeVars
    BY <2>0, <2>1, Zenon DEF storeVars, AlertsReferToTheirRule, LiveRules
  <2>2. CASE \E w \in Workers : WorkerStep(w)
    BY <2>1, <2>2, WorkerWrites, <1>StatementReferences, Zenon
  <2>3. CASE \E i \in DOMAIN alerts, u \in Users : Acknowledge(i, u) \/ Resolve(i, u)
    BY <2>0, <2>3, <1>RequestReferences
  <2>4. CASE \E q \in RuleIds : EditRule(q)
    BY <2>0, <2>4, <1>EditReferences, Zenon
  <2>5. QED
    BY <2>1, <2>2, <2>3, <2>4, Zenon DEF Next, Enqueue, DropMessage, Shutdown, Restart, Tick,
       Waiting, vars, storeVars
<1>3. QED
  BY <1>1, <1>2, Zenon DEF OwnerInv

LEMMA InitOwner == Init => OwnerInv
<1> SUFFICES ASSUME Init PROVE OwnerInv
  BY SMT, Z3
<1>1. alerts = <<>> /\ \A w \in Workers : worker[w].stage = "idle"
  BY DEF Init, IdleWorker
<1>2. QED
  BY <1>1, SMT, Z3 DEF OwnerInv, AlertsReferToTheirRule, HoldsOwned, DecidesOnHeld, Loaded

\* Every alert refers to a live rule of the alert's own device, although the rule
\* was loaded several calls before the alert is written (LoadEnabledRules,
\* ApplyDecisions) and PATCH or DELETE /alert-rules may come in between.
THEOREM ReferencesCorrect == Spec => []AlertsReferToTheirRule
<1>1. OwnerInv => AlertsReferToTheirRule
  BY Zenon DEF OwnerInv
<1>2. QED
  BY <1>1, InitOwner, NextOwner, TypeCorrect, PTL DEF Spec
-----------------------------------------------------------------------------
SingleWorker == \A v, w \in Workers : v = w

-----------------------------------------------------------------------------
\* Where a worker's record comes from.
Carried(old, new) ==
  /\ old.stage = "apply" /\ new.stage = "apply" /\ new.job = old.job /\ new.at = old.at
  /\ new.rules = old.rules /\ new.decisions = old.decisions

\* Why an attempt breaks off.
Broken(w) ==
  \/ UNCHANGED <<storeVars, used>> /\ ForeignKeyViolation(w)
  \/ UNCHANGED <<storeVars, used>> /\ ctxDone
  \/ used' = [used EXCEPT !.faults = @ + 1] /\ UNCHANGED storeVars
  \/ used' = [used EXCEPT !.lost = @ + 1] /\ Statement(w)

Written(w) == ~ctxDone /\ UNCHANGED used /\ Statement(w)

LEMMA ApplyCases ==
  ASSUME TypeOK, NEW w \in Workers, ApplyDecision(w)
  PROVE  \/ /\ Written(w) /\ worker[w].next = Len(worker[w].decisions)
            /\ worker'[w] = IdleWorker
         \/ /\ Written(w) /\ Carried(worker[w], worker'[w])
            /\ worker'[w].next = worker[w].next + 1
            /\ worker'[w].attempt = worker[w].attempt
         \/ /\ Broken(w) /\ Carried(worker[w], worker'[w])
            /\ worker'[w].next = 1 /\ worker'[w].attempt = worker[w].attempt + 1
         \/ Broken(w) /\ worker'[w] = IdleWorker
<1>0. worker \in [Workers -> WorkerType] /\ worker[w] \in WorkerType /\ worker[w].stage = "apply"
  BY DEF TypeOK, ApplyDecision
<1>1. NextAttempt(w) =>
        \/ /\ Carried(worker[w], worker'[w])
           /\ worker'[w].next = 1 /\ worker'[w].attempt = worker[w].attempt + 1
        \/ worker'[w] = IdleWorker
  BY <1>0 DEF NextAttempt, Return, Carried, WorkerType
<1>2. CASE /\ CallSucceeds /\ Statement(w)
           /\ IF worker[w].next = Len(worker[w].decisions)
                THEN Return(w)
                ELSE worker' = [worker EXCEPT ![w].next = @ + 1]
  <2>1. Written(w)
    BY <1>2 DEF Written, CallSucceeds
  <2>2. CASE worker[w].next = Len(worker[w].decisions)
    BY <1>0, <1>2, <2>1, <2>2 DEF Return
  <2>3. CASE worker[w].next # Len(worker[w].decisions)
    BY <1>0, <1>2, <2>1, <2>3 DEF Carried, WorkerType
  <2>4. QED
    BY <2>2, <2>3, Zenon
<1>3. CASE CallSucceeds /\ ForeignKeyViolation(w) /\ NextAttempt(w) /\ UNCHANGED storeVars
  BY <1>1, <1>3 DEF Broken, CallSucceeds
<1>4. CASE CallFails /\ NextAttempt(w) /\ UNCHANGED storeVars
  BY <1>1, <1>4, Zenon DEF Broken, CallFails
<1>5. CASE ReplyLost /\ Statement(w) /\ NextAttempt(w)
  BY <1>1, <1>5 DEF Broken, ReplyLost
<1>6. QED
  BY <1>2, <1>3, <1>4, <1>5, Zenon DEF ApplyDecision

LEMMA EvaluateOutcome ==
  ASSUME TypeOK, NEW w \in Workers, Evaluate(w)
  PROVE  \E ds \in DecisionLists(worker[w].rules, Readings(w), worker[w].active, streaks') :
           \/ ds = <<>> /\ worker'[w] = IdleWorker
           \/ /\ worker'[w].stage = "apply" /\ worker'[w].decisions = ds
              /\ worker'[w].rules = worker[w].rules /\ worker'[w].job = worker[w].job
              /\ worker'[w].at = worker[w].at /\ worker'[w].next = worker[w].next
              /\ worker'[w].attempt = worker[w].attempt
<1>0. worker \in [Workers -> WorkerType] /\ worker[w] \in WorkerType
  BY Zenon DEF TypeOK
<1>1. PICK ds \in DecisionLists(worker[w].rules, Readings(w), worker[w].active, streaks') :
        IF ds = <<>> THEN Return(w)
        ELSE worker' = [worker EXCEPT ![w].stage = "apply", ![w].decisions = ds]
  BY DEF Evaluate
<1>2. \/ ds = <<>> /\ worker'[w] = IdleWorker
      \/ /\ worker'[w].stage = "apply" /\ worker'[w].decisions = ds
         /\ worker'[w].rules = worker[w].rules /\ worker'[w].job = worker[w].job
         /\ worker'[w].at = worker[w].at /\ worker'[w].next = worker[w].next
         /\ worker'[w].attempt = worker[w].attempt
  BY <1>0, <1>1 DEF Return, WorkerType
<1>3. QED
  BY <1>2, Zenon

\* Steps of anyone but the worker: a restart, or one that leaves it alone.
LEMMA OthersSteps ==
  ASSUME [Next]_vars, ~\E w \in Workers : WorkerStep(w), ~Restart
  PROVE  /\ UNCHANGED <<worker, streaks>>
         /\ \/ UNCHANGED alerts
            \/ \E i \in DOMAIN alerts, u \in Users : Acknowledge(i, u) \/ Resolve(i, u)
BY Zenon DEF Next, Enqueue, DropMessage, Shutdown, Tick, Waiting, Acknowledge, Resolve, EditRule,
       InsertRule, UpdateRule, DeleteRule, engineVars, storeVars, vars

\* What the environment has spent is spent.
LEMMA UsedSteps ==
  ASSUME [Next]_vars
  PROVE  \/ UNCHANGED used
         \/ used' = [used EXCEPT !.faults = @ + 1] \/ used' = [used EXCEPT !.lost = @ + 1]
         \/ used' = [used EXCEPT !.msgs = @ + 1] \/ used' = [used EXCEPT !.restarts = @ + 1]
         \/ used' = [used EXCEPT !.shutdowns = @ + 1] \/ used' = [used EXCEPT !.edits = @ + 1]
BY Zenon DEF Next, Enqueue, DropMessage, Shutdown, Restart, Tick, Waiting, Acknowledge, Resolve,
       EditRule, vars, WorkerStep, TakeJob, StopWorker, WriteTelemetry, CheckLastSeen,
       UpdateLastSeen, LoadEnabledRules, LoadActiveRuleIDs, Evaluate, ApplyDecision,
       CallSucceeds, CallFails, ReplyLost

=============================================================================
