---------------------------- MODULE OrderProofs -----------------------------
(***************************************************************************)
(* What follows from the order of the channel, for every rule set and      *)
(* debounce length: no evaluation runs ahead of MongoDB, for every pool    *)
(* size, and with one worker and no failed call a reading that bounces     *)
(* never raises an alert (with two workers it may).                        *)
(***************************************************************************)
EXTENDS IngestionProofs

\* MongoDB before the alert engine.  A message counts in telemetry_raw once, and
\* in evaluated[r] at most once and only later, so it is enough to count the
\* stored messages no worker has still to evaluate.  That takes the identity of
\* messages: the channel holds the last arrivals, and no two workers hold one.
Taken == Len(arrivals) - Len(jobs)

Evaluating == {"write", "seen", "touch", "rules", "active", "evaluate"}

InHand == {worker[w].job.id : w \in {v \in Workers : worker[v].stage \in Evaluating}}

QueueInv ==
  /\ Len(jobs) <= Len(arrivals)
  /\ \A k \in DOMAIN jobs : jobs[k] = arrivals[Taken + k]
  /\ \A k \in DOMAIN arrivals : arrivals[k].id = k

\* What a worker holds on its way to an evaluation.
Holds(wk) ==
  wk.stage \in Evaluating =>
    /\ wk.job.id \in 1..Taken /\ wk.job = arrivals[wk.job.id]
    /\ wk.stage # "write" => wk.job.id \in telemetry_raw

HeldOnce ==
  \A v, w \in Workers :
    /\ worker[v].stage \in Evaluating /\ worker[w].stage \in Evaluating
    /\ worker[v].job.id = worker[w].job.id
    => v = w

StoredInv ==
  /\ QueueInv
  /\ telemetry_raw \subseteq 1..Taken
  /\ \A w \in Workers : Holds(worker[w])
  /\ HeldOnce
  /\ \A r \in RuleIds : Len(evaluated[r]) <= Cardinality(telemetry_raw \ InHand)

\* A set that gained an element counts one more.
LEMMA Gained ==
  ASSUME NEW S, NEW T, IsFiniteSet(T), S \subseteq T, NEW n \in Nat, n <= Cardinality(S)
  PROVE  /\ n <= Cardinality(T)
         /\ \A x \in T : x \notin S => n + 1 <= Cardinality(T)
<1>1. IsFiniteSet(S) /\ Cardinality(S) <= Cardinality(T)
  BY FS_Subset
<1>2. Cardinality(S) \in Nat /\ Cardinality(T) \in Nat
  BY <1>1, FS_CardinalityType
<1>3. ASSUME NEW x \in T, x \notin S PROVE n + 1 <= Cardinality(T)
  <2>1. IsFiniteSet(S \cup {x}) /\ Cardinality(S \cup {x}) = Cardinality(S) + 1
    BY <1>1, <1>3, FS_AddElement, Zenon
  <2>2. S \cup {x} \subseteq T
    BY <1>3
  <2>3. Cardinality(S \cup {x}) <= Cardinality(T)
    BY <2>2, FS_Subset, Zenon
  <2>4. QED
    BY <1>2, <2>1, <2>3
<1>4. QED
  BY <1>1, <1>2, <1>3

LEMMA QueueType ==
  ASSUME TypeOK, QueueInv
  PROVE  /\ Len(jobs) \in Nat /\ Len(arrivals) \in Nat /\ Taken \in Nat
         /\ DOMAIN jobs = 1..Len(jobs) /\ DOMAIN arrivals = 1..Len(arrivals)
         /\ IsFiniteSet(1..Taken)
<1>1. /\ Len(jobs) \in Nat /\ Len(arrivals) \in Nat
      /\ DOMAIN jobs = 1..Len(jobs) /\ DOMAIN arrivals = 1..Len(arrivals)
  BY DEF TypeOK
<1>2. Taken \in Nat
  BY <1>1 DEF QueueInv, Taken
<1>3. QED
  BY <1>1, <1>2, FS_Interval

LEMMA EnqueueQueue ==
  ASSUME TypeOK, QueueInv, NEW t \in Topics, NEW p \in Payloads, Enqueue(t, p)
  PROVE  /\ QueueInv' /\ UNCHANGED Taken
         /\ \A k \in 1..Len(arrivals) : arrivals'[k] = arrivals[k]
<1> DEFINE j == [id |-> Len(arrivals) + 1, topic |-> t, payload |-> p]
<1>0. /\ Len(jobs) \in Nat /\ Len(arrivals) \in Nat /\ Taken \in Nat
      /\ DOMAIN jobs = 1..Len(jobs) /\ DOMAIN arrivals = 1..Len(arrivals)
      /\ jobs \in Seq(Job) /\ arrivals \in Seq(Job)
  BY QueueType, Zenon DEF TypeOK
<1>1. j \in Job /\ j.id = Len(arrivals) + 1
  BY <1>0, InputsAssumption DEF Job
<1>2. jobs' = Append(jobs, j) /\ arrivals' = Append(arrivals, j)
  BY DEF Enqueue
<1> HIDE DEF j
<1>3. /\ DOMAIN jobs' = 1..(Len(jobs) + 1) /\ Len(jobs') = Len(jobs) + 1
      /\ jobs'[Len(jobs) + 1] = j
      /\ \A k \in 1..Len(jobs) : jobs'[k] = jobs[k]
  BY <1>0, <1>1, <1>2
<1>4. /\ DOMAIN arrivals' = 1..(Len(arrivals) + 1) /\ Len(arrivals') = Len(arrivals) + 1
      /\ arrivals'[Len(arrivals) + 1] = j
      /\ \A k \in 1..Len(arrivals) : arrivals'[k] = arrivals[k]
  BY <1>0, <1>1, <1>2
<1>5. UNCHANGED Taken /\ Taken + Len(jobs) = Len(arrivals)
  BY <1>0, <1>3, <1>4 DEF Taken
<1>6. ASSUME NEW k \in 1..(Len(jobs) + 1) PROVE jobs'[k] = arrivals'[Taken + k]
  <2>1. CASE k = Len(jobs) + 1
    <3>1. Taken + k = Len(arrivals) + 1
      BY <1>0, <1>5, <2>1
    <3>2. QED
      BY <1>3, <1>4, <2>1, <3>1
  <2>2. CASE k \in 1..Len(jobs)
    <3>1. Taken + k \in 1..Len(arrivals)
      BY <1>0, <1>5, <2>2
    <3>2. QED
      BY <1>0, <1>3, <1>4, <2>2, <3>1, Zenon DEF QueueInv
  <2>3. QED
    BY <1>0, <2>1, <2>2
<1>7. \A k \in DOMAIN arrivals' : arrivals'[k].id = k
  BY <1>0, <1>1, <1>4 DEF QueueInv
<1>8. Len(jobs') <= Len(arrivals')
  BY <1>0, <1>3, <1>4, SMT, Z3 DEF QueueInv
<1>9. QED
  BY <1>3, <1>4, <1>5, <1>6, <1>7, <1>8 DEF QueueInv

LEMMA DequeueQueue ==
  ASSUME TypeOK, QueueInv, jobs # <<>>, jobs' = Tail(jobs), UNCHANGED arrivals
  PROVE  /\ QueueInv' /\ Taken' = Taken + 1 /\ Taken + 1 \in DOMAIN arrivals
         /\ Head(jobs) = arrivals[Taken + 1] /\ Head(jobs).id = Taken + 1
<1>0. /\ Len(jobs) \in Nat /\ Len(arrivals) \in Nat /\ Taken \in Nat
      /\ DOMAIN jobs = 1..Len(jobs) /\ DOMAIN arrivals = 1..Len(arrivals)
      /\ jobs \in Seq(Job) /\ Len(jobs) <= Len(arrivals)
  BY QueueType DEF TypeOK, QueueInv
<1>1. /\ Len(jobs) >= 1 /\ Len(jobs') = Len(jobs) - 1 /\ DOMAIN jobs' = 1..(Len(jobs) - 1)
      /\ \A k \in 1..(Len(jobs) - 1) : jobs'[k] = jobs[k + 1]
      /\ Head(jobs) = jobs[1]
  BY <1>0
<1>2. Taken' = Taken + 1 /\ Taken + Len(jobs) = Len(arrivals)
  BY <1>0, <1>1, SMT, Z3 DEF Taken
<1>3. Taken + 1 \in DOMAIN arrivals /\ Head(jobs) = arrivals[Taken + 1]
  BY <1>0, <1>1, <1>2 DEF QueueInv
<1>4. ASSUME NEW k \in DOMAIN jobs' PROVE jobs'[k] = arrivals[(Taken + 1) + k]
  <2>1. k + 1 \in DOMAIN jobs /\ Taken + (k + 1) = (Taken + 1) + k
    BY <1>0, <1>1
  <2>2. QED
    BY <1>1, <2>1 DEF QueueInv
<1>5. Len(jobs') <= Len(arrivals)
  BY <1>0, <1>1, SMT, Z3
<1>6. QED
  BY <1>2, <1>3, <1>4, <1>5, Zenon DEF QueueInv

\* A step after TakeJob carries the same message on or lets it go.
LEMMA CarriesOn ==
  ASSUME TypeOK, NEW w \in Workers, WorkerStep(w), ~TakeJob(w)
  PROVE  /\ UNCHANGED <<jobs, arrivals>>
         /\ worker'[w].stage \in Evaluating =>
              /\ worker[w].stage \in Evaluating /\ worker'[w].job = worker[w].job
              /\ worker'[w].stage # "write"
              /\ worker[w].stage = "write" => worker[w].job.id \in telemetry_raw'
         /\ \/ UNCHANGED telemetry_raw
            \/ /\ worker[w].stage = "write"
               /\ telemetry_raw' = telemetry_raw \cup {worker[w].job.id}
         /\ Evaluate(w) => worker'[w].stage \notin Evaluating
<1>0. worker \in [Workers -> WorkerType] /\ worker[w] \in WorkerType
  BY Zenon DEF TypeOK
<1>1. CASE StopWorker(w)
  BY <1>0, <1>1, Zenon DEF StopWorker, Goto, Evaluate, WorkerType, Evaluating
<1>2. CASE WriteTelemetry(w)
  <2>1. worker[w].stage = "write" /\ UNCHANGED <<jobs, arrivals>> /\ ~Evaluate(w)
    BY <1>2, Zenon DEF WriteTelemetry, Evaluate
  <2>2. \/ worker'[w].stage = "idle"
        \/ /\ worker'[w].stage = "seen" /\ worker'[w].job = worker[w].job
           /\ telemetry_raw' = telemetry_raw \cup {worker[w].job.id}
    BY <1>0, <1>2 DEF WriteTelemetry, Return, IdleWorker, WorkerType
  <2>3. \/ UNCHANGED telemetry_raw
        \/ telemetry_raw' = telemetry_raw \cup {worker[w].job.id}
    BY <1>2, Zenon DEF WriteTelemetry
  <2>4. QED
    BY <2>1, <2>2, <2>3 DEF Evaluating
<1>3. CASE CheckLastSeen(w) \/ UpdateLastSeen(w)
  BY <1>0, <1>3, SMT, Z3 DEF CheckLastSeen, UpdateLastSeen, Goto, Evaluate, WorkerType, Evaluating
<1>4. CASE LoadEnabledRules(w)
  BY <1>0, <1>4, SMT, Z3 DEF LoadEnabledRules, Return, IdleWorker, Evaluate, WorkerType, Evaluating
<1>5. CASE LoadActiveRuleIDs(w)
  BY <1>0, <1>5, SMT, Z3 DEF LoadActiveRuleIDs, Return, IdleWorker, Evaluate, WorkerType, Evaluating
<1>6. CASE Evaluate(w)
  BY <1>0, <1>6, SMT, Z3 DEF Evaluate, Return, IdleWorker, WorkerType, Evaluating
<1>7. CASE ApplyDecision(w)
  <2>1. worker[w].stage = "apply" /\ UNCHANGED <<jobs, arrivals, telemetry_raw>>
    BY <1>7, Zenon DEF ApplyDecision
  <2>2. worker'[w].stage \in {"apply", "idle"}
    BY <1>0, <1>7 DEF ApplyDecision, NextAttempt, Return, IdleWorker, WorkerType
  <2>3. QED
    BY <2>1, <2>2 DEF Evaluating
<1>8. QED
  BY <1>1, <1>2, <1>3, <1>4, <1>5, <1>6, <1>7 DEF WorkerStep

LEMMA TakeJobStored ==
  ASSUME TypeOK, StoredInv, NEW w \in Workers, TakeJob(w)
  PROVE  StoredInv'
<1>0. /\ Taken \in Nat /\ QueueInv /\ worker \in [Workers -> WorkerType]
      /\ worker[w] \in WorkerType /\ worker[w].stage = "idle"
  BY QueueType, Zenon DEF TypeOK, StoredInv, TakeJob
<1>1. /\ QueueInv' /\ Taken' = Taken + 1
      /\ Head(jobs) = arrivals[Taken + 1] /\ Head(jobs).id = Taken + 1
  BY <1>0, DequeueQueue DEF TakeJob
<1>2. /\ \A v \in Workers : v # w => worker'[v] = worker[v]
      /\ worker'[w].stage \in Evaluating =>
           worker'[w].stage = "write" /\ worker'[w].job = Head(jobs)
      /\ UNCHANGED <<arrivals, telemetry_raw, evaluated>>
  BY <1>0 DEF TakeJob, WorkerType, Evaluating
<1>3. /\ telemetry_raw \subseteq 1..Taken /\ HeldOnce
      /\ \A v \in Workers : Holds(worker[v])
      /\ \A r \in RuleIds : Len(evaluated[r]) <= Cardinality(telemetry_raw \ InHand)
  BY Zenon DEF StoredInv
<1>4. \A v \in Workers : Holds(worker[v])'
  BY <1>0, <1>1, <1>2, <1>3, SMT, Z3 DEF Holds
<1>5. HeldOnce'
  <2>1. \A v \in Workers : v # w /\ worker'[v].stage \in Evaluating =>
          worker[v].stage \in Evaluating /\ worker[v].job.id \in 1..Taken
    BY <1>2, <1>3, Zenon DEF Holds
  <2>2. worker'[w].stage \in Evaluating => worker'[w].job.id = Taken + 1
    BY <1>1, <1>2, Zenon
  <2>3. QED
    BY <1>0, <1>2, <1>3, <2>1, <2>2, SMT, Z3 DEF HeldOnce
<1>6. telemetry_raw' \ InHand' = telemetry_raw \ InHand
  <2>1. \A x \in telemetry_raw : x \in InHand' <=> x \in InHand
    <3>1. ASSUME NEW v \in Workers, worker[v].stage \in Evaluating
          PROVE  worker'[v].stage \in Evaluating /\ worker'[v].job.id = worker[v].job.id
      BY <1>0, <1>2, <3>1, Zenon DEF Evaluating
    <3>2. ASSUME NEW v \in Workers, worker'[v].stage \in Evaluating,
                 worker'[v].job.id \in telemetry_raw
          PROVE  worker[v].stage \in Evaluating /\ worker'[v].job.id = worker[v].job.id
      <4>1. v # w
        BY <1>0, <1>1, <1>2, <1>3, <3>2, SMT, Z3
      <4>2. QED
        BY <1>2, <3>2, <4>1, Zenon
    <3>3. QED
      BY <3>1, <3>2, Zenon DEF InHand
  <2>2. QED
    BY <1>2, <2>1, Zenon
<1>7. telemetry_raw' \subseteq 1..Taken'
  BY <1>0, <1>1, <1>2, <1>3, SMT, Z3
<1>8. QED
  BY <1>1, <1>2, <1>3, <1>4, <1>5, <1>6, <1>7, Zenon DEF StoredInv

LEMMA WorkerStepStored ==
  ASSUME TypeOK, StoredInv, NEW w \in Workers, WorkerStep(w), ~TakeJob(w)
  PROVE  StoredInv'
<1> DEFINE S == telemetry_raw \ InHand
           T == telemetry_raw' \ InHand'
           id == worker[w].job.id
<1>0. /\ Taken \in Nat /\ IsFiniteSet(1..Taken)
      /\ QueueInv /\ telemetry_raw \subseteq 1..Taken /\ HeldOnce
      /\ \A v \in Workers : Holds(worker[v])
      /\ \A r \in RuleIds : Len(evaluated[r]) <= Cardinality(S)
      /\ evaluated \in [RuleIds -> Seq(BOOLEAN)]
  BY QueueType, Zenon DEF TypeOK, StoredInv
<1>1. /\ UNCHANGED <<jobs, arrivals, Taken>>
      /\ worker'[w].stage \in Evaluating =>
           /\ worker[w].stage \in Evaluating /\ worker'[w].job = worker[w].job
           /\ worker'[w].stage # "write"
           /\ worker[w].stage = "write" => id \in telemetry_raw'
      /\ \/ UNCHANGED telemetry_raw
         \/ worker[w].stage = "write" /\ telemetry_raw' = telemetry_raw \cup {id}
  BY CarriesOn DEF Taken
<1>2. \A v \in Workers : v # w => worker'[v] = worker[v]
  BY OtherWorkersKept
<1>3. telemetry_raw \subseteq telemetry_raw' /\ telemetry_raw' \subseteq 1..Taken
  BY <1>0, <1>1, Zenon DEF Holds, Evaluating
<1>4. QueueInv'
  BY <1>0, <1>1, Zenon DEF QueueInv
<1>5. ASSUME NEW v \in Workers, worker'[v].stage \in Evaluating
      PROVE  worker[v].stage \in Evaluating /\ worker'[v].job = worker[v].job
  BY <1>1, <1>2, <1>5
<1>6. ASSUME NEW v \in Workers PROVE Holds(worker[v])'
  <2>1. CASE v = w
    <3>1. Holds(worker[w])
      BY <1>0, Zenon
    <3>2. QED
      BY <1>1, <1>3, <2>1, <3>1 DEF Holds
  <2>2. CASE v # w
    <3>1. Holds(worker[v]) /\ worker'[v] = worker[v]
      BY <1>0, <1>2, <2>2, Zenon
    <3>2. QED
      BY <1>1, <1>3, <3>1, Zenon DEF Holds
  <2>3. QED
    BY <2>1, <2>2, Zenon
<1>7. HeldOnce'
  BY <1>0, <1>5 DEF HeldOnce
<1>8. S \subseteq T /\ IsFiniteSet(T)
  <2>1. InHand' \subseteq InHand
    BY <1>5 DEF InHand
  <2>2. T \subseteq 1..Taken
    BY <1>3, Zenon
  <2>3. QED
    BY <1>0, <1>3, <2>1, <2>2, FS_Subset, Zenon
<1>9. ASSUME NEW r \in RuleIds PROVE Len(evaluated'[r]) <= Cardinality(T)
  <2>1. Len(evaluated[r]) \in Nat /\ Len(evaluated[r]) <= Cardinality(S)
    <3>1. evaluated[r] \in Seq(BOOLEAN)
      BY <1>0
    <3>2. Len(evaluated[r]) \in Nat
      BY <3>1
    <3>3. Len(evaluated[r]) <= Cardinality(S)
      BY <1>0, Zenon
    <3>4. QED
      BY <3>2, <3>3
  <2>2. CASE ~Evaluate(w)
    <3>1. UNCHANGED evaluated
      BY <2>2, DecisionsKept, Zenon
    <3> HIDE DEF S, T
    <3>2. QED
      BY <1>8, <2>1, <3>1, Gained, Zenon
  <2>3. CASE Evaluate(w)
    <3>1. /\ worker[w].stage = "evaluate" /\ worker'[w].stage \notin Evaluating
          /\ id \in telemetry_raw
      BY <1>0, <2>3, CarriesOn, Zenon DEF Evaluate, Holds, Evaluating
    <3>2. id \notin InHand' /\ id \in InHand
      BY <1>0, <1>5, <3>1, SMT, Z3 DEF InHand, HeldOnce, Evaluating
    <3>3. id \in T /\ id \notin S
      BY <1>3, <3>1, <3>2, Zenon
    <3>4. Len(evaluated'[r]) \in {Len(evaluated[r]), Len(evaluated[r]) + 1}
      <4>1. Triggered(worker[w].rules[r], Readings(w)) \in BOOLEAN
        BY TriggeredIsBoolean, Zenon
      <4>2. evaluated'[r] \in {evaluated[r],
                               Append(evaluated[r], Triggered(worker[w].rules[r], Readings(w)))}
        BY <2>3 DEF Evaluate
      <4>3. QED
        BY <1>0, <4>1, <4>2, SMT, Z3
    <3> HIDE DEF S, T, id
    <3>5. QED
      BY <1>8, <2>1, <3>3, <3>4, Gained, Zenon
  <2>4. QED
    BY <2>2, <2>3
<1>10. QED
  BY <1>1, <1>3, <1>4, <1>6, <1>7, <1>9 DEF StoredInv

LEMMA RestartStored ==
  ASSUME TypeOK, StoredInv, Restart
  PROVE  StoredInv'
<1>0. /\ Taken \in Nat /\ Len(arrivals) \in Nat /\ Len(jobs) \in Nat
      /\ Len(jobs) <= Len(arrivals) /\ telemetry_raw \subseteq 1..Taken
  BY QueueType DEF StoredInv, QueueInv
<1>1. /\ jobs' = <<>> /\ UNCHANGED <<arrivals, telemetry_raw, evaluated>>
      /\ \A w \in Workers : worker'[w].stage \notin Evaluating
  BY Zenon DEF Restart, IdleWorker, Evaluating
<1>2. Len(jobs') = 0 /\ DOMAIN jobs' = {} /\ Taken' = Len(arrivals) /\ Taken <= Taken'
  BY <1>0, <1>1 DEF Taken
<1>3. telemetry_raw' \subseteq 1..Taken' /\ Taken' \in Nat
  BY <1>0, <1>1, <1>2, SMT, Z3
<1>4. QueueInv'
  BY <1>0, <1>1, <1>2 DEF StoredInv, QueueInv
<1>5. InHand' = {}
  BY <1>1 DEF InHand
<1> DEFINE S == telemetry_raw \ InHand
           T == telemetry_raw' \ InHand'
<1>6. S \subseteq T /\ IsFiniteSet(T)
  <2>1. IsFiniteSet(1..Taken') /\ S \subseteq T /\ T \subseteq 1..Taken'
    BY <1>1, <1>3, <1>5, FS_Interval, SMT, Z3
  <2>2. QED
    BY <2>1, FS_Subset, Zenon
<1>7. ASSUME NEW r \in RuleIds PROVE Len(evaluated'[r]) <= Cardinality(T)
  <2>1. evaluated[r] \in Seq(BOOLEAN) /\ Len(evaluated[r]) <= Cardinality(S)
    BY Zenon DEF TypeOK, StoredInv
  <2>2. Len(evaluated[r]) \in Nat
    BY <2>1, SMT, Z3
  <2> HIDE DEF S, T
  <2>3. QED
    BY <1>1, <1>6, <2>1, <2>2, Gained
<1>8. QED
  BY <1>1, <1>3, <1>4, <1>7, Zenon DEF StoredInv, Holds, HeldOnce

LEMMA EnvironmentQueue ==
  ASSUME TypeOK, QueueInv, [Next]_vars, ~\E w \in Workers : WorkerStep(w), ~Restart
  PROVE  /\ UNCHANGED <<worker, streaks, telemetry_raw, evaluated>>
         /\ QueueInv' /\ UNCHANGED Taken
         /\ \A k \in 1..Len(arrivals) : arrivals'[k] = arrivals[k]
<1>1. UNCHANGED <<worker, streaks, telemetry_raw, evaluated>>
  BY Zenon DEF Next, Enqueue, DropMessage, Shutdown, Tick, Waiting, Acknowledge, Resolve, EditRule,
         engineVars, vars
<1>2. CASE \E t \in Topics, p \in Payloads : Enqueue(t, p)
  BY <1>1, <1>2, EnqueueQueue, Zenon
<1>3. CASE UNCHANGED <<jobs, arrivals>>
  BY <1>1, <1>3 DEF QueueInv, Taken
<1>4. QED
  BY <1>2, <1>3, Zenon DEF Next, DropMessage, Shutdown, Tick, Waiting, Acknowledge, Resolve,
                    EditRule, engineVars, vars

LEMMA EnvironmentStored ==
  ASSUME TypeOK, StoredInv, [Next]_vars, ~\E w \in Workers : WorkerStep(w), ~Restart
  PROVE  StoredInv'
<1>0. /\ QueueInv /\ Taken \in Nat /\ Len(jobs) \in Nat /\ Len(arrivals) \in Nat
      /\ Taken <= Len(arrivals)
  BY QueueType, SMT, Z3 DEF StoredInv, QueueInv, Taken
<1>1. UNCHANGED <<worker, telemetry_raw, evaluated>>
  BY <1>0, EnvironmentQueue, Zenon
<1>2. /\ QueueInv' /\ UNCHANGED Taken
      /\ \A k \in 1..Len(arrivals) : arrivals'[k] = arrivals[k]
  BY <1>0, EnvironmentQueue, Zenon
<1>3. InHand' = InHand
  BY <1>1, Zenon DEF InHand
<1>4. \A w \in Workers : Holds(worker[w])'
  <2>1. \A k \in 1..Taken : k \in 1..Len(arrivals)
    BY <1>0, SMT, Z3
  <2>2. QED
    BY <1>1, <1>2, <2>1 DEF StoredInv, Holds
<1>5. HeldOnce'
  BY <1>1, Zenon DEF StoredInv, HeldOnce
<1>6. QED
  BY <1>1, <1>2, <1>3, <1>4, <1>5, Zenon DEF StoredInv

LEMMA InitStored == Init => StoredInv
<1> SUFFICES ASSUME Init PROVE StoredInv
  BY Zenon
<1>1. /\ jobs = <<>> /\ arrivals = <<>> /\ telemetry_raw = {}
      /\ \A w \in Workers : worker[w].stage = "idle"
      /\ \A r \in RuleIds : evaluated[r] = <<>>
  BY Zenon DEF Init, IdleWorker
<1>2. telemetry_raw \ InHand = {} /\ Cardinality({}) = 0
  BY <1>1, FS_EmptySet, Zenon
<1>3. \A r \in RuleIds : Len(evaluated[r]) <= Cardinality(telemetry_raw \ InHand)
  BY <1>1, <1>2
<1>4. QueueInv
  BY <1>1 DEF QueueInv
<1>5. QED
  BY <1>1, <1>3, <1>4 DEF StoredInv, Holds, HeldOnce, Evaluating

LEMMA NextStored == TypeOK /\ StoredInv /\ [Next]_vars => StoredInv'
<1> SUFFICES ASSUME TypeOK, StoredInv, [Next]_vars PROVE StoredInv'
  OBVIOUS
<1>1. CASE \E w \in Workers : WorkerStep(w)
  BY <1>1, TakeJobStored, WorkerStepStored
<1>2. CASE Restart
  BY <1>2, RestartStored
<1>3. CASE ~Restart /\ ~\E w \in Workers : WorkerStep(w)
  BY <1>3, EnvironmentStored
<1>4. QED
  BY <1>1, <1>2, <1>3, Zenon

\* MongoDB first (process()): a rule has never been evaluated more often than
\* telemetry_raw has messages, for every pool, failure, lost reply and restart.
THEOREM EvaluationsStored == Spec => []EvaluationsAreStored
<1>1. TypeOK /\ StoredInv => EvaluationsAreStored
  <2> SUFFICES ASSUME TypeOK, StoredInv, NEW r \in RuleIds
               PROVE  Len(evaluated[r]) <= Cardinality(telemetry_raw)
    BY Zenon DEF EvaluationsAreStored
  <2> DEFINE S == telemetry_raw \ InHand
  <2>1. evaluated[r] \in Seq(BOOLEAN) /\ Len(evaluated[r]) <= Cardinality(S)
    BY Zenon DEF TypeOK, StoredInv
  <2>2. Len(evaluated[r]) \in Nat
    BY <2>1
  <2>3. S \subseteq telemetry_raw /\ IsFiniteSet(telemetry_raw)
    BY QueueType, FS_Subset, Zenon DEF StoredInv
  <2> HIDE DEF S
  <2>4. QED
    BY <2>1, <2>2, <2>3, Gained
<1>2. QED
  BY <1>1, InitStored, NextStored, TypeCorrect, PTL DEF Spec

-----------------------------------------------------------------------------
\* Bouncing.  A breaching streak of n is backed by n readings in a row among the
\* messages taken so far, because with one worker and no failed call messages are
\* evaluated in the order they arrived and none is left out.
Relevant(job, rule) == /\ Parses(job)
                       /\ job.payload.device_id = rule.device_id
                       /\ rule.metric \in DOMAIN job.payload.readings

InWindow(seq, a, b, rule) == {k \in a..b : Relevant(seq[k], rule)}

Breached(seq, b, rule, n) ==
  \E a \in 1..b : /\ Cardinality(InWindow(seq, a, b, rule)) >= n
                  /\ \A k \in InWindow(seq, a, b, rule) :
                       Triggered(rule, seq[k].payload.readings)

Arrived(seq, rule) == \E b \in DOMAIN seq : Breached(seq, b, rule, DebounceN)

LEMMA WindowFinite ==
  ASSUME NEW seq, NEW a \in Nat, NEW b \in Nat, NEW rule
  PROVE  /\ IsFiniteSet(InWindow(seq, a, b, rule))
         /\ Cardinality(InWindow(seq, a, b, rule)) \in Nat
<1>1. IsFiniteSet(a..b) /\ InWindow(seq, a, b, rule) \subseteq a..b
  BY FS_Interval, SMT, Z3 DEF InWindow
<1>2. QED
  BY <1>1, FS_Subset, FS_CardinalityType

LEMMA WindowKept ==
  ASSUME NEW s, NEW t, NEW b \in Nat, \A k \in 1..b : t[k] = s[k], NEW rule, NEW n,
         Breached(s, b, rule, n)
  PROVE  Breached(t, b, rule, n)
<1>1. PICK a \in 1..b : /\ Cardinality(InWindow(s, a, b, rule)) >= n
                        /\ \A k \in InWindow(s, a, b, rule) :
                             Triggered(rule, s[k].payload.readings)
  BY Zenon DEF Breached
<1>2. \A k \in a..b : t[k] = s[k]
  BY <1>1, SMT, Z3
<1>3. InWindow(t, a, b, rule) = InWindow(s, a, b, rule)
  BY <1>2, Zenon DEF InWindow
<1>4. \A k \in InWindow(t, a, b, rule) : Triggered(rule, t[k].payload.readings)
  BY <1>1, <1>2, <1>3, Zenon DEF InWindow
<1>5. QED
  BY <1>1, <1>3, <1>4, Zenon DEF Breached

LEMMA WindowSkips ==
  ASSUME NEW s, NEW b \in Nat, NEW rule, ~Relevant(s[b + 1], rule), NEW n,
         Breached(s, b, rule, n)
  PROVE  Breached(s, b + 1, rule, n)
<1>1. PICK a \in 1..b : /\ Cardinality(InWindow(s, a, b, rule)) >= n
                        /\ \A k \in InWindow(s, a, b, rule) :
                             Triggered(rule, s[k].payload.readings)
  BY Zenon DEF Breached
<1>2. a \in 1..(b + 1) /\ a..(b + 1) = (a..b) \cup {b + 1}
  BY <1>1, SMT, Z3
<1>3. InWindow(s, a, b + 1, rule) = InWindow(s, a, b, rule)
  BY <1>2, Zenon DEF InWindow
<1>4. QED
  BY <1>1, <1>2, <1>3, Zenon DEF Breached

LEMMA WindowGrows ==
  ASSUME NEW s, NEW b \in Nat, NEW rule, Relevant(s[b + 1], rule),
         Triggered(rule, s[b + 1].payload.readings), NEW n \in Nat, Breached(s, b, rule, n)
  PROVE  Breached(s, b + 1, rule, n + 1)
<1> DEFINE W(a, c) == InWindow(s, a, c, rule)
<1>1. PICK a \in 1..b : /\ Cardinality(W(a, b)) >= n
                        /\ \A k \in W(a, b) : Triggered(rule, s[k].payload.readings)
  BY Zenon DEF Breached
<1>2. a \in 1..(b + 1) /\ a..(b + 1) = (a..b) \cup {b + 1} /\ b + 1 \notin a..b
  BY <1>1, SMT, Z3
<1>3. W(a, b + 1) = W(a, b) \cup {b + 1} /\ b + 1 \notin W(a, b)
  BY <1>2, Zenon DEF InWindow
<1>4. IsFiniteSet(W(a, b)) /\ Cardinality(W(a, b)) \in Nat
  BY <1>1, WindowFinite, SMT, Z3
<1> HIDE DEF W
<1>5. Cardinality(W(a, b + 1)) = Cardinality(W(a, b)) + 1
  BY <1>3, <1>4, FS_AddElement, Zenon
<1>6. Cardinality(W(a, b + 1)) >= n + 1
  BY <1>1, <1>4, <1>5, SMT, Z3
<1>7. \A k \in W(a, b + 1) : Triggered(rule, s[k].payload.readings)
  BY <1>1, <1>3, Zenon
<1>8. QED
  BY <1>2, <1>6, <1>7, Zenon DEF Breached, W

LEMMA WindowStarts ==
  ASSUME NEW s, NEW b \in Nat, NEW rule, Relevant(s[b + 1], rule),
         Triggered(rule, s[b + 1].payload.readings)
  PROVE  Breached(s, b + 1, rule, 1)
<1>1. InWindow(s, b + 1, b + 1, rule) = {b + 1} /\ b + 1 \in 1..(b + 1)
  BY DEF InWindow
<1>2. Cardinality({b + 1}) = 1
  BY FS_Singleton, Zenon
<1>3. QED
  BY <1>1, <1>2, SMT, Z3 DEF Breached

LEMMA WindowEnough ==
  ASSUME NEW s, NEW b \in Nat, NEW rule, NEW n \in Nat, DebounceN <= n,
         Breached(s, b, rule, n)
  PROVE  Breached(s, b, rule, DebounceN)
<1>1. PICK a \in 1..b : /\ Cardinality(InWindow(s, a, b, rule)) >= n
                        /\ \A k \in InWindow(s, a, b, rule) :
                             Triggered(rule, s[k].payload.readings)
  BY Zenon DEF Breached
<1>2. Cardinality(InWindow(s, a, b, rule)) \in Nat
  BY <1>1, WindowFinite, SMT, Z3
<1>3. Cardinality(InWindow(s, a, b, rule)) >= DebounceN
  BY <1>1, <1>2, DebounceAssumption, SMT, Z3
<1>4. QED
  BY <1>1, <1>3, Zenon DEF Breached

LEMMA ArrivedKept ==
  ASSUME NEW s \in Seq(Job), NEW t \in Seq(Job), Len(s) <= Len(t),
         \A k \in 1..Len(s) : t[k] = s[k], NEW rule, Arrived(s, rule)
  PROVE  Arrived(t, rule)
<1>1. PICK b \in DOMAIN s : Breached(s, b, rule, DebounceN)
  BY Zenon DEF Arrived
<1>2. b \in Nat /\ b \in DOMAIN t /\ \A k \in 1..b : t[k] = s[k]
  BY <1>1, SMT, Z3
<1>3. QED
  BY <1>1, <1>2, WindowKept, Zenon DEF Arrived

LEMMA ArrivedMeans ==
  ASSUME TypeOK, NEW rule, Arrived(arrivals, rule)
  PROVE  BreachArrived(rule)
<1>1. PICK b \in DOMAIN arrivals : Breached(arrivals, b, rule, DebounceN)
  BY Zenon DEF Arrived
<1>2. PICK a \in 1..b :
        /\ Cardinality(InWindow(arrivals, a, b, rule)) >= DebounceN
        /\ \A k \in InWindow(arrivals, a, b, rule) :
             Triggered(rule, arrivals[k].payload.readings)
  BY <1>1, Zenon DEF Breached
<1>3. ReadingsIn(a, b, rule) = InWindow(arrivals, a, b, rule)
  BY Zenon DEF ReadingsIn, InWindow, Relevant
<1>4. arrivals \in Seq(Job)
  BY Zenon DEF TypeOK
<1>5. a \in DOMAIN arrivals
  BY <1>1, <1>2, <1>4, SMT, Z3
<1>6. QED
  BY <1>1, <1>2, <1>3, <1>5, Zenon DEF BreachArrived

-----------------------------------------------------------------------------
Unfailing == used.faults = 0 /\ used.lost = 0 /\ used.edits = 0

\* The last message the streaks have counted, once it is through.
Upto(wk) == IF wk.stage \in Evaluating THEN Taken - 1 ELSE Taken

Applies(rule, device) == rule \in Rule /\ rule.device_id = device /\ rule.enabled

HoldsInitial(wk) ==
  wk.stage \in Loaded => \A r \in RuleIds :
    wk.rules[r] = IF Applies(InitialRules[r], wk.job.payload.device_id)
                    THEN InitialRules[r] ELSE NoRule

StreakArrived(state, r, seq, b) ==
  state.Count > 0 /\ state.Breaching =>
    /\ InitialRules[r] \in Rule /\ InitialRules[r].enabled
    /\ Breached(seq, b, InitialRules[r], state.Count)

\* A stopping service leaves messages out, but evaluates no other after them.
StreaksArrived(wk) ==
  ~ctxDone \/ wk.stage = "evaluate" =>
    \A r \in RuleIds : StreakArrived(streaks[r], r, arrivals, Upto(wk))

CreatesArrived(wk) ==
  wk.stage = "apply" => \A k \in DOMAIN wk.decisions :
    wk.decisions[k].decision = "create" =>
      Arrived(arrivals, InitialRules[wk.decisions[k].rule])

AlertsArrived ==
  \A i \in DOMAIN alerts : Arrived(arrivals, InitialRules[alerts[i].alert_rule_id])

InOrder == \A w \in Workers : worker[w].stage \in Evaluating => worker[w].job.id = Taken

BounceInv ==
  Unfailing =>
    /\ alert_rules = InitialRules
    /\ \A w \in Workers : /\ HoldsInitial(worker[w]) /\ StreaksArrived(worker[w])
                          /\ CreatesArrived(worker[w])
    /\ AlertsArrived

LEMMA UnfailingSteps ==
  ASSUME TypeOK, [Next]_vars, Unfailing'
  PROVE  Unfailing /\ UNCHANGED alert_rules
<1>0. used \in Used /\ used'.faults = 0 /\ used'.lost = 0 /\ used'.edits = 0
  BY Zenon DEF TypeOK, Unfailing
<1>1. Unfailing
  BY <1>0, UsedSteps DEF Used, Unfailing
<1>2. ~\E q \in RuleIds : EditRule(q)
  BY <1>0 DEF EditRule, Used
<1>3. CASE \E w \in Workers : WorkerStep(w)
  BY <1>1, <1>3, WorkerWrites, Zenon DEF Statement, InsertAlert, AutoResolveAlerts, storeVars
<1>4. CASE ~\E w \in Workers : WorkerStep(w)
  BY <1>1, <1>2, <1>4, Zenon DEF Next, Enqueue, DropMessage, Shutdown, Restart, Tick, Waiting,
     Acknowledge, Resolve, AcknowledgeAlert, ResolveAlert, vars, storeVars
<1>5. QED
  BY <1>3, <1>4, Zenon

\* Arrivals are only ever added.
LEMMA ArrivalsKept ==
  ASSUME TypeOK, [Next]_vars
  PROVE  /\ Len(arrivals) <= Len(arrivals')
         /\ \A k \in 1..Len(arrivals) : arrivals'[k] = arrivals[k]
<1>0. arrivals \in Seq(Job)
  BY Zenon DEF TypeOK
<1>1. CASE UNCHANGED arrivals
  BY <1>0, <1>1, SMT, Z3
<1>2. CASE \E t \in Topics, p \in Payloads : Enqueue(t, p)
  <2>1. PICK t \in Topics, p \in Payloads : Enqueue(t, p)
    BY <1>2
  <2> DEFINE j == [id |-> Len(arrivals) + 1, topic |-> t, payload |-> p]
  <2>2. j \in Job /\ arrivals' = Append(arrivals, j)
    BY <1>0, <2>1, InputsAssumption, SMT, Z3 DEF Job, Enqueue
  <2> HIDE DEF j
  <2>3. QED
    BY <1>0, <2>2, SMT, Z3
<1>3. CASE ~\E t \in Topics, p \in Payloads : Enqueue(t, p)
  <2>1. UNCHANGED arrivals
    BY <1>3, Zenon DEF Next, DropMessage, Shutdown, Restart, Tick, Waiting, Acknowledge, Resolve,
       EditRule, engineVars, vars, WorkerStep, TakeJob, StopWorker, WriteTelemetry,
       CheckLastSeen, UpdateLastSeen, LoadEnabledRules, LoadActiveRuleIDs, Evaluate,
       ApplyDecision
  <2>2. QED
    BY <1>1, <2>1, Zenon
<1>4. QED
  BY <1>2, <1>3, Zenon

\* One worker takes messages one by one.
LEMMA NextInOrder ==
  ASSUME SingleWorker, TypeOK, StoredInv, InOrder, [Next]_vars
  PROVE  InOrder'
<1>0. QueueInv
  BY Zenon DEF StoredInv
<1>1. ASSUME NEW w \in Workers, WorkerStep(w) PROVE InOrder'
  <2>1. \A v \in Workers : v = w
    BY Zenon DEF SingleWorker
  <2>2. CASE TakeJob(w)
    <3>1. Taken' = Taken + 1 /\ Head(jobs).id = Taken + 1
      BY <1>0, <2>2, DequeueQueue, Zenon DEF TakeJob
    <3>2. worker'[w].stage \in Evaluating => worker'[w].job = Head(jobs)
      BY <2>2, Zenon DEF TakeJob, TypeOK, WorkerType, Evaluating
    <3>3. QED
      BY <2>1, <3>1, <3>2 DEF InOrder
  <2>3. CASE ~TakeJob(w)
    BY <1>1, <2>1, <2>3, CarriesOn, Zenon DEF InOrder, Taken
  <2>4. QED
    BY <2>2, <2>3
<1>2. CASE Restart
  BY <1>2, Zenon DEF Restart, IdleWorker, InOrder, Evaluating
<1>3. CASE ~Restart /\ ~\E w \in Workers : WorkerStep(w)
  BY <1>0, <1>3, EnvironmentQueue, Zenon DEF InOrder
<1>4. QED
  BY <1>1, <1>2, <1>3, Zenon

LEMMA NextHoldsInitial ==
  ASSUME TypeOK, [Next]_vars, alert_rules = InitialRules, NEW w \in Workers,
         HoldsInitial(worker[w])
  PROVE  HoldsInitial(worker[w])'
<1>1. CASE worker'[w] = worker[w]
  BY <1>1, Zenon DEF HoldsInitial
<1>2. CASE WorkerStep(w)
  <2>1. CASE worker'[w].stage \in Loaded
    <3>1. /\ worker'[w].job = worker[w].job
          /\ \/ worker[w].stage \in Loaded /\ worker'[w].rules = worker[w].rules
             \/ worker'[w].rules = EnabledRules(Device(w))
      BY <1>2, <2>1, RulesHeld, Zenon
    <3>2. CASE worker[w].stage \in Loaded /\ worker'[w].rules = worker[w].rules
      BY <3>1, <3>2, Zenon DEF HoldsInitial
    <3>3. CASE worker'[w].rules = EnabledRules(Device(w))
      BY <3>1, <3>3, Zenon DEF HoldsInitial, EnabledRules, LiveRules, Applies, Device
    <3>4. QED
      BY <3>1, <3>2, <3>3, Zenon
  <2>2. CASE worker'[w].stage \notin Loaded
    BY <2>2, Zenon DEF HoldsInitial
  <2>3. QED
    BY <2>1, <2>2
<1>3. CASE \E v \in Workers : v # w /\ WorkerStep(v)
  BY <1>1, <1>3, OtherWorkersKept, Zenon
<1>4. CASE Restart
  BY <1>4, Zenon DEF Restart, IdleWorker, HoldsInitial, Loaded
<1>5. CASE ~Restart /\ ~\E v \in Workers : WorkerStep(v)
  BY <1>1, <1>5, OthersSteps, Zenon
<1>6. QED
  BY <1>2, <1>3, <1>4, <1>5, Zenon

LEMMA StreakSkips ==
  ASSUME NEW r \in RuleIds, NEW state, NEW seq, NEW b \in Nat,
         InitialRules[r] \in Rule /\ InitialRules[r].enabled
           => ~Relevant(seq[b + 1], InitialRules[r]),
         StreakArrived(state, r, seq, b)
  PROVE  StreakArrived(state, r, seq, b + 1)
BY WindowSkips, Zenon DEF StreakArrived

LEMMA StreakAdvances ==
  ASSUME NEW r \in RuleIds, NEW state \in BreachState, NEW seq, NEW b \in Nat,
         InitialRules[r] \in Rule, InitialRules[r].enabled,
         Relevant(seq[b + 1], InitialRules[r]), NEW t \in BOOLEAN,
         t = Triggered(InitialRules[r], seq[b + 1].payload.readings),
         StreakArrived(state, r, seq, b)
  PROVE  StreakArrived(NextBreachState(state, t), r, seq, b + 1)
<1>0. state.Count \in Nat /\ state.Breaching \in BOOLEAN
  BY Zenon DEF BreachState
<1>1. CASE t /\ state.Breaching /\ state.Count > 0
  <2>1. Breached(seq, b + 1, InitialRules[r], state.Count + 1)
    BY <1>0, <1>1, WindowGrows, Zenon DEF StreakArrived
  <2>2. NextBreachState(state, t).Count = state.Count + 1
    BY <1>0, <1>1, Zenon DEF NextBreachState, BreachState
  <2>3. QED
    BY <2>1, <2>2, Zenon DEF StreakArrived
<1>2. CASE t /\ ~(state.Breaching /\ state.Count > 0)
  <2>1. Breached(seq, b + 1, InitialRules[r], 1)
    BY <1>2, WindowStarts, Zenon
  <2>2. NextBreachState(state, t).Count = 1
    <3>1. CASE state.Breaching
      <4>1. state.Count = 0 /\ state.Breaching = t
        BY <1>0, <1>2, <3>1
      <4>2. QED
        BY <4>1, SMT, Z3 DEF NextBreachState, BreachState
    <3>2. CASE ~state.Breaching
      BY <1>2, <3>2, Zenon DEF NextBreachState
    <3>3. QED
      BY <3>1, <3>2, Zenon
  <2>3. QED
    BY <2>1, <2>2 DEF StreakArrived
<1>3. CASE ~t
  <2>1. NextBreachState(state, t).Breaching = FALSE
    BY <1>0, <1>3, Zenon DEF NextBreachState, BreachState
  <2>2. QED
    BY <2>1, Zenon DEF StreakArrived
<1>4. QED
  BY <1>1, <1>2, <1>3

\* The message a worker is about to evaluate is the last one taken.
LEMMA CurrentMessage ==
  ASSUME TypeOK, StoredInv, InOrder, NEW w \in Workers, worker[w].stage \in Evaluating
  PROVE  /\ Taken \in Nat /\ Taken - 1 \in Nat /\ Taken \in DOMAIN arrivals
         /\ worker[w].job = arrivals[Taken] /\ Parses(arrivals[Taken])
<1>1. /\ worker[w].job.id = Taken /\ worker[w].job.id \in 1..Taken
      /\ worker[w].job = arrivals[Taken]
  BY Zenon DEF StoredInv, Holds, InOrder
<1>2. /\ Taken \in Nat /\ Len(jobs) \in Nat /\ Len(arrivals) \in Nat
      /\ DOMAIN arrivals = 1..Len(arrivals)
  BY QueueType, Zenon DEF StoredInv
<1>3. Parses(worker[w].job)
  BY Zenon DEF TypeOK, WorkerOK, Evaluating
<1>4. QED
  BY <1>1, <1>2, <1>3, SMT, Z3 DEF Taken

LEMMA EvaluateArrived ==
  ASSUME TypeOK, StoredInv, InOrder, NEW w \in Workers, Evaluate(w),
         HoldsInitial(worker[w]), StreaksArrived(worker[w])
  PROVE  StreaksArrived(worker[w])' /\ CreatesArrived(worker[w])'
<1> DEFINE rules == worker[w].rules
           b == Taken - 1
           job == arrivals[Taken]
           dev == job.payload.device_id
           readings == job.payload.readings
<1>0. worker[w].stage = "evaluate"
  BY Zenon DEF Evaluate
<1>1. /\ Taken \in Nat /\ b \in Nat /\ b + 1 = Taken /\ Taken \in DOMAIN arrivals
      /\ worker[w].job = job /\ Parses(job) /\ Readings(w) = readings
  BY <1>0, CurrentMessage DEF Evaluating, Readings
<1>2. \A r \in RuleIds : rules[r] = IF Applies(InitialRules[r], dev)
                                      THEN InitialRules[r] ELSE NoRule
  BY <1>0, <1>1, Zenon DEF HoldsInitial, Loaded
<1>3. \A r \in RuleIds : StreakArrived(streaks[r], r, arrivals, b)
  BY <1>0, Zenon DEF StreaksArrived, Upto, Evaluating
<1>4. streaks' = NextStreaks(rules, readings, streaks) /\ UNCHANGED <<arrivals, jobs, Taken>>
  BY <1>1, Zenon DEF Evaluate, Taken
<1>5. streaks \in [RuleIds -> BreachState]
  BY DEF TypeOK
<1> HIDE DEF rules, b, dev, readings
<1>6. ASSUME NEW r \in RuleIds
      PROVE  /\ StreakArrived(streaks'[r], r, arrivals, b + 1)
             /\ r \in Evaluated(rules, readings) =>
                  /\ rules[r] = InitialRules[r]
                  /\ streaks'[r] = NextBreachState(streaks[r],
                                                   Triggered(InitialRules[r], readings))
  <2>1. CASE r \in Evaluated(rules, readings)
    <3>1. /\ Applies(InitialRules[r], dev) /\ rules[r] = InitialRules[r]
          /\ InitialRules[r].metric \in DOMAIN readings
      BY <1>2, <2>1, Zenon DEF Evaluated
    <3>2. Relevant(arrivals[b + 1], InitialRules[r])
      BY <1>1, <3>1, Zenon DEF Relevant, Applies, dev, readings
    <3> DEFINE t == Triggered(InitialRules[r], readings)
    <3>3. t \in BOOLEAN /\ t = Triggered(InitialRules[r], arrivals[b + 1].payload.readings)
      BY <1>1, TriggeredIsBoolean, Zenon DEF readings
    <3>4. streaks'[r] = NextBreachState(streaks[r], t)
      BY <1>4, <2>1, <3>1, Zenon DEF NextStreaks
    <3>5. streaks[r] \in BreachState /\ StreakArrived(streaks[r], r, arrivals, b)
      BY <1>3, <1>5
    <3> HIDE DEF t
    <3>6. StreakArrived(NextBreachState(streaks[r], t), r, arrivals, b + 1)
      BY <1>1, <3>1, <3>2, <3>3, <3>5, StreakAdvances, Zenon DEF Applies
    <3>7. QED
      BY <3>1, <3>4, <3>6, Zenon DEF t
  <2>2. CASE r \notin Evaluated(rules, readings)
    <3>1. streaks'[r] = streaks[r]
      BY <1>4, <2>2, Zenon DEF NextStreaks
    <3>2. ASSUME InitialRules[r] \in Rule, InitialRules[r].enabled,
                 Relevant(arrivals[b + 1], InitialRules[r])
          PROVE  FALSE
      <4>1. rules[r] = InitialRules[r] /\ InitialRules[r] # NoRule
        BY <1>1, <1>2, <3>2, RowMarkersAssumption, Zenon DEF Relevant, Applies, dev
      <4>2. QED
        BY <1>1, <2>2, <3>2, <4>1, Zenon DEF Evaluated, Relevant, readings
    <3>3. QED
      BY <1>1, <1>3, <2>2, <3>1, <3>2, StreakSkips, Zenon
  <2>3. QED
    BY <2>1, <2>2, Zenon
<1>7. worker'[w].stage \notin Evaluating
  BY CarriesOn, Zenon DEF WorkerStep, Evaluate, TakeJob
<1>8. StreaksArrived(worker[w])'
  BY <1>1, <1>4, <1>6, <1>7, Zenon DEF StreaksArrived, Upto
<1>9. CreatesArrived(worker[w])'
  <2> SUFFICES ASSUME worker'[w].stage = "apply", NEW k \in DOMAIN worker'[w].decisions,
                      worker'[w].decisions[k].decision = "create"
               PROVE  Arrived(arrivals, InitialRules[worker'[w].decisions[k].rule])
    BY <1>4, Zenon DEF CreatesArrived
  <2>1. PICK ds \in DecisionLists(rules, readings, worker[w].active, streaks') :
          worker'[w].decisions = ds
    BY <1>1, EvaluateOutcome, SMT, Z3 DEF IdleWorker, rules
  <2>2. ds[k] \in Decisions(rules, readings, worker[w].active, streaks')
    BY <2>1, DecisionListType, Zenon
  <2>3. PICK r \in RuleIds : r = ds[k].rule
    BY <2>2, Zenon DEF Decisions, RuleDecision
  <2>4. /\ r \in Evaluated(rules, readings) /\ streaks'[r].Count >= DebounceN
        /\ Triggered(rules[r], readings)
    BY <2>1, <2>2, <2>3, Zenon DEF Decisions
  <2>5. streaks'[r] \in BreachState /\ streaks'[r].Breaching
    <3>1. streaks[r] \in BreachState /\ Triggered(InitialRules[r], readings) = TRUE
      BY <1>5, <1>6, <2>4, Zenon
    <3>2. streaks'[r] = NextBreachState(streaks[r], TRUE)
      BY <1>6, <2>4, <3>1, Zenon
    <3>3. QED
      BY <3>1, <3>2, NextBreachStateType, Zenon
  <2>6. streaks'[r].Count \in Nat /\ streaks'[r].Count > 0
    BY <2>4, <2>5, DebounceAssumption, SMT, Z3 DEF BreachState
  <2>7. Breached(arrivals, Taken, InitialRules[r], streaks'[r].Count)
    BY <1>1, <1>6, <2>5, <2>6, Zenon DEF StreakArrived
  <2>8. Breached(arrivals, Taken, InitialRules[r], DebounceN)
    BY <1>1, <2>4, <2>6, <2>7, WindowEnough, DebounceAssumption, Zenon
  <2>9. QED
    BY <1>1, <2>1, <2>3, <2>8 DEF Arrived
<1>10. QED
  BY <1>8, <1>9, Zenon

\* Without failures, process() leaves a message unevaluated only when the service
\* is stopping or the device has no enabled rule.
LEMMA LetsGo ==
  ASSUME TypeOK, Unfailing', NEW w \in Workers, WorkerStep(w), ~Evaluate(w),
         worker[w].stage \in Evaluating
  PROVE  /\ worker'[w].stage \notin Evaluating =>
              ctxDone \/ \A r \in RuleIds : EnabledRules(Device(w))[r] = NoRule
         /\ worker'[w].stage = "evaluate" => ~ctxDone
<1>0. /\ worker \in [Workers -> WorkerType] /\ worker[w] \in WorkerType /\ used \in Used
      /\ used'.faults = 0 /\ used'.lost = 0
  BY Zenon DEF TypeOK, Unfailing
<1>1. (CallFails => ctxDone) /\ ~ReplyLost
  BY <1>0, SMT, Z3 DEF CallFails, ReplyLost, Used
<1>2. CASE WriteTelemetry(w)
  BY <1>0, <1>1, <1>2, SMT, Z3 DEF WriteTelemetry, Return, IdleWorker, WorkerType, Evaluating
<1>3. CASE CheckLastSeen(w) \/ UpdateLastSeen(w)
  BY <1>0, <1>3 DEF CheckLastSeen, UpdateLastSeen, Goto, WorkerType, Evaluating
<1>4. CASE LoadEnabledRules(w)
  <2>1. CASE CallFails /\ Return(w)
    BY <1>0, <1>1, <2>1, Zenon DEF Return, IdleWorker
  <2>2. CASE \A r \in RuleIds : EnabledRules(Device(w))[r] = NoRule
    <3>1. worker'[w].stage # "evaluate"
      BY <1>0, <1>4, SMT, Z3 DEF LoadEnabledRules, Return, IdleWorker, WorkerType
    <3>2. QED
      BY <2>2, <3>1, Zenon
  <2>3. CASE worker' = [worker EXCEPT ![w].stage = "active", ![w].rules = EnabledRules(Device(w))]
    <3>1. worker'[w].stage = "active"
      BY <1>0, <2>3, Zenon DEF WorkerType
    <3>2. QED
      BY <3>1, Zenon DEF Evaluating
  <2>4. QED
    BY <1>4, <2>1, <2>2, <2>3, Zenon DEF LoadEnabledRules
<1>5. CASE LoadActiveRuleIDs(w)
  <2>1. CASE CallFails /\ Return(w)
    BY <1>0, <1>1, <2>1, Zenon DEF Return, IdleWorker
  <2>2. CASE /\ CallSucceeds
             /\ worker' = [worker EXCEPT ![w].stage = "evaluate",
                                         ![w].active = ActiveRuleIDs(Device(w))]
    <3>1. worker'[w].stage = "evaluate"
      BY <1>0, <2>2, Zenon DEF WorkerType
    <3>2. QED
      BY <2>2, <3>1 DEF Evaluating, CallSucceeds
  <2>3. QED
    BY <1>5, <2>1, <2>2, Zenon DEF LoadActiveRuleIDs
<1>6. QED
  BY <1>2, <1>3, <1>4, <1>5, Zenon DEF WorkerStep, TakeJob, StopWorker, ApplyDecision, Evaluating

LEMMA ProcessArrived ==
  ASSUME TypeOK, StoredInv, InOrder, Unfailing', alert_rules = InitialRules,
         NEW w \in Workers, WorkerStep(w), ~Evaluate(w), StreaksArrived(worker[w])
  PROVE  StreaksArrived(worker[w])'
<1>0. /\ Taken \in Nat /\ QueueInv /\ UNCHANGED streaks
      /\ worker \in [Workers -> WorkerType] /\ worker[w] \in WorkerType
  BY QueueType, DecisionsKept, Zenon DEF TypeOK, StoredInv
<1>1. UNCHANGED <<ctxDone, arrivals>>
  BY Zenon DEF WorkerStep, TakeJob, StopWorker, WriteTelemetry, CheckLastSeen, UpdateLastSeen,
         LoadEnabledRules, LoadActiveRuleIDs, ApplyDecision, Evaluate
<1>2. CASE TakeJob(w)
  <2>1. Taken' = Taken + 1 /\ Head(jobs) = arrivals[Taken + 1]
    BY <1>0, <1>2, DequeueQueue DEF TakeJob
  <2>2. worker[w].stage = "idle"
    BY <1>2, Zenon DEF TakeJob
  <2>3. ~ctxDone => \A r \in RuleIds : StreakArrived(streaks[r], r, arrivals, Taken)
    BY <2>2 DEF StreaksArrived, Upto, Evaluating
  <2>4. CASE Parses(Head(jobs))
    <3>1. worker'[w].stage = "write"
      BY <1>0, <1>2, <2>4, Zenon DEF TakeJob, WorkerType
    <3>2. Upto(worker[w])' = Taken
      BY <1>0, <2>1, <3>1, SMT, Z3 DEF Upto, Evaluating
    <3>3. QED
      BY <1>0, <1>1, <2>3, <3>1, <3>2, Zenon DEF StreaksArrived
  <2>5. CASE ~Parses(Head(jobs))
    <3>1. worker'[w] = worker[w]
      BY <1>2, <2>5, Zenon DEF TakeJob
    <3>2. Upto(worker[w])' = Taken + 1
      BY <2>1, <2>2, <3>1, Zenon DEF Upto, Evaluating
    <3>3. ~ctxDone => \A r \in RuleIds : StreakArrived(streaks[r], r, arrivals, Taken + 1)
      BY <1>0, <2>1, <2>3, <2>5, StreakSkips, Zenon DEF Relevant
    <3>4. QED
      BY <1>0, <1>1, <2>2, <3>1, <3>2, <3>3, SMT, Z3 DEF StreaksArrived
  <2>6. QED
    BY <2>4, <2>5, Zenon
<1>3. CASE ~TakeJob(w)
  <2>1. /\ UNCHANGED Taken
        /\ worker'[w].stage \in Evaluating => worker[w].stage \in Evaluating
    BY <1>3, CarriesOn, Zenon DEF Taken
  <2>2. CASE worker[w].stage \in Evaluating /\ worker'[w].stage \in Evaluating
    <3>1. Upto(worker[w])' = Upto(worker[w])
      BY <2>1, <2>2, Zenon DEF Upto
    <3>2. worker'[w].stage = "evaluate" => ~ctxDone
      BY <2>2, LetsGo, Zenon
    <3>3. QED
      BY <1>0, <1>1, <3>1, <3>2 DEF StreaksArrived
  <2>3. CASE worker[w].stage \in Evaluating /\ worker'[w].stage \notin Evaluating
    <3> DEFINE b == Taken - 1
    <3>1. /\ b \in Nat /\ b + 1 = Taken /\ worker[w].job = arrivals[Taken]
      BY <2>3, CurrentMessage, SMT, Z3
    <3>2. Upto(worker[w]) = b /\ Upto(worker[w])' = b + 1 /\ worker'[w].stage # "evaluate"
      BY <2>1, <2>3, <3>1, Zenon DEF Upto, Evaluating
    <3>3. ASSUME ~ctxDone, NEW r \in RuleIds
          PROVE  StreakArrived(streaks[r], r, arrivals, b + 1)
      <4>1. EnabledRules(Device(w))[r] = NoRule
        BY <2>3, <3>3, LetsGo, Zenon
      <4>2. ASSUME InitialRules[r] \in Rule, InitialRules[r].enabled,
                   Relevant(arrivals[b + 1], InitialRules[r])
            PROVE  FALSE
        BY <3>1, <4>1, <4>2, RowMarkersAssumption, Zenon DEF EnabledRules, LiveRules, Device, Relevant
      <4>3. StreakArrived(streaks[r], r, arrivals, b)
        BY <3>2, <3>3, Zenon DEF StreaksArrived
      <4> HIDE DEF b
      <4>4. QED
        BY <3>1, <4>2, <4>3, StreakSkips
    <3> HIDE DEF b
    <3>4. QED
      BY <1>0, <1>1, <3>2, <3>3, Zenon DEF StreaksArrived
  <2>4. CASE worker[w].stage \notin Evaluating
    <3>1. /\ worker'[w].stage \notin Evaluating /\ worker'[w].stage # "evaluate"
          /\ Upto(worker[w])' = Upto(worker[w])
      BY <2>1, <2>4, Zenon DEF Upto, Evaluating
    <3>2. QED
      BY <1>0, <1>1, <3>1, Zenon DEF StreaksArrived
  <2>5. QED
    BY <2>1, <2>2, <2>3, <2>4, Zenon
<1>4. QED
  BY <1>2, <1>3

\* A rule's alerts are raised by create decisions on that rule.
LEMMA StepArrived ==
  ASSUME TypeOK, NEW w \in Workers, WorkerStep(w), CreatesArrived(worker[w]), AlertsArrived,
         UNCHANGED arrivals
  PROVE  AlertsArrived'
<1>1. CASE UNCHANGED storeVars
  BY <1>1 DEF storeVars, AlertsArrived
<1>2. CASE worker[w].stage = "apply" /\ Statement(w)
  <2> DEFINE d == worker[w].decisions[worker[w].next]
             r == d.rule
             dev == Device(w)
             at == worker[w].at
  <2>1. /\ worker[w].decisions \in Seq(RuleDecision) /\ at \in Nat
        /\ worker[w].next \in DOMAIN worker[w].decisions
    BY <1>2, Zenon DEF TypeOK, WorkerOK, WorkerType
  <2>2. d \in RuleDecision
    BY <2>1, SMT, Z3
  <2>3. r \in RuleIds /\ dev \in Devices /\ StoreTypeOK
    BY <1>2, <2>2, ParsedDevice, Zenon DEF RuleDecision, TypeOK
  <2>4. \/ InsertAlert(r, dev, at) /\ Arrived(arrivals, InitialRules[r])
        \/ AutoResolveAlerts(r, at)
    BY <1>2, <2>1, Zenon DEF Statement, CreatesArrived
  <2> HIDE DEF d, r, dev, at
  <2> SUFFICES ASSUME NEW i \in DOMAIN alerts'
               PROVE  \/ alerts'[i].alert_rule_id = r /\ Arrived(arrivals, InitialRules[r])
                      \/ /\ i \in DOMAIN alerts
                         /\ alerts'[i].alert_rule_id = alerts[i].alert_rule_id
    BY Zenon DEF AlertsArrived
  <2>5. CASE InsertAlert(r, dev, at) /\ Arrived(arrivals, InitialRules[r])
    <3>1. \/ i \in DOMAIN alerts /\ alerts'[i] = alerts[i]
          \/ alerts'[i] = NewAlert(r, dev, at)
      BY <2>1, <2>3, <2>5, InsertRows, Zenon
    <3>2. NewAlert(r, dev, at).alert_rule_id = r
      BY Zenon DEF NewAlert
    <3>3. QED
      BY <2>5, <3>1, <3>2, Zenon
  <2>6. CASE AutoResolveAlerts(r, at)
    <3>1. /\ i \in DOMAIN alerts
          /\ alerts'[i] = alerts[i] \/ alerts'[i] = Cleared(alerts[i], at)
      BY <2>1, <2>3, <2>6, AutoResolveRows, Zenon
    <3>2. alerts[i] \in Alert
      BY <2>3, <3>1, RowTypes, Zenon
    <3>3. QED
      BY <3>1, <3>2, Zenon DEF Cleared, Alert
  <2>7. QED
    BY <2>4, <2>5, <2>6, Zenon
<1>3. QED
  BY <1>1, <1>2, WorkerWrites, Zenon

LEMMA EnvironmentArrived ==
  ASSUME TypeOK, StoredInv, BounceInv, [Next]_vars, Unfailing',
         ~\E w \in Workers : WorkerStep(w)
  PROVE  /\ AlertsArrived'
         /\ \A w \in Workers : StreaksArrived(worker[w])' /\ CreatesArrived(worker[w])'
<1>0. /\ arrivals \in Seq(Job) /\ arrivals' \in Seq(Job) /\ QueueInv
      /\ Len(jobs) \in Nat /\ Len(arrivals) \in Nat /\ Taken \in Nat
      /\ Len(arrivals) <= Len(arrivals')
      /\ \A k \in 1..Len(arrivals) : arrivals'[k] = arrivals[k]
  BY NextTypeOK, QueueType, ArrivalsKept, Zenon DEF TypeOK, StoredInv
<1>1. /\ AlertsArrived
      /\ \A w \in Workers : StreaksArrived(worker[w]) /\ CreatesArrived(worker[w])
  BY UnfailingSteps, Zenon DEF BounceInv
<1>2. \A rule : Arrived(arrivals, rule) => Arrived(arrivals', rule)
  BY <1>0, ArrivedKept
<1>3. AlertsArrived'
  <2>1. CASE UNCHANGED alerts
    BY <1>1, <1>2, <2>1, Zenon DEF AlertsArrived
  <2>2. CASE \E k \in DOMAIN alerts, u \in Users : Acknowledge(k, u) \/ Resolve(k, u)
    <3>1. PICK k \in DOMAIN alerts, u \in Users : Acknowledge(k, u) \/ Resolve(k, u)
      BY <2>2, Zenon
    <3>2. /\ StoreTypeOK /\ clock \in Nat
          /\ AcknowledgeAlert(k, u, clock) \/ ResolveAlert(k, u, clock)
      BY <3>1 DEF TypeOK, Acknowledge, Resolve
    <3>3. ASSUME NEW i \in DOMAIN alerts'
          PROVE  i \in DOMAIN alerts /\ alerts'[i].alert_rule_id = alerts[i].alert_rule_id
      <4>1. /\ i \in DOMAIN alerts
            /\ \/ alerts'[i] = alerts[i]
               \/ alerts'[i] = Acknowledged(alerts[i], clock, u)
               \/ alerts'[i] = Resolved(alerts[i], clock, u)
        BY <3>2, RequestRows, Zenon
      <4>2. alerts[i] \in Alert
        BY <3>2, <4>1 DEF StoreTypeOK
      <4>3. QED
        BY <4>1, <4>2, Zenon DEF Acknowledged, Resolved, Alert
    <3>4. QED
      BY <1>1, <1>2, <3>3, Zenon DEF AlertsArrived
  <2>3. QED
    BY <2>1, <2>2, OthersSteps, Zenon DEF Restart, storeVars
<1>4. ASSUME NEW w \in Workers PROVE StreaksArrived(worker[w])' /\ CreatesArrived(worker[w])'
  <2>1. CASE Restart
    <3>1. worker'[w].stage = "idle" /\ \A r \in RuleIds : streaks'[r].Count = 0
      BY <2>1, Zenon DEF Restart, IdleWorker, ZeroBreachState
    <3>2. QED
      BY <3>1, SMT, Z3 DEF StreaksArrived, StreakArrived, CreatesArrived
  <2>2. CASE ~Restart
    <3>1. UNCHANGED <<worker, streaks, Taken>>
      BY <1>0, <2>2, EnvironmentQueue, Zenon
    <3>2. CreatesArrived(worker[w])'
      BY <1>1, <1>2, <3>1, Zenon DEF CreatesArrived
    <3>3. UNCHANGED ctxDone \/ ctxDone' = TRUE
      BY <2>2, Zenon DEF Next, Enqueue, DropMessage, Shutdown, Tick, Waiting, Acknowledge, Resolve,
                  EditRule, engineVars, vars
    <3>4. PICK b : b = Upto(worker[w])
      BY Zenon
    <3>5. Upto(worker[w])' = b
      BY <3>1, <3>4, SMT, Z3 DEF Upto
    <3>6. b \in Int /\ b <= Len(arrivals)
      BY <1>0, <3>4, SMT, Z3 DEF Upto, Taken
    <3>7. ASSUME NEW r \in RuleIds, StreakArrived(streaks[r], r, arrivals, b)
          PROVE  StreakArrived(streaks[r], r, arrivals', b)
      <4>1. CASE b \in Nat
        <5>1. \A k \in 1..b : arrivals'[k] = arrivals[k]
          BY <1>0, <3>6, <4>1, SMT, Z3
        <5>2. QED
          BY <3>7, <4>1, <5>1, WindowKept, Zenon DEF StreakArrived
      <4>2. CASE b \notin Nat
        <5>1. 1..b = {}
          BY <3>6, <4>2, SMT, Z3
        <5>2. QED
          BY <3>7, <5>1, Zenon DEF StreakArrived, Breached
      <4>3. QED
        BY <4>1, <4>2
    <3>8. ~ctxDone' \/ worker'[w].stage = "evaluate" =>
            \A r \in RuleIds : StreakArrived(streaks[r], r, arrivals, b)
      BY <1>1, <3>1, <3>3, <3>4, SMT, Z3 DEF StreaksArrived
    <3>9. StreaksArrived(worker[w])'
      BY <3>1, <3>5, <3>7, <3>8, Zenon DEF StreaksArrived
    <3>10. QED
      BY <3>2, <3>9, Zenon
  <2>3. QED
    BY <2>1, <2>2, Zenon
<1>5. QED
  BY <1>3, <1>4, Zenon

LEMMA NextBounce ==
  ASSUME SingleWorker, TypeOK, StoredInv, InOrder, BounceInv, [Next]_vars
  PROVE  BounceInv'
<1> SUFFICES ASSUME Unfailing' PROVE
        /\ alert_rules' = InitialRules
        /\ \A w \in Workers : /\ HoldsInitial(worker[w])' /\ StreaksArrived(worker[w])'
                              /\ CreatesArrived(worker[w])'
        /\ AlertsArrived'
  BY Zenon DEF BounceInv
<1>1. /\ alert_rules = InitialRules /\ AlertsArrived
      /\ \A w \in Workers : /\ HoldsInitial(worker[w]) /\ StreaksArrived(worker[w])
                            /\ CreatesArrived(worker[w])
  BY UnfailingSteps, Zenon DEF BounceInv
<1>2. alert_rules' = InitialRules /\ \A w \in Workers : HoldsInitial(worker[w])'
  BY <1>1, UnfailingSteps, NextHoldsInitial, Zenon
<1>3. CASE \E w \in Workers : WorkerStep(w)
  <2>1. PICK w \in Workers : WorkerStep(w)
    BY <1>3
  <2>2. \A v \in Workers : v = w
    BY Zenon DEF SingleWorker
  <2>3. UNCHANGED arrivals
    BY <2>1, Zenon DEF WorkerStep, TakeJob, StopWorker, WriteTelemetry, CheckLastSeen,
       UpdateLastSeen, LoadEnabledRules, LoadActiveRuleIDs, ApplyDecision, Evaluate
  <2>4. AlertsArrived'
    BY <1>1, <2>1, <2>3, StepArrived
  <2>5. StreaksArrived(worker[w])' /\ CreatesArrived(worker[w])'
    <3>1. CASE Evaluate(w)
      BY <1>1, <3>1, EvaluateArrived
    <3>2. CASE ~Evaluate(w)
      <4>1. StreaksArrived(worker[w])'
        BY <1>1, <2>1, <3>2, ProcessArrived, Zenon
      <4>2. CreatesArrived(worker[w])'
        <5>1. worker'[w].stage = "apply" => /\ worker[w].stage = "apply"
                                            /\ worker'[w].decisions = worker[w].decisions
          BY <2>1, <3>2, DecisionsKept, Zenon
        <5>2. QED
          BY <1>1, <2>3, <5>1, Zenon DEF CreatesArrived
      <4>3. QED
        BY <4>1, <4>2, Zenon
    <3>3. QED
      BY <3>1, <3>2, Zenon
  <2>6. QED
    BY <1>2, <2>2, <2>4, <2>5, Zenon
<1>4. CASE ~\E w \in Workers : WorkerStep(w)
  BY <1>2, <1>4, EnvironmentArrived
<1>5. QED
  BY <1>3, <1>4

\* Bouncing (BreachTracker, process()): with one worker, as long as no call has
\* failed, a rule nobody edited has an alert only if DebounceN of its readings in
\* a row breached it in the order they arrived, through overload, restarts and
\* shutdowns.
THEOREM SingleWorkerNeverBounces ==
  ASSUME SingleWorker
  PROVE  Spec => [](used.faults = 0 /\ used.lost = 0 => BouncingNeverActs)
<1>1. Init => InOrder /\ BounceInv
  <2> SUFFICES ASSUME Init PROVE InOrder /\ BounceInv
    OBVIOUS
  <2>1. /\ alerts = <<>> /\ alert_rules = InitialRules
        /\ \A w \in Workers : worker[w].stage = "idle"
        /\ \A r \in RuleIds : streaks[r].Count = 0
    BY Zenon DEF Init, IdleWorker, ZeroBreachState
  <2>2. /\ "idle" \notin Evaluating \cup Loaded /\ "idle" # "evaluate" /\ "idle" # "apply"
        /\ ~(0 > 0) /\ DOMAIN <<>> = {}
    BY DEF Evaluating, Loaded
  <2>3. InOrder
    BY <2>1, <2>2, Zenon DEF InOrder
  <2>4. \A w \in Workers : /\ HoldsInitial(worker[w]) /\ StreaksArrived(worker[w])
                            /\ CreatesArrived(worker[w])
    BY <2>1, <2>2, Zenon DEF HoldsInitial, StreaksArrived, StreakArrived, CreatesArrived
  <2>5. AlertsArrived
    BY <2>1, <2>2, Zenon DEF AlertsArrived
  <2>6. QED
    BY <2>1, <2>3, <2>4, <2>5, Zenon DEF BounceInv
<1>2. TypeOK /\ StoredInv /\ InOrder /\ BounceInv /\ [Next]_vars => InOrder' /\ BounceInv'
  BY NextInOrder, NextBounce, Zenon
<1>3. TypeOK /\ BounceInv => (used.faults = 0 /\ used.lost = 0 => BouncingNeverActs)
  BY ArrivedMeans DEF BounceInv, Unfailing, AlertsArrived, BouncingNeverActs
<1>4. QED
  BY <1>1, <1>2, <1>3, InitStored, NextStored, TypeCorrect, PTL DEF Spec
=============================================================================
