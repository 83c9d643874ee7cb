----------------------------- MODULE Ingestion ------------------------------
(***************************************************************************)
(* The ingestion service (ingestion/main.go, store.go, alerts.go) running  *)
(* against Postgres and MongoDB while the API's clients acknowledge,       *)
(* resolve and edit rules.                                                 *)
(*                                                                         *)
(* An MQTT callback puts messages on a bounded channel; a pool of workers  *)
(* takes them off and runs process() on each.  Every database call of      *)
(* process() is a step of its own, because between two of them any other   *)
(* worker, API request, shutdown or crash may come.  The tracker mutex     *)
(* makes one evaluation a single step, and so does the store mutex for the *)
(* last-seen check.                                                        *)
(*                                                                         *)
(* arrivals and evaluated are history variables: no guard reads them.      *)
(***************************************************************************)
EXTENDS AlertStore

CONSTANTS Workers,            \* the goroutines of the pool
          QueueSize,          \* capacity of the jobs channel
          Topics,             \* what parseTopic may see: device ids and Malformed
          Payloads,           \* what parseTelemetryMessage may see
          Malformed,          \* a topic or payload its parser rejects
          InitialRules,       \* the alert_rules rows the service starts with
          LastSeenDebounce,   \* lastSeenDebounce
          OnlineThreshold,    \* ONLINE_THRESHOLD_MS of the dashboard
          MaxMsgs, MaxFaults, MaxLostReplies, MaxRestarts, MaxShutdowns,
          MaxEdits, MaxClock  \* bounds on what the environment does

Payload == [device_id : Devices,
            readings : UNION {[M -> Int] : M \in SUBSET Metrics \ {{}}}]

ASSUME InputsAssumption == /\ Topics \subseteq Devices \cup {Malformed}
                           /\ Payloads \subseteq Payload \cup {Malformed}
                           /\ Malformed \notin Payload /\ Malformed \notin Devices
ASSUME InitialRulesAssumption == InitialRules \in [RuleIds -> Rule \cup {NoRule}]
ASSUME BoundsAssumption ==
  /\ QueueSize \in Nat \ {0}
  /\ LastSeenDebounce \in Nat \ {0} /\ OnlineThreshold \in Nat
  /\ {MaxMsgs, MaxFaults, MaxLostReplies, MaxRestarts, MaxShutdowns,
      MaxEdits, MaxClock} \subseteq Nat

maxAttempts == 3

VARIABLES
  jobs,           \* the channel
  worker,         \* per worker: where process() is, and its local variables
  streaks,        \* BreachTracker.streaks
  lastSeenSent,   \* Store.lastSeenSent
  ctxDone,        \* the root context is cancelled (SIGINT, SIGTERM)
  last_seen_at,   \* devices.last_seen_at
  telemetry_raw,  \* positions in arrivals of the messages stored in MongoDB
  clock,          \* wall clock, shared by the service and Postgres
  used,           \* how much of each environment bound is spent
  arrivals,       \* history: every job put on the channel, in order
  evaluated       \* history: per rule, the outcome of every evaluation, in order

storeVars == <<alert_rules, alerts>>
vars == <<alert_rules, alerts, jobs, worker, streaks, lastSeenSent, ctxDone,
          last_seen_at, telemetry_raw, clock, used, arrivals, evaluated>>

-----------------------------------------------------------------------------
Job == [id : Nat, topic : Devices \cup {Malformed}, payload : Payload \cup {Malformed}]
NoJob == [id |-> 0, topic |-> Malformed, payload |-> Malformed]

Stages == {"idle", "write", "seen", "touch", "rules", "active", "evaluate",
           "apply", "stopped"}

IdleWorker ==
  [stage |-> "idle", job |-> NoJob, at |-> 0, rules |-> [r \in RuleIds |-> NoRule],
   active |-> {}, decisions |-> <<>>, next |-> 1, attempt |-> 1]

\* parseTopic, parseTelemetryMessage and the comparison of their ids.
Parses(j) == /\ j.topic # Malformed
             /\ j.payload # Malformed
             /\ j.payload.device_id = j.topic

Device(w) == worker[w].job.payload.device_id
Readings(w) == worker[w].job.payload.readings

Init ==
  /\ alert_rules = InitialRules
  /\ alerts = <<>>
  /\ jobs = <<>>
  /\ worker = [w \in Workers |-> IdleWorker]
  /\ streaks = [r \in RuleIds |-> ZeroBreachState]
  /\ lastSeenSent = [d \in Devices |-> Never]
  /\ ctxDone = FALSE
  /\ last_seen_at = [d \in Devices |-> Never]
  /\ telemetry_raw = {}
  /\ clock = 0
  /\ used = [msgs |-> 0, faults |-> 0, lost |-> 0, restarts |-> 0,
             shutdowns |-> 0, edits |-> 0]
  /\ arrivals = <<>>
  /\ evaluated = [r \in RuleIds |-> <<>>]

-----------------------------------------------------------------------------
\* A database call succeeds, fails, or takes effect although the caller is told
\* it failed (the connection breaks before the reply).  With a cancelled context
\* it fails before it is sent.
CallSucceeds == ~ctxDone /\ UNCHANGED used

CallFails == IF ctxDone
               THEN UNCHANGED used
               ELSE /\ used.faults < MaxFaults
                    /\ used' = [used EXCEPT !.faults = @ + 1]

ReplyLost == /\ ~ctxDone
             /\ used.lost < MaxLostReplies
             /\ used' = [used EXCEPT !.lost = @ + 1]

Goto(w, stage) == worker' = [worker EXCEPT ![w].stage = stage]
Return(w) == worker' = [worker EXCEPT ![w] = IdleWorker]

-----------------------------------------------------------------------------
\* The subscription callback.
Enqueue(topic, payload) ==
  LET j == [id |-> Len(arrivals) + 1, topic |-> topic, payload |-> payload]
  IN  /\ used.msgs < MaxMsgs
      /\ Len(jobs) < QueueSize
      /\ jobs' = Append(jobs, j)
      /\ arrivals' = Append(arrivals, j)
      /\ used' = [used EXCEPT !.msgs = @ + 1]
      /\ UNCHANGED <<storeVars, worker, streaks, lastSeenSent, ctxDone,
                     last_seen_at, telemetry_raw, clock, evaluated>>

\* The channel is full: the message is counted, logged and lost.
DropMessage ==
  /\ used.msgs < MaxMsgs
  /\ Len(jobs) >= QueueSize
  /\ used' = [used EXCEPT !.msgs = @ + 1]
  /\ UNCHANGED <<storeVars, jobs, worker, streaks, lastSeenSent, ctxDone,
                 last_seen_at, telemetry_raw, clock, arrivals, evaluated>>

-----------------------------------------------------------------------------
\* worker(): with both channels ready, select takes either one.
TakeJob(w) ==
  /\ worker[w].stage = "idle"
  /\ jobs # <<>>
  /\ jobs' = Tail(jobs)
  /\ IF Parses(Head(jobs))
       THEN worker' = [worker EXCEPT ![w].stage = "write", ![w].job = Head(jobs)]
       ELSE UNCHANGED worker
  /\ UNCHANGED <<storeVars, streaks, lastSeenSent, ctxDone, last_seen_at,
                 telemetry_raw, clock, used, arrivals, evaluated>>

StopWorker(w) ==
  /\ worker[w].stage = "idle"
  /\ ctxDone
  /\ Goto(w, "stopped")
  /\ UNCHANGED <<storeVars, jobs, streaks, lastSeenSent, ctxDone, last_seen_at,
                 telemetry_raw, clock, used, arrivals, evaluated>>

-----------------------------------------------------------------------------
\* process(), one action per call that touches shared state.
\* (Mutant of WriteTelemetry: its error does not end process().)
WriteErrorIgnored(w) ==
  /\ worker[w].stage = "write"
  /\ \/ /\ CallSucceeds \/ ReplyLost
        /\ telemetry_raw' = telemetry_raw \cup {worker[w].job.id}
     \/ CallFails /\ UNCHANGED telemetry_raw
  /\ worker' = [worker EXCEPT ![w].stage = "seen", ![w].at = clock]
  /\ UNCHANGED <<storeVars, jobs, streaks, lastSeenSent, ctxDone, last_seen_at,
                 clock, arrivals, evaluated>>

\* (Mutant of WriteTelemetry: only a device's first message gets a timestamp.)
FirstMessageStamped(w) ==
  /\ worker[w].stage = "write"
  /\ \/ /\ CallSucceeds
        /\ telemetry_raw' = telemetry_raw \cup {worker[w].job.id}
        /\ worker' = [worker EXCEPT ![w].stage = "seen",
                        ![w].at = IF lastSeenSent[Device(w)] = Never THEN clock ELSE @]
     \/ /\ CallFails
        /\ UNCHANGED telemetry_raw
        /\ Return(w)
  /\ UNCHANGED <<storeVars, jobs, streaks, lastSeenSent, ctxDone, last_seen_at,
                 clock, arrivals, evaluated>>

\* The insert into MongoDB, then now := time.Now().
WriteTelemetry(w) ==
  /\ worker[w].stage = "write"
  /\ \/ /\ CallSucceeds
        /\ telemetry_raw' = telemetry_raw \cup {worker[w].job.id}
        /\ worker' = [worker EXCEPT ![w].stage = "seen", ![w].at = clock]
     \/ /\ CallFails
        /\ UNCHANGED telemetry_raw
        /\ Return(w)
     \/ /\ ReplyLost
        /\ telemetry_raw' = telemetry_raw \cup {worker[w].job.id}
        /\ Return(w)
  /\ UNCHANGED <<storeVars, jobs, streaks, lastSeenSent, ctxDone, last_seen_at,
                 clock, arrivals, evaluated>>

\* Mutant: the debounce window is one unit longer.
LastSeenOverdue(d, at) == lastSeenSent[d] = Never \/ at - lastSeenSent[d] > LastSeenDebounce

LastSeenDue(d, at) == lastSeenSent[d] = Never \/ at - lastSeenSent[d] >= LastSeenDebounce

\* The critical section of MaybeUpdateLastSeen, which records the write as sent
\* before it is attempted.
CheckLastSeen(w) ==
  LET due == LastSeenDue(Device(w), worker[w].at)
  IN  /\ worker[w].stage = "seen"
      /\ Goto(w, IF due THEN "touch" ELSE "rules")
      /\ lastSeenSent' = [lastSeenSent EXCEPT ![Device(w)] = IF due THEN worker[w].at ELSE @]
      /\ UNCHANGED <<storeVars, jobs, streaks, ctxDone, last_seen_at, telemetry_raw,
                     clock, used, arrivals, evaluated>>

\* The UPDATE of MaybeUpdateLastSeen; its error is logged and ignored.
UpdateLastSeen(w) ==
  /\ worker[w].stage = "touch"
  /\ \/ /\ CallSucceeds \/ ReplyLost
        /\ last_seen_at' = [last_seen_at EXCEPT ![Device(w)] = worker[w].at]
     \/ CallFails /\ UNCHANGED last_seen_at
  /\ Goto(w, "rules")
  /\ UNCHANGED <<storeVars, jobs, streaks, lastSeenSent, ctxDone, telemetry_raw,
                 clock, arrivals, evaluated>>

LoadEnabledRules(w) ==
  LET rules == EnabledRules(Device(w))
  IN  /\ worker[w].stage = "rules"
      /\ \/ /\ CallSucceeds
            /\ IF \A r \in RuleIds : rules[r] = NoRule
                 THEN Return(w)
                 ELSE worker' = [worker EXCEPT ![w].stage = "active", ![w].rules = rules]
         \/ CallFails /\ Return(w)
      /\ UNCHANGED <<storeVars, jobs, streaks, lastSeenSent, ctxDone, last_seen_at,
                     telemetry_raw, clock, arrivals, evaluated>>

\* Mutant: an error leaves the set of active rules empty.
NoneActiveOnError(w) ==
  /\ worker[w].stage = "active"
  /\ \/ /\ CallSucceeds
        /\ worker' = [worker EXCEPT ![w].stage = "evaluate",
                                    ![w].active = ActiveRuleIDs(Device(w))]
     \/ CallFails /\ Goto(w, "evaluate")
  /\ UNCHANGED <<storeVars, jobs, streaks, lastSeenSent, ctxDone, last_seen_at,
                 telemetry_raw, clock, arrivals, evaluated>>

LoadActiveRuleIDs(w) ==
  /\ worker[w].stage = "active"
  /\ \/ /\ CallSucceeds
        /\ worker' = [worker EXCEPT ![w].stage = "evaluate",
                                    ![w].active = ActiveRuleIDs(Device(w))]
     \/ CallFails /\ Return(w)
  /\ UNCHANGED <<storeVars, jobs, streaks, lastSeenSent, ctxDone, last_seen_at,
                 telemetry_raw, clock, arrivals, evaluated>>

\* tracker.Evaluate: the mutex is held from the first streak to the last.
Evaluate(w) ==
  LET rules == worker[w].rules
  IN  /\ worker[w].stage = "evaluate"
      /\ streaks' = NextStreaks(rules, Readings(w), streaks)
      /\ \E ds \in DecisionLists(rules, Readings(w), worker[w].active, streaks') :
           IF ds = <<>>
             THEN Return(w)
             ELSE worker' = [worker EXCEPT ![w].stage = "apply", ![w].decisions = ds]
      /\ evaluated' = [r \in RuleIds |->
                         IF r \in Evaluated(rules, Readings(w))
                           THEN Append(evaluated[r], Triggered(rules[r], Readings(w)))
                           ELSE evaluated[r]]
      /\ UNCHANGED <<storeVars, jobs, lastSeenSent, ctxDone, last_seen_at,
                     telemetry_raw, clock, used, arrivals>>

-----------------------------------------------------------------------------
\* applyDecisionsWithRetry around ApplyDecisions: decisions are written one
\* statement at a time, and an error sends the next attempt, after a pause, back
\* to the first decision.
Statement(w) ==
  LET d == worker[w].decisions[worker[w].next]
  IN  \/ d.decision = "create" /\ InsertAlert(d.rule, Device(w), worker[w].at)
      \/ d.decision = "auto_resolve" /\ AutoResolveAlerts(d.rule, worker[w].at)

ForeignKeyViolation(w) ==
  LET d == worker[w].decisions[worker[w].next]
  IN  d.decision = "create" /\ d.rule \notin LiveRules

\* Mutants: one attempt too many; attempts without end; resuming after the
\* decision that failed.
OneMoreAttempt(w) ==
  IF worker[w].attempt <= maxAttempts
    THEN worker' = [worker EXCEPT ![w].attempt = @ + 1, ![w].next = 1]
    ELSE Return(w)

AttemptForever(w) == worker' = [worker EXCEPT ![w].next = 1]

SkipFailedDecision(w) ==
  IF worker[w].next < Len(worker[w].decisions)
    THEN worker' = [worker EXCEPT ![w].next = @ + 1]
    ELSE Return(w)

NextAttempt(w) ==
  IF worker[w].attempt < maxAttempts
    THEN worker' = [worker EXCEPT ![w].attempt = @ + 1, ![w].next = 1]
    ELSE Return(w)

ApplyDecision(w) ==
  /\ worker[w].stage = "apply"
  /\ \/ /\ CallSucceeds
        /\ Statement(w)
        /\ IF worker[w].next = Len(worker[w].decisions)
             THEN Return(w)
             ELSE worker' = [worker EXCEPT ![w].next = @ + 1]
     \/ /\ CallSucceeds
        /\ ForeignKeyViolation(w)
        /\ NextAttempt(w)
        /\ UNCHANGED storeVars
     \/ /\ CallFails
        /\ NextAttempt(w)
        /\ UNCHANGED storeVars
     \/ /\ ReplyLost
        /\ Statement(w)
        /\ NextAttempt(w)
  /\ UNCHANGED <<jobs, streaks, lastSeenSent, ctxDone, last_seen_at, telemetry_raw,
                 clock, arrivals, evaluated>>

-----------------------------------------------------------------------------
\* main(): a signal cancels the context; nothing waits for the workers, so the
\* process may end in any state, as it does in a crash.  A new process starts
\* with empty maps and an empty channel.
Shutdown ==
  /\ ~ctxDone
  /\ used.shutdowns < MaxShutdowns
  /\ ctxDone' = TRUE
  /\ used' = [used EXCEPT !.shutdowns = @ + 1]
  /\ UNCHANGED <<storeVars, jobs, worker, streaks, lastSeenSent, last_seen_at,
                 telemetry_raw, clock, arrivals, evaluated>>

Restart ==
  /\ used.restarts < MaxRestarts
  /\ used' = [used EXCEPT !.restarts = @ + 1]
  /\ jobs' = <<>>
  /\ worker' = [w \in Workers |-> IdleWorker]
  /\ streaks' = [r \in RuleIds |-> ZeroBreachState]
  /\ lastSeenSent' = [d \in Devices |-> Never]
  /\ ctxDone' = FALSE
  /\ UNCHANGED <<storeVars, last_seen_at, telemetry_raw, clock, arrivals, evaluated>>

-----------------------------------------------------------------------------
\* The API's clients.  A request is one statement as far as the tables go.
engineVars == <<jobs, worker, streaks, lastSeenSent, ctxDone, last_seen_at,
                telemetry_raw, clock, arrivals, evaluated>>

Acknowledge(i, user) ==
  /\ AcknowledgeAlert(i, user, clock)
  /\ UNCHANGED <<engineVars, used>>

Resolve(i, user) ==
  /\ ResolveAlert(i, user, clock)
  /\ UNCHANGED <<engineVars, used>>

EditRule(r) ==
  /\ used.edits < MaxEdits
  /\ used' = [used EXCEPT !.edits = @ + 1]
  /\ \/ \E d \in Devices, in \in RuleInputs : InsertRule(r, d, in)
     \/ \E in \in RuleInputs : UpdateRule(r, in)
     \/ DeleteRule(r)
  /\ UNCHANGED engineVars

Tick ==
  /\ clock < MaxClock
  /\ clock' = clock + 1
  /\ UNCHANGED <<storeVars, jobs, worker, streaks, lastSeenSent, ctxDone,
                 last_seen_at, telemetry_raw, used, arrivals, evaluated>>

-----------------------------------------------------------------------------
\* Nothing to do: every worker waits for a job, or has returned.
Quiet == \A w \in Workers : \/ worker[w].stage = "idle" /\ jobs = <<>> /\ ~ctxDone
                            \/ worker[w].stage = "stopped"
Waiting == Quiet /\ UNCHANGED vars

WorkerStep(w) ==
  \/ TakeJob(w) \/ StopWorker(w) \/ WriteTelemetry(w) \/ CheckLastSeen(w)
  \/ UpdateLastSeen(w) \/ LoadEnabledRules(w) \/ LoadActiveRuleIDs(w)
  \/ Evaluate(w) \/ ApplyDecision(w)

Next ==
  \/ \E t \in Topics, p \in Payloads : Enqueue(t, p)
  \/ DropMessage
  \/ \E w \in Workers : WorkerStep(w)
  \/ Shutdown
  \/ Restart
  \/ \E i \in DOMAIN alerts, u \in Users : Acknowledge(i, u) \/ Resolve(i, u)
  \/ \E r \in RuleIds : EditRule(r)
  \/ Tick
  \/ Waiting

Spec == Init /\ [][Next]_vars

\* The Go scheduler runs every runnable goroutine, and every database call
\* returns.  Nothing is assumed of publishers, clients, signals or the clock.
Fairness == \A w \in Workers : WF_vars(WorkerStep(w))

FairSpec == Spec /\ Fairness

-----------------------------------------------------------------------------
WorkerType ==
  [stage : Stages, job : Job, at : Nat, rules : [RuleIds -> Rule \cup {NoRule}],
   active : SUBSET RuleIds, decisions : Seq(RuleDecision), next : Nat,
   attempt : 1..maxAttempts]

Used == [msgs : Nat, faults : Nat, lost : Nat, restarts : Nat, shutdowns : Nat,
         edits : Nat]

WorkerOK(w) ==
  /\ worker[w].stage \notin {"idle", "stopped"} => Parses(worker[w].job)
  /\ IF worker[w].stage = "apply" THEN worker[w].next \in DOMAIN worker[w].decisions
                                  ELSE worker[w].next = 1

\* Every variable has its type; a worker past the parsing stage holds a message
\* its parsers accepted, and in the apply stage a decision to apply.
TypeOK ==
  /\ StoreTypeOK
  /\ jobs \in Seq(Job)
  /\ worker \in [Workers -> WorkerType]
  /\ streaks \in [RuleIds -> BreachState]
  /\ lastSeenSent \in [Devices -> Nat \cup {Never}]
  /\ ctxDone \in BOOLEAN
  /\ last_seen_at \in [Devices -> Nat \cup {Never}]
  /\ telemetry_raw \subseteq Nat
  /\ clock \in Nat
  /\ used \in Used
  /\ arrivals \in Seq(Job)
  /\ evaluated \in [RuleIds -> Seq(BOOLEAN)]
  /\ \A w \in Workers : WorkerOK(w)

\* docs/alert-engine.md: the engine keeps at most one active alert per rule.
AtMostOneActive ==
  \A i, j \in DOMAIN alerts :
    /\ Active(alerts[i]) /\ Active(alerts[j])
    /\ alerts[i].alert_rule_id = alerts[j].alert_rule_id
    => i = j

\* Only a retry or a second worker duplicates: with one worker, a rule has two
\* active alerts only after a failed or unanswered call, or after a rule was
\* deleted between loading it and inserting its alert.  A restart never does it.
DuplicatesNeedARetry ==
  /\ used.faults = 0 /\ used.lost = 0
  /\ \A r \in RuleIds : alert_rules[r] # DroppedRule
  => AtMostOneActive

\* n consecutive entries of s equal to b.
HasRun(s, b, n) ==
  \E p \in n..Len(s) : \A k \in (p - n + 1)..p : s[k] = b

\* Debounce: an alert exists only if DebounceN evaluations in a row breached its
\* rule, and the engine cleared it only if DebounceN in a row did not, across
\* workers, retries, restarts and rule edits.
DebounceHonoured ==
  \A i \in DOMAIN alerts :
    LET outcomes == evaluated[alerts[i].alert_rule_id]
    IN  /\ HasRun(outcomes, TRUE, DebounceN)
        /\ alerts[i].status = "resolved" /\ alerts[i].resolved_by = NoUser
             => HasRun(outcomes, FALSE, DebounceN)

\* The alert engine never runs ahead of MongoDB: no rule has been evaluated more
\* often than telemetry_raw has messages.
EvaluationsAreStored ==
  \A r \in RuleIds : Len(evaluated[r]) <= Cardinality(telemetry_raw)

\* A resolved alert never changes again: not its status, and not who resolved it
\* or when, although auto-resolve, retries and requests race for it.
ResolvedIsTerminal ==
  [][\A i \in DOMAIN alerts : alerts[i].status = "resolved" => alerts'[i] = alerts[i]]_vars

-----------------------------------------------------------------------------
\* Arrivals a..b that carry a reading for a rule.
ReadingsIn(a, b, rule) ==
  {k \in a..b : /\ Parses(arrivals[k])
                /\ arrivals[k].payload.device_id = rule.device_id
                /\ rule.metric \in DOMAIN arrivals[k].payload.readings}

\* DebounceN readings in a row, in the order of arrival, breached the rule.
BreachArrived(rule) ==
  \E a, b \in DOMAIN arrivals :
    /\ Cardinality(ReadingsIn(a, b, rule)) >= DebounceN
    /\ \A k \in ReadingsIn(a, b, rule) : Triggered(rule, arrivals[k].payload.readings)

\* docs/alert-engine.md: a value bouncing across the boundary never collects
\* enough consecutive readings to act.  Stated of the readings as they arrived,
\* for rules nobody edits.
BouncingNeverActs ==
  \A r \in RuleIds :
    /\ used.edits = 0
    /\ InitialRules[r] # NoRule
    /\ ~BreachArrived(InitialRules[r])
    => \A i \in DOMAIN alerts : alerts[i].alert_rule_id # r

\* docs/alert-engine.md: losing the streaks in a restart never causes a missed
\* alert.  A breach of DebounceN readings that is over has raised an alert.
BreachNeverMissed ==
  \A r \in RuleIds :
    (\E p \in 1..Len(evaluated[r]) - 1 :
       /\ ~evaluated[r][p + 1]
       /\ HasRun(SubSeq(evaluated[r], 1, p), TRUE, DebounceN)
       /\ \A k \in 1..p : evaluated[r][k])
    => \E i \in DOMAIN alerts : alerts[i].alert_rule_id = r

ActiveAlerts(r) == {i \in DOMAIN alerts : alerts[i].alert_rule_id = r /\ Active(alerts[i])}

ClosedByAPerson(r) ==
  \E i \in DOMAIN alerts : alerts[i].alert_rule_id = r /\ alerts[i].resolved_by # NoUser

\* The table agrees with the rule's streak: a sustained breach has an active
\* alert, unless a person closed it; a sustained recovery has none.
Settled(r) ==
  streaks[r].Count >= DebounceN =>
    IF streaks[r].Breaching THEN ActiveAlerts(r) # {} \/ ClosedByAPerson(r)
                            ELSE ActiveAlerts(r) = {}

\* Self-healing: once a message is processed to its end without an error in the
\* last step, every rule it evaluated is settled again, whatever failed before
\* (a lost create is decided anew, duplicates are cleared together).
EvaluationHeals ==
  [][\A w \in Workers :
       /\ worker[w].stage \in {"evaluate", "apply"}
       /\ worker'[w].stage = "idle"
       /\ ~ctxDone /\ UNCHANGED used
       /\ worker[w].stage = "apply" => ~ForeignKeyViolation(w)
       => \A r \in Evaluated(worker[w].rules, Readings(w)) : Settled(r)']_vars

\* Duplicates a retry can leave behind: never more than one per attempt.
DuplicatesBounded == \A r \in RuleIds : Cardinality(ActiveAlerts(r)) <= maxAttempts

-----------------------------------------------------------------------------
\* isDeviceOnline of the dashboard.
isDeviceOnline(d) ==
  last_seen_at[d] # Never /\ clock - last_seen_at[d] < OnlineThreshold

\* A device is shown online for at least OnlineThreshold - LastSeenDebounce
\* after each of its reports, written to Postgres or debounced, unless the latest
\* UPDATE of last_seen_at failed, is under way or was overtaken by an older one.
\* That is made good by the first report a debounce window later.
ReportedDeviceIsOnline ==
  \A w \in Workers :
    LET d == Device(w)
    IN  /\ worker[w].stage \in {"rules", "active", "evaluate", "apply"}
        /\ clock - worker[w].at <= OnlineThreshold - LastSeenDebounce
        => \/ isDeviceOnline(d)
           \/ /\ last_seen_at[d] # lastSeenSent[d]
              /\ worker[w].at - lastSeenSent[d] < LastSeenDebounce

\* An alert is not resolved before it was triggered, although one timestamp is
\* taken before the rules are loaded and the other may be Postgres's.
ResolvedNotBeforeTriggered ==
  \A i \in DOMAIN alerts :
    alerts[i].status = "resolved" => alerts[i].resolved_at >= alerts[i].triggered_at

\* Accepted messages are taken off the channel and workers come back for more,
\* through every error path, unless the service is told to stop.
JobsDrain ==
  /\ jobs # <<>> ~> jobs = <<>> \/ ctxDone
  /\ \A w \in Workers : worker[w].stage # "idle" ~> worker[w].stage \in {"idle", "stopped"}
=============================================================================
