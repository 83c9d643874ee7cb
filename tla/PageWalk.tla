------------------------------ MODULE PageWalk ------------------------------
(***************************************************************************)
(* A client reads the whole alert history through GET /alerts, one page    *)
(* after the other by offset, while the ingestion service raises and       *)
(* resolves alerts.  An alert's triggered_at is read before its INSERT, so *)
(* alerts need not come in the order of their times.                       *)
(*                                                                         *)
(* The reads of DeviceReads run beside it.  They share no data, so it is   *)
(* enough that the client does one or the other.                           *)
(***************************************************************************)
EXTENDS ApiReads, DeviceReads

CONSTANTS InitialRules, Walks,      \* queries a client walks through
          Windows,                  \* queries of getDeviceTelemetry
          NoWalk, MaxRows, MaxTime, MaxCuts

ASSUME BoundsAssumption == {MaxRows, MaxTime, MaxCuts} \subseteq Nat
ASSUME InitialRulesAssumption == InitialRules \in [RuleIds -> Rule \cup {NoRule}]

\* listAlerts takes LIMIT 0 as it comes, and a page of no rows ends a walk: a walk
\* asks for at least one.
ASSUME WalksAssumption ==
  \A q \in Walks :
    /\ q = [site_id |-> q.site_id, status |-> q.status, device_id |-> q.device_id,
            limit |-> q.limit, offset |-> q.offset]
    /\ parseIntParam(q.limit, DefaultLimit, MaxLimit) # 0

VARIABLES walk, cuts

walkVars == <<alert_rules, alerts, walk, cuts>>
vars == <<alert_rules, alerts, walk, cuts, telemetry_raw, read>>

Init ==
  /\ alert_rules = InitialRules
  /\ alerts = <<>>
  /\ walk = NoWalk
  /\ cuts = 0
  /\ ReadInit

\* What the walk has to know of a change to the table: an alert that no longer
\* matches moves the ones behind it to a smaller offset.
Watch ==
  LET watched == {q \in Walks : walk # NoWalk /\ q = walk.query}
  IN  walk' = IF \A q \in watched : Matching(q) \subseteq Matching(q)'
                THEN walk ELSE [walk EXCEPT !.shifted = TRUE]

Stored == Len(alerts) + Cardinality(telemetry_raw)

Raise(r, at) ==
  /\ Stored < MaxRows
  /\ InsertAlert(r, alert_rules[r].device_id, at)
  /\ Watch
  /\ UNCHANGED cuts

\* resolved_at is in no condition and no order.
Close(r) ==
  /\ \E i \in DOMAIN alerts : alerts[i].alert_rule_id = r /\ Active(alerts[i])
  /\ AutoResolveAlerts(r, MaxTime)
  /\ Watch
  /\ UNCHANGED cuts

-----------------------------------------------------------------------------
StartWalk(q) ==
  /\ walk = NoWalk
  /\ walk' = [query |-> q, offset |-> 0, present |-> Matching(q), seen |-> {},
              shifted |-> FALSE, cut |-> FALSE, done |-> FALSE]
  /\ UNCHANGED <<alert_rules, alerts, cuts>>

\* One GET /alerts.  The client is done when a page is empty.
Receive(rows, cut) ==
  walk' = [walk EXCEPT !.offset = @ + Len(rows), !.seen = @ \cup Range(rows),
                       !.done = rows = <<>>, !.cut = @ \/ cut]

NextPage ==
  /\ walk # NoWalk /\ ~walk.done
  /\ \E rows \in listAlerts([walk.query EXCEPT !.offset = walk.offset]) :
       \/ Receive(rows, FALSE) /\ UNCHANGED cuts
       \/ /\ cuts < MaxCuts /\ cuts' = cuts + 1
          /\ \E part \in CutShort(rows) : Receive(part, TRUE)
  /\ UNCHANGED <<alert_rules, alerts>>

EndWalk ==
  /\ walk # NoWalk /\ walk.done
  /\ walk' = NoWalk
  /\ UNCHANGED <<alert_rules, alerts, cuts>>

WalkStep ==
  \/ \E r \in LiveRules, at \in 0..MaxTime : Raise(r, at)
  \/ \E r \in LiveRules : Close(r)
  \/ read = NoRead /\ \E q \in Walks : StartWalk(q)
  \/ NextPage
  \/ EndWalk

ReadStep ==
  \/ Stored < MaxRows /\ \E d \in Devices, ts \in 0..MaxTime : Store(d, ts)
  \/ walk = NoWalk /\ \E q \in Windows : Find(q)
  \/ ReadOn

Next ==
  \/ WalkStep /\ UNCHANGED readVars
  \/ ReadStep /\ UNCHANGED walkVars

Spec == Init /\ [][Next]_vars

-----------------------------------------------------------------------------
\* Paging by offset through listAlerts shows every alert that was there when the
\* walk began, however many are raised meanwhile, with three exceptions of this
\* code: another alert has the same triggered_at (no tie-breaker), an alert left
\* the filter, or an answer was cut short without an error.
WalkMissesNothing ==
  walk # NoWalk /\ walk.done /\ ~walk.shifted /\ ~walk.cut
    => \A i \in walk.present \ walk.seen :
         \E j \in DOMAIN alerts \ {i} : alerts[j].triggered_at = alerts[i].triggered_at
=============================================================================
