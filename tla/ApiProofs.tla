----------------------------- MODULE ApiProofs ------------------------------
(***************************************************************************)
(* Proofs about Api and Dashboard, for every number of requests, users,    *)
(* rules and devices, every page query and every bound: what an answer     *)
(* says stays true, an alert is acknowledged once and resolved once, a     *)
(* conflict on the page means that someone was faster, and a page at rest  *)
(* shows the page's own actions.                                           *)
(*                                                                         *)
(* The argument: every statement keeps what an answer can be about         *)
(* (StoreKept), so an answer that is true when it is given stays true; a   *)
(* second success would need the row in a status that the first answer     *)
(* rules out.  For the page, a transition that an answer says was made, or *)
(* could not be made any more, stays behind its alert for ever (Past).     *)
(* Rows read after that answer show it, and an answer 200 drops a fetch    *)
(* whose rows may be older.  A mutation that overlapped no other is alone, *)
(* so busyAlertId is its row; and whoever clears busyAlertId is the latest *)
(* mutation of its hook (BusyInv).                                         *)
(***************************************************************************)
EXTENDS Dashboard, AlertStoreProofs

\* Requests and answers, whatever the tables hold.
TransitionRequest ==
  [op : Transitions, id : Nat \cup {UnknownId, BadId}, user : Users \cup {Stranger, NoUser, BadId}]
CreateRequest ==
  [op : {"create"}, id : RuleIds \cup {UnknownId}, device : Devices \cup {UnknownId},
   body : RuleInputs \cup {NoBody}]
UpdateRequest ==
  [op : {"update"}, id : RuleIds \cup {UnknownId, BadId}, body : RuleInputs \cup {NoBody}]
DeleteRequest == [op : {"delete"}, id : RuleIds \cup {UnknownId, BadId}]
DeviceRequest == [op : {"device"}, id : Devices \cup {UnknownId, BadId}]

Request ==
  TransitionRequest \cup CreateRequest \cup UpdateRequest \cup DeleteRequest \cup DeviceRequest

OpenRequest == [req : Request, stage : {"query", "lookup", "done"}, status : Nat]

Answered == [req : Request, status : Nat, call : {"ok", "failed"}]

ApiTypeOK ==
  /\ StoreTypeOK
  /\ request \in [Slots -> OpenRequest \cup {NoRequest}]
  /\ answers \in Seq(Answered)

\* A client names only alerts and rules it has seen, or none that exists.
IdsSeen(req) ==
  /\ req.op \in Transitions => req.id \in DOMAIN alerts \cup {UnknownId, BadId}
  /\ req.op \in {"update", "delete"}
       => req.id \in {r \in RuleIds : alert_rules[r] # NoRule} \cup {UnknownId, BadId}

\* A request that is about to look its alert up did not find it in fromStatuses.
Missed(req) ==
  /\ req.op \in Transitions
  /\ req.id \in DOMAIN alerts => alerts[req.id].status \notin fromStatuses(req.op)

RequestOK(rq) == IdsSeen(rq.req) /\ (rq.stage = "lookup" => Missed(rq.req))

\* What holds of an answer, with the reason why a refused rule is still there.
AnswerOK(a) ==
  /\ AnswerHolds(a)
  /\ a.req.op = "delete" /\ a.status = 409 => Referenced(a.req.id)
  /\ \/ a.req.op = "create" /\ a.status = 201
     \/ a.req.op = "delete" /\ a.status = 204
     => a.req.id \in RuleIds
  /\ a.req.op \in {"update", "delete"} /\ a.status = 404 => a.req.id \in RuleIds \cup {UnknownId}

ApiInv ==
  /\ ApiTypeOK
  /\ \A s \in Slots : request[s] # NoRequest => RequestOK(request[s])
  /\ \A a \in Range(answers) : AnswerOK(a)
  /\ OneWinner

-----------------------------------------------------------------------------
\* What no statement undoes.
RowKept(i) ==
  /\ i \in DOMAIN alerts'
  /\ alerts'[i].alert_rule_id = alerts[i].alert_rule_id
  /\ alerts[i].status # "open"
       => /\ alerts'[i].status # "open"
          /\ alerts'[i].acknowledged_by = alerts[i].acknowledged_by
  /\ alerts[i].status = "resolved"
       => alerts'[i].status = "resolved" /\ alerts'[i].resolved_by = alerts[i].resolved_by

RuleKept(r) ==
  /\ alert_rules[r] # NoRule => alert_rules'[r] # NoRule
  /\ alert_rules[r] = DroppedRule => alert_rules'[r] = DroppedRule
  /\ r \in LiveRules /\ Referenced(r) => r \in LiveRules'

StoreKept ==
  /\ StoreTypeOK'
  /\ \A i \in DOMAIN alerts : RowKept(i)
  /\ \A r \in RuleIds : RuleKept(r)

LEMMA SameStore ==
  ASSUME StoreTypeOK, UNCHANGED storeVars
  PROVE  StoreKept
BY Zenon DEF StoreTypeOK, storeVars, StoreKept, RowKept, RuleKept, LiveRules

\* A statement on alerts alone keeps the rules.
LEMMA AlertsOnly ==
  ASSUME StoreTypeOK', UNCHANGED alert_rules, \A i \in DOMAIN alerts : RowKept(i)
  PROVE  StoreKept
BY DEF StoreKept, RuleKept, LiveRules

LEMMA RaiseKeeps ==
  ASSUME StoreTypeOK, NEW r \in RuleIds, NEW d \in Devices, InsertAlert(r, d, Now)
  PROVE  StoreKept
<1>1. StoreTypeOK' /\ UNCHANGED alert_rules
  BY InsertAlertType, Zenon DEF InsertAlert, Now
<1>2. /\ alerts' = Append(alerts, NewAlert(r, d, Now))
      /\ alerts \in Seq(Alert) /\ NewAlert(r, d, Now) \in Alert
  BY DEF InsertAlert, StoreTypeOK, NewAlert, Alert, Status, Now
<1>3. \A i \in DOMAIN alerts : i \in DOMAIN alerts' /\ alerts'[i] = alerts[i]
  BY <1>2
<1>4. QED
  BY <1>1, <1>3, AlertsOnly DEF RowKept

LEMMA EngineResolveKeeps ==
  ASSUME StoreTypeOK, NEW r \in RuleIds, AutoResolveAlerts(r, Now)
  PROVE  StoreKept
<1>1. StoreTypeOK' /\ DOMAIN alerts' = DOMAIN alerts /\ UNCHANGED alert_rules
  BY AutoResolveType, Zenon DEF AutoResolveAlerts, Now
<1>2. ASSUME NEW i \in DOMAIN alerts PROVE RowKept(i)
  <2>1. alerts[i] \in Alert
    BY DEF StoreTypeOK
  <2>2. CASE alerts'[i] = alerts[i]
    BY <1>1, <2>2 DEF RowKept
  <2>3. CASE Active(alerts[i]) /\ alerts'[i] = Cleared(alerts[i], Now)
    BY <1>1, <2>1, <2>3 DEF RowKept, Active, ActiveStatus, Cleared, Alert
  <2>4. QED
    BY <1>1, <2>2, <2>3, AutoResolveRows DEF Now
<1>3. QED
  BY <1>1, <1>2, AlertsOnly

LEMMA TransitionKeeps ==
  ASSUME StoreTypeOK, NEW i \in DOMAIN alerts, NEW u \in Users,
         AcknowledgeAlert(i, u, Now) \/ ResolveAlert(i, u, Now)
  PROVE  StoreKept
<1>1. StoreTypeOK' /\ DOMAIN alerts' = DOMAIN alerts /\ UNCHANGED alert_rules
  BY AcknowledgeType, ResolveType, Zenon DEF AcknowledgeAlert, ResolveAlert, Now
<1>2. ASSUME NEW j \in DOMAIN alerts PROVE RowKept(j)
  <2>1. alerts[j] \in Alert
    BY DEF StoreTypeOK
  <2>2. CASE alerts'[j] = alerts[j]
    BY <1>1, <2>2 DEF RowKept
  <2>3. CASE alerts[j].status = "open" /\ alerts'[j] = Acknowledged(alerts[j], Now, u)
    BY <1>1, <2>1, <2>3 DEF RowKept, Acknowledged, Alert
  <2>4. CASE Active(alerts[j]) /\ alerts'[j] = Resolved(alerts[j], Now, u)
    BY <1>1, <2>1, <2>4 DEF RowKept, Active, ActiveStatus, Resolved, Alert
  <2>5. QED
    BY <1>1, <2>2, <2>3, <2>4, RequestRows DEF Now
<1>3. QED
  BY <1>1, <1>2, AlertsOnly

LEMMA RuleEditKeeps ==
  ASSUME StoreTypeOK, NEW r \in RuleIds,
         \/ \E d \in Devices, in \in RuleInputs : InsertRule(r, d, in)
         \/ \E in \in RuleInputs : UpdateRule(r, in)
         \/ DeleteRule(r)
  PROVE  StoreKept
<1>1. StoreTypeOK'
  BY EditRuleType
<1>2. UNCHANGED alerts
  BY Zenon DEF InsertRule, UpdateRule, DeleteRule
<1>3. \A i \in DOMAIN alerts : RowKept(i)
  BY <1>2 DEF RowKept
<1>4. \A q \in RuleIds \ {r} : alert_rules'[q] = alert_rules[q]
  BY Zenon DEF InsertRule, UpdateRule, DeleteRule, StoreTypeOK
<1>5. \A q \in RuleIds \ {r} : RuleKept(q)
  BY <1>4 DEF RuleKept, LiveRules
<1>6. RuleKept(r)
  <2>1. CASE \E d \in Devices, in \in RuleInputs : InsertRule(r, d, in)
    BY <2>1, RuleFromType, RowMarkersAssumption, Zenon DEF RuleKept, InsertRule, LiveRules, StoreTypeOK
  <2>2. CASE \E in \in RuleInputs : UpdateRule(r, in)
    <3>1. r \in LiveRules /\ alert_rules'[r] \in Rule
      <4>1. PICK in \in RuleInputs : UpdateRule(r, in)
        BY <2>2
      <4>2. alert_rules[r].device_id \in Devices
        BY <4>1, Zenon DEF UpdateRule, LiveRules, Rule
      <4>3. QED
        BY <4>1, <4>2, RuleFromType DEF UpdateRule, StoreTypeOK
    <3>2. QED
      BY <3>1, RowMarkersAssumption, Zenon DEF RuleKept, LiveRules
  <2>3. CASE DeleteRule(r)
    BY <2>3, RowMarkersAssumption, Zenon DEF RuleKept, DeleteRule, LiveRules, Referenced, StoreTypeOK
  <2>4. QED
    BY <2>1, <2>2, <2>3
<1>7. QED
  BY <1>1, <1>3, <1>5, <1>6 DEF StoreKept

-----------------------------------------------------------------------------
\* What is known of a request or of an answer survives every statement.
LEMMA IdsStable ==
  ASSUME StoreKept, NEW req, IdsSeen(req)
  PROVE  IdsSeen(req)'
BY DEF StoreKept, RowKept, RuleKept, IdsSeen

LEMMA OutOfReachStable ==
  ASSUME StoreTypeOK, StoreKept, NEW op \in Transitions, NEW i \in DOMAIN alerts,
         alerts[i].status \notin fromStatuses(op)
  PROVE  i \in DOMAIN alerts' /\ alerts'[i].status \notin fromStatuses(op)
<1>0. alerts[i] \in Alert
  BY SMT, Z3 DEF StoreTypeOK
<1>1. alerts[i].status \in Status /\ RowKept(i)
  BY <1>0, Zenon DEF StoreKept, Alert
<1>2. QED
  BY <1>1 DEF RowKept, Status, ActiveStatus, fromStatuses, Transitions

LEMMA MissedStable ==
  ASSUME StoreTypeOK, StoreKept, NEW req, IdsSeen(req), Missed(req)
  PROVE  Missed(req)'
<1>1. req.op \in Transitions /\ req.id \in DOMAIN alerts \cup {UnknownId, BadId}
  BY DEF IdsSeen, Missed
<1>2. CASE req.id \in DOMAIN alerts
  BY <1>1, <1>2, OutOfReachStable DEF Missed
<1>3. CASE req.id \in {UnknownId, BadId}
  <2>1. DOMAIN alerts' \subseteq Nat
    BY DEF StoreKept, StoreTypeOK
  <2>2. QED
    BY <1>1, <1>3, <2>1, IdsAssumption DEF Missed
<1>4. QED
  BY <1>1, <1>2, <1>3, Zenon

LEMMA AnswerStable ==
  ASSUME StoreTypeOK, StoreKept, NEW a, AnswerOK(a)
  PROVE  AnswerOK(a)'
<1> DEFINE req == a.req
<1>1. req.op \in Transitions /\ a.status \in {200, 409}
        => req.id \in DOMAIN alerts' /\ alerts'[req.id].status \notin fromStatuses(req.op)
  BY OutOfReachStable, Zenon DEF AnswerOK, AnswerHolds
<1>0. \A i \in DOMAIN alerts : alerts[i].status \in Status
  <2>1. \A i \in DOMAIN alerts : alerts[i] \in Alert
    BY DEF StoreTypeOK
  <2>2. QED
    BY <2>1 DEF Alert
<1>2. /\ req.op = "acknowledge" /\ a.status = 200
           => req.id \in DOMAIN alerts /\ alerts[req.id].status # "open"
      /\ req.op = "resolve" /\ a.status = 200
           => req.id \in DOMAIN alerts /\ alerts[req.id].status = "resolved"
  BY <1>0, Zenon DEF AnswerOK, AnswerHolds, Transitions, fromStatuses, ActiveStatus, Status
<1>3. /\ req.op = "acknowledge" /\ a.status = 200 => alerts'[req.id].acknowledged_by = req.user
      /\ req.op = "resolve" /\ a.status = 200 => alerts'[req.id].resolved_by = req.user
  BY <1>2, Zenon DEF AnswerOK, AnswerHolds, StoreKept, RowKept
<1>4. /\ req.op = "create" /\ a.status = 201 => alert_rules'[req.id] # NoRule
      /\ req.op = "delete" /\ a.status = 204 => alert_rules'[req.id] = DroppedRule
      /\ req.op \in {"update", "delete"} /\ a.status = 404
           => req.id = UnknownId \/ alert_rules'[req.id] = DroppedRule
  BY SMT, Z3 DEF AnswerOK, AnswerHolds, StoreKept, RuleKept
<1>5. req.op = "delete" /\ a.status = 409 => req.id \in LiveRules' /\ Referenced(req.id)'
  BY DEF AnswerOK, AnswerHolds, StoreKept, RuleKept, RowKept, Referenced, LiveRules
<1>6. QED
  BY <1>1, <1>3, <1>4, <1>5, Zenon DEF AnswerOK, AnswerHolds

-----------------------------------------------------------------------------
\* The ways a handler's step can end: with an answer that is true, or with the
\* lookup still to come.
Ends(s, a) ==
  /\ request' = [request EXCEPT ![s].stage = "done", ![s].status = a.status]
  /\ answers' \in {answers, Append(answers, a)}

OKAfter(a) == AnswerOK(a)'

Answers(s) ==
  \E a \in Answered :
    /\ Ends(s, a)
    /\ OKAfter(a)
    /\ a.req.op \in Transitions /\ a.status = 200 => RowMatches(a.req)

LooksUp(s) ==
  /\ request' = [request EXCEPT ![s].stage = "lookup"]
  /\ Missed(request[s].req)
  /\ UNCHANGED <<storeVars, answers>>

Told(req, status, call) == [req |-> req, status |-> status, call |-> call]

LEMMA TrueAnswer ==
  ASSUME NEW s \in Slots, NEW req \in Request, NEW status \in Nat, NEW call \in {"ok", "failed"},
         Answer(s, req, status, call),
         OKAfter(Told(req, status, call)),
         req.op \in Transitions /\ status = 200 => RowMatches(req)
  PROVE  Answers(s)
<1> DEFINE a == Told(req, status, call)
<1>1. a \in Answered /\ a.req = req /\ a.status = status
  BY Zenon DEF Told, Answered
<1>2. Ends(s, a)
  BY <1>1 DEF Answer, Ends, Told
<1> HIDE DEF a
<1>3. OKAfter(a)
  BY Zenon DEF a
<1>4. QED
  BY <1>1, <1>2, <1>3 DEF Answers

\* A refusal says nothing of the tables.
LEMMA Refusal ==
  ASSUME NEW s \in Slots, NEW req \in Request, NEW status \in {400, 500},
         Answer(s, req, status, "ok")
  PROVE  Answers(s)
<1>1. OKAfter(Told(req, status, "ok"))
  BY DEF OKAfter, AnswerOK, AnswerHolds, Told
<1>2. QED
  BY <1>1, TrueAnswer, SMT, Z3

\* The handler's request, before and while it is handled.
LEMMA Handled ==
  ASSUME ApiInv, NEW s \in Slots, request[s] # NoRequest
  PROVE  \E req \in Request : request[s].req = req /\ IdsSeen(req)
BY DEF ApiInv, ApiTypeOK, OpenRequest, RequestOK

\* The row a transition was applied to.
LEMMA AcknowledgedRow ==
  ASSUME StoreTypeOK, NEW i \in DOMAIN alerts, NEW u, AcknowledgeAlert(i, u, Now)
  PROVE  /\ i \in DOMAIN alerts'
         /\ alerts'[i].status = "acknowledged" /\ alerts'[i].acknowledged_by = u
<1>1. alerts[i] \in Alert
  BY DEF StoreTypeOK
<1>2. i \in DOMAIN alerts' /\ alerts'[i] = Acknowledged(alerts[i], Now, u)
  BY DEF AcknowledgeAlert, Acknowledged
<1>3. QED
  BY <1>1, <1>2 DEF Acknowledged, Alert

LEMMA ResolvedRow ==
  ASSUME StoreTypeOK, NEW i \in DOMAIN alerts, NEW u, ResolveAlert(i, u, Now)
  PROVE  /\ i \in DOMAIN alerts'
         /\ alerts'[i].status = "resolved" /\ alerts'[i].resolved_by = u
<1>1. alerts[i] \in Alert
  BY DEF StoreTypeOK
<1>2. i \in DOMAIN alerts' /\ alerts'[i] = Resolved(alerts[i], Now, u)
  BY Zenon DEF ResolveAlert, Resolved
<1>3. QED
  BY <1>1, <1>2 DEF Resolved, Alert

LEMMA TransitionEnds ==
  ASSUME ApiInv, NEW s \in Slots, NEW op \in Transitions, transitionAlert(s, op)
  PROVE  StoreKept /\ (Answers(s) \/ LooksUp(s))
<1>0. StoreTypeOK /\ Running(s, op, "query") /\ request[s] # NoRequest
  BY Zenon DEF ApiInv, ApiTypeOK, transitionAlert, Running
<1>1. PICK req \in Request : request[s].req = req /\ IdsSeen(req)
  BY <1>0, Handled
<1>2. req.op = op
  BY <1>0, <1>1 DEF Running
<1>3. CASE Transition(req) /\ RowMatches(req) /\ ~UpdateErrors(req)
           /\ (Answer(s, req, 200, "ok") \/ Answer(s, req, 500, "ok"))
  <2>1. req.id \in DOMAIN alerts /\ req.user \in Users
    BY <1>3, Zenon DEF RowMatches, UpdateErrors
  <2>2. StoreKept
    BY <1>0, <1>3, <2>1, TransitionKeeps DEF Transition
  <2>3. OKAfter(Told(req, 200, "ok"))
    <3>1. CASE op = "acknowledge"
      <4>1. /\ req.id \in DOMAIN alerts'
            /\ alerts'[req.id].status = "acknowledged"
            /\ alerts'[req.id].acknowledged_by = req.user
        BY <1>0, <1>2, <1>3, <2>1, <3>1, AcknowledgedRow, Zenon DEF Transition
      <4>2. QED
        BY <1>2, <3>1, <4>1, SMT, Z3 DEF OKAfter, AnswerOK, AnswerHolds, Told, fromStatuses
    <3>2. CASE op = "resolve"
      <4>1. /\ req.id \in DOMAIN alerts'
            /\ alerts'[req.id].status = "resolved"
            /\ alerts'[req.id].resolved_by = req.user
        BY <1>0, <1>2, <1>3, <2>1, <3>2, ResolvedRow DEF Transition
      <4>2. QED
        BY <1>2, <3>2, <4>1, SMT, Z3 DEF OKAfter, AnswerOK, AnswerHolds, Told,
                                              fromStatuses, ActiveStatus
    <3>3. QED
      BY <3>1, <3>2, Zenon DEF Transitions
  <2>4. QED
    BY <1>3, <2>2, <2>3, TrueAnswer, Refusal, SMT, Z3
<1>4. CASE UNCHANGED storeVars /\ \E status \in {400, 500} : Answer(s, req, status, "ok")
  BY <1>0, <1>4, Refusal, SameStore
<1>5. CASE /\ ~RowMatches(req)
           /\ request' = [request EXCEPT ![s].stage = "lookup"]
           /\ UNCHANGED <<storeVars, answers>>
  BY <1>0, <1>1, <1>2, <1>5, SameStore, Zenon DEF LooksUp, Missed, RowMatches
<1>6. QED
  BY <1>1, <1>3, <1>4, <1>5, SMT, Z3 DEF transitionAlert, Reply

LEMMA LookUpEnds ==
  ASSUME ApiInv, NEW s \in Slots, NEW op \in Transitions, lookUpAlert(s, op)
  PROVE  StoreKept /\ Answers(s)
<1>0. StoreTypeOK /\ Running(s, op, "lookup") /\ request[s] # NoRequest
  BY DEF ApiInv, ApiTypeOK, lookUpAlert, Running
<1>1. PICK req \in Request : request[s].req = req /\ IdsSeen(req)
  BY <1>0, Handled, Zenon
<1>2. req.op = op /\ Missed(req) /\ UNCHANGED storeVars
  BY <1>0, <1>1 DEF Running, ApiInv, RequestOK, lookUpAlert
<1>3. StoreKept /\ UNCHANGED alerts
  BY <1>0, <1>2, SameStore, Zenon DEF storeVars
<1>4. CASE req.id \in DOMAIN alerts /\ Answer(s, req, 409, "ok")
  <2>1. OKAfter(Told(req, 409, "ok"))
    BY <1>2, <1>3, <1>4, SMT, Z3 DEF OKAfter, AnswerOK, AnswerHolds, Told, Missed, Transitions
  <2>2. QED
    BY <1>3, <1>4, <2>1, TrueAnswer, SMT, Z3
<1>5. CASE req.id \notin DOMAIN alerts /\ Answer(s, req, 404, "ok")
  <2>1. OKAfter(Told(req, 404, "ok"))
    BY <1>1, <1>2, <1>3, <1>5 DEF OKAfter, AnswerOK, AnswerHolds, Told, IdsSeen, Transitions
  <2>2. QED
    BY <1>3, <1>5, <2>1, TrueAnswer, SMT, Z3
<1>6. CASE Answer(s, req, 404, "failed")
  <2>1. OKAfter(Told(req, 404, "failed"))
    BY <1>2 DEF OKAfter, AnswerOK, AnswerHolds, Told, Transitions
  <2>2. QED
    BY <1>3, <1>6, <2>1, TrueAnswer, SMT, Z3
<1>7. QED
  BY <1>1, <1>4, <1>5, <1>6, Zenon DEF lookUpAlert, Reply

LEMMA CreateEnds ==
  ASSUME ApiInv, NEW s \in Slots, createAlertRule(s)
  PROVE  StoreKept /\ Answers(s)
<1>0. StoreTypeOK /\ Running(s, "create", "query") /\ request[s] # NoRequest
  BY Zenon DEF ApiInv, ApiTypeOK, createAlertRule, Running
<1>1. PICK req \in Request : request[s].req = req /\ IdsSeen(req)
  BY <1>0, Handled, Zenon
<1>2. req \in CreateRequest
  BY <1>0, <1>1, Zenon DEF Running, Request, Transitions, TransitionRequest, UpdateRequest,
                    DeleteRequest, DeviceRequest
<1>3. CASE \E r \in RuleIds :
             /\ req.body # NoBody /\ req.device \in Devices
             /\ InsertRule(r, req.device, req.body)
             /\ Answer(s, [req EXCEPT !.id = r], 201, "ok") \/ Answer(s, req, 400, "ok")
  <2>1. PICK r \in RuleIds :
             /\ req.body # NoBody /\ req.device \in Devices
             /\ InsertRule(r, req.device, req.body)
             /\ Answer(s, [req EXCEPT !.id = r], 201, "ok") \/ Answer(s, req, 400, "ok")
    BY <1>3
  <2>2. req.body \in RuleInputs
    BY <1>2, <2>1 DEF CreateRequest
  <2>3. StoreKept
    BY <1>0, <2>1, <2>2, RuleEditKeeps
  <2>4. alert_rules'[r] # NoRule
    <3>1. RuleFrom(req.device, req.body) \in Rule
      BY <2>1, <2>2, RuleFromType, Zenon DEF InsertRule
    <3>2. QED
      BY <1>0, <2>1, <3>1, RowMarkersAssumption, Zenon DEF InsertRule, StoreTypeOK
  <2> DEFINE new == [req EXCEPT !.id = r]
  <2>5. new \in CreateRequest /\ new.op = "create" /\ new.id = r
    BY <1>2 DEF CreateRequest
  <2> HIDE DEF new
  <2>6. new \in Request
    BY <2>5, Zenon DEF Request
  <2>7. OKAfter(Told(new, 201, "ok"))
    BY <2>4, <2>5, Zenon DEF OKAfter, AnswerOK, AnswerHolds, Told, Transitions
  <2>8. CASE Answer(s, new, 201, "ok")
    BY <2>3, <2>5, <2>6, <2>7, <2>8, TrueAnswer DEF Transitions
  <2>9. QED
    BY <2>1, <2>3, <2>8, Refusal DEF new
<1>4. CASE UNCHANGED storeVars /\ Answer(s, req, 400, "ok")
  BY <1>0, <1>4, Refusal, SameStore
<1>5. QED
  BY <1>1, <1>3, <1>4, Zenon DEF createAlertRule, Reply

LEMMA UpdateEnds ==
  ASSUME ApiInv, NEW s \in Slots, updateAlertRule(s)
  PROVE  StoreKept /\ Answers(s)
<1>0. StoreTypeOK /\ Running(s, "update", "query") /\ request[s] # NoRequest
  BY DEF ApiInv, ApiTypeOK, updateAlertRule, Running
<1>1. PICK req \in Request : request[s].req = req /\ IdsSeen(req)
  BY <1>0, Handled, Zenon
<1>2. req \in UpdateRequest
  BY <1>0, <1>1 DEF Running, Request, Transitions, TransitionRequest, CreateRequest,
                    DeleteRequest, DeviceRequest
<1>3. req.op = "update" /\ req.body \in RuleInputs \cup {NoBody}
  BY <1>2, Zenon DEF UpdateRequest
<1>4. CASE /\ req.body # NoBody /\ req.id \in LiveRules /\ UpdateRule(req.id, req.body)
           /\ Answer(s, req, 200, "ok") \/ Answer(s, req, 400, "ok")
  <2>1. StoreKept
    BY <1>0, <1>3, <1>4, RuleEditKeeps, Zenon DEF LiveRules
  <2>2. OKAfter(Told(req, 200, "ok"))
    BY <1>3, SMT, Z3 DEF OKAfter, AnswerOK, AnswerHolds, Told, Transitions
  <2>3. QED
    BY <1>3, <1>4, <2>1, <2>2, TrueAnswer, Refusal DEF Transitions
<1>5. CASE /\ req.id \notin LiveRules \cup {BadId}
           /\ UNCHANGED storeVars /\ Answer(s, req, 404, "ok")
  <2>1. OKAfter(Told(req, 404, "ok"))
    <3>1. req.id = UnknownId \/ (req.id \in RuleIds /\ alert_rules'[req.id] = DroppedRule)
      BY <1>0, <1>1, <1>3, <1>5 DEF IdsSeen, LiveRules, StoreTypeOK, storeVars
    <3>2. QED
      BY <1>3, <3>1, Zenon DEF OKAfter, AnswerOK, AnswerHolds, Told, Transitions
  <2>2. QED
    BY <1>0, <1>5, <2>1, TrueAnswer, SameStore, SMT, Z3
<1>6. CASE UNCHANGED storeVars /\ Answer(s, req, 400, "ok")
  BY <1>0, <1>6, Refusal, SameStore
<1>7. QED
  BY <1>1, <1>4, <1>5, <1>6, Zenon DEF updateAlertRule, Reply

LEMMA DeleteEnds ==
  ASSUME ApiInv, NEW s \in Slots, deleteAlertRule(s)
  PROVE  StoreKept /\ Answers(s)
<1>0. StoreTypeOK /\ Running(s, "delete", "query") /\ request[s] # NoRequest
  BY DEF ApiInv, ApiTypeOK, deleteAlertRule, Running
<1>1. PICK req \in Request : request[s].req = req /\ IdsSeen(req) /\ req.op = "delete"
  BY <1>0, Handled, Zenon DEF Running
<1>2. CASE /\ req.id \in LiveRules /\ DeleteRule(req.id)
           /\ Answer(s, req, 204, "ok") \/ Answer(s, req, 500, "ok")
  <2>1. StoreKept
    BY <1>0, <1>2, RuleEditKeeps DEF LiveRules
  <2>2. req.id \in RuleIds /\ alert_rules'[req.id] = DroppedRule
    BY <1>0, <1>2, Zenon DEF LiveRules, DeleteRule, StoreTypeOK
  <2>3. OKAfter(Told(req, 204, "ok"))
    BY <1>1, <2>2, SMT, Z3 DEF OKAfter, AnswerOK, AnswerHolds, Told, Transitions
  <2>4. QED
    BY <1>1, <1>2, <2>1, <2>3, TrueAnswer, Refusal, SMT, Z3
<1>3. CASE /\ req.id \in LiveRules /\ Referenced(req.id)
           /\ UNCHANGED storeVars /\ Answer(s, req, 409, "ok")
  <2>1. OKAfter(Told(req, 409, "ok"))
    BY <1>1, <1>3, SMT, Z3 DEF OKAfter, AnswerOK, AnswerHolds, Told, Transitions, storeVars, LiveRules,
                      Referenced
  <2>2. QED
    BY <1>0, <1>3, <2>1, TrueAnswer, SameStore, SMT, Z3
<1>4. CASE /\ req.id \notin LiveRules \cup {BadId}
           /\ UNCHANGED storeVars /\ Answer(s, req, 404, "ok")
  <2>1. OKAfter(Told(req, 404, "ok"))
    <3>1. req.id = UnknownId \/ (req.id \in RuleIds /\ alert_rules'[req.id] = DroppedRule)
      BY <1>0, <1>1, <1>4, Zenon DEF IdsSeen, LiveRules, StoreTypeOK, storeVars
    <3>2. QED
      BY <1>1, <3>1, SMT, Z3 DEF OKAfter, AnswerOK, AnswerHolds, Told, Transitions
  <2>2. QED
    BY <1>0, <1>4, <2>1, TrueAnswer, SameStore, SMT, Z3
<1>5. CASE UNCHANGED storeVars /\ Answer(s, req, 500, "ok")
  BY <1>0, <1>5, Refusal, SameStore, SMT, Z3
<1>6. QED
  BY <1>1, <1>2, <1>3, <1>4, <1>5, Zenon DEF deleteAlertRule, Reply

LEMMA DeviceEnds ==
  ASSUME ApiInv, NEW s \in Slots, getDevice(s)
  PROVE  StoreKept /\ Answers(s)
<1>0. StoreTypeOK /\ Running(s, "device", "query") /\ request[s] # NoRequest
  BY Zenon DEF ApiInv, ApiTypeOK, getDevice, Running
<1>1. PICK req \in Request : request[s].req = req /\ IdsSeen(req)
  BY <1>0, Handled, Zenon
<1>2. req \in DeviceRequest
  BY <1>0, <1>1, Zenon DEF Running, Request, Transitions, TransitionRequest, CreateRequest,
                    UpdateRequest, DeleteRequest
<1>3. req.op = "device" /\ req.id \in Devices \cup {UnknownId, BadId} /\ StoreKept
  BY <1>0, <1>2, SameStore, Zenon DEF DeviceRequest, getDevice
<1>4. CASE Answer(s, req, 200, "ok")
  <2>1. OKAfter(Told(req, 200, "ok"))
    BY <1>3, SMT, Z3 DEF OKAfter, AnswerOK, AnswerHolds, Told, Transitions
  <2>2. QED
    BY <1>3, <1>4, <2>1, TrueAnswer, SMT, Z3 DEF Transitions
<1>5. CASE req.id \notin Devices /\ Answer(s, req, 404, "ok")
  <2>1. OKAfter(Told(req, 404, "ok"))
    BY <1>3, <1>5, Zenon DEF OKAfter, AnswerOK, AnswerHolds, Told, Transitions
  <2>2. QED
    BY <1>3, <1>5, <2>1, TrueAnswer, SMT, Z3
<1>6. CASE Answer(s, req, 404, "failed")
  <2>1. OKAfter(Told(req, 404, "failed"))
    BY <1>3, Zenon DEF OKAfter, AnswerOK, AnswerHolds, Told, Transitions
  <2>2. QED
    BY <1>3, <1>6, <2>1, TrueAnswer, SMT, Z3
<1>7. QED
  BY <1>1, <1>4, <1>5, <1>6, Zenon DEF getDevice, Reply

-----------------------------------------------------------------------------
\* Every step keeps the store, and is one of these as far as requests go.
Sends(s) ==
  \E req \in Request :
    /\ IdsSeen(req)
    /\ request' = [request EXCEPT ![s] = [req |-> req, stage |-> "query", status |-> 0]]
    /\ UNCHANGED answers

Drops(s) ==
  /\ \/ request' = [request EXCEPT ![s] = NoRequest]
     \/ request[s] # NoRequest /\ request' = [request EXCEPT ![s].stage = "done"]
  /\ UNCHANGED answers

LEMMA RequestsAreTyped ==
  ASSUME StoreTypeOK, NEW req \in Requests
  PROVE  req \in Request /\ IdsSeen(req)
<1>0. DOMAIN alerts \subseteq Nat
  BY SMT, Z3 DEF StoreTypeOK
<1>1. CASE req \in [op : Transitions, id : DOMAIN alerts \cup {UnknownId, BadId},
                    user : Users \cup {Stranger, NoUser, BadId}]
  BY <1>0, <1>1, Zenon DEF Request, TransitionRequest, IdsSeen, Transitions
<1>2. CASE req \in [op : {"create"}, id : {UnknownId}, device : Devices \cup {UnknownId},
                    body : RuleInputs \cup {NoBody}]
  BY <1>2, Zenon DEF Request, CreateRequest, IdsSeen, Transitions
<1>3. CASE req \in [op : {"update"},
                    id : {r \in RuleIds : alert_rules[r] # NoRule} \cup {UnknownId, BadId},
                    body : RuleInputs \cup {NoBody}]
  BY <1>3, Zenon DEF Request, UpdateRequest, IdsSeen, Transitions
<1>4. CASE req \in [op : {"delete"},
                    id : {r \in RuleIds : alert_rules[r] # NoRule} \cup {UnknownId, BadId}]
  BY <1>4, Zenon DEF Request, DeleteRequest, IdsSeen, Transitions
<1>5. CASE req \in [op : {"device"}, id : Devices \cup {UnknownId, BadId}]
  BY <1>5, Zenon DEF Request, DeviceRequest, IdsSeen, Transitions
<1>6. QED
  BY <1>1, <1>2, <1>3, <1>4, <1>5 DEF Requests

LEMMA StepForms ==
  ASSUME ApiInv, [ApiNext]_apiVars
  PROVE  /\ StoreKept
         /\ \/ UNCHANGED <<request, answers>>
            \/ \E s \in Slots : request[s] # NoRequest /\ (Answers(s) \/ LooksUp(s))
            \/ \E s \in Slots : Sends(s) \/ Drops(s)
<1>0. StoreTypeOK
  BY Zenon DEF ApiInv, ApiTypeOK
<1>1. ASSUME NEW s \in Slots, Handle(s)
      PROVE  StoreKept /\ request[s] # NoRequest /\ (Answers(s) \/ LooksUp(s))
  <2>1. request[s] # NoRequest
    BY <1>1, Zenon DEF Handle, transitionAlert, lookUpAlert, createAlertRule, updateAlertRule,
                deleteAlertRule, getDevice, Running
  <2>2. StoreKept /\ (Answers(s) \/ LooksUp(s))
    BY <1>1, TransitionEnds, LookUpEnds, CreateEnds, UpdateEnds, DeleteEnds, DeviceEnds
       DEF Handle
  <2>3. QED
    BY <2>1, <2>2, Zenon
<1>2. ASSUME NEW s \in Slots, Abandon(s) PROVE StoreKept /\ Drops(s)
  BY <1>0, <1>2, SameStore DEF Abandon, Drops
<1>3. ASSUME NEW r \in RuleIds, EngineRaises(r) PROVE StoreKept /\ UNCHANGED <<request, answers>>
  <2>1. alert_rules[r].device_id \in Devices
    BY <1>3, Zenon DEF EngineRaises, LiveRules, Rule
  <2>2. QED
    BY <1>0, <1>3, <2>1, RaiseKeeps DEF EngineRaises, Others
<1>4. ASSUME NEW r \in RuleIds, EngineResolves(r) PROVE StoreKept /\ UNCHANGED <<request, answers>>
  BY <1>0, <1>4, EngineResolveKeeps DEF EngineResolves, Others
<1>5. ASSUME NEW s \in Slots, NEW req \in Requests, Send(s, req) PROVE StoreKept /\ Sends(s)
  BY <1>0, <1>5, SameStore, RequestsAreTyped, Zenon DEF Send, Sends
<1>6. ASSUME NEW s \in Slots, Release(s), UNCHANGED <<storeVars, answers, used>>
      PROVE  StoreKept /\ Drops(s)
  BY <1>0, <1>6, SameStore, Zenon DEF Release, Drops
<1>7. CASE UNCHANGED apiVars
  BY <1>0, <1>7, SameStore DEF apiVars, storeVars
<1>8. QED
  BY <1>1, <1>2, <1>3, <1>4, <1>5, <1>6, <1>7 DEF ApiNext, ApiStep

\* The fields of a request that is moved on.
LEMMA MovedOn ==
  ASSUME NEW rq \in OpenRequest, NEW stage \in {"query", "lookup", "done"}, NEW status \in Nat
  PROVE  /\ [rq EXCEPT !.stage = stage] \in OpenRequest
         /\ [rq EXCEPT !.stage = stage, !.status = status] \in OpenRequest
         /\ [rq EXCEPT !.stage = stage].req = rq.req
         /\ [rq EXCEPT !.stage = stage, !.status = status].req = rq.req
         /\ [rq EXCEPT !.stage = stage].stage = stage
         /\ [rq EXCEPT !.stage = stage, !.status = status].stage = stage
BY Zenon DEF OpenRequest

\* An open request, seen from the tables before the step.
Known(rq) ==
  /\ rq \in OpenRequest
  /\ IdsSeen(rq.req)
  /\ rq.stage = "lookup" => Missed(rq.req)

LEMMA RequestsStep ==
  ASSUME ApiInv, [ApiNext]_apiVars
  PROVE  /\ request' \in [Slots -> OpenRequest \cup {NoRequest}]
         /\ \A t \in Slots : request'[t] # NoRequest => \E rq : rq = request'[t] /\ Known(rq)
<1>1. /\ request \in [Slots -> OpenRequest \cup {NoRequest}]
      /\ \A t \in Slots : request[t] # NoRequest => Known(request[t])
  BY Zenon DEF ApiInv, ApiTypeOK, Known, RequestOK
<1>2. CASE UNCHANGED <<request, answers>>
  BY <1>1, <1>2, Zenon
<1>3. ASSUME NEW s \in Slots, NEW rq \in OpenRequest \cup {NoRequest},
             request' = [request EXCEPT ![s] = rq], rq # NoRequest => Known(rq)
      PROVE  /\ request' \in [Slots -> OpenRequest \cup {NoRequest}]
             /\ \A t \in Slots : request'[t] # NoRequest => \E q : q = request'[t] /\ Known(q)
  BY <1>1, <1>3
<1>4. ASSUME NEW s \in Slots, request[s] # NoRequest, Answers(s)
      PROVE  \E rq \in OpenRequest : request' = [request EXCEPT ![s] = rq] /\ Known(rq)
  <2>1. PICK a \in Answered : Ends(s, a)
    BY <1>4 DEF Answers
  <2>2. request' = [request EXCEPT ![s] = [request[s] EXCEPT !.stage = "done", !.status = a.status]]
    BY <1>1, <2>1, Zenon DEF Ends
  <2>3. Known(request[s]) /\ a.status \in Nat
    BY <1>1, <1>4 DEF Answered
  <2>4. Known([request[s] EXCEPT !.stage = "done", !.status = a.status])
    BY <2>3, MovedOn, Zenon DEF Known
  <2>5. QED
    BY <2>2, <2>4, Zenon DEF Known
<1>5. ASSUME NEW s \in Slots, request[s] # NoRequest, LooksUp(s)
      PROVE  \E rq \in OpenRequest : request' = [request EXCEPT ![s] = rq] /\ Known(rq)
  <2>1. request' = [request EXCEPT ![s] = [request[s] EXCEPT !.stage = "lookup"]]
    BY <1>1, <1>5 DEF LooksUp
  <2>2. Known([request[s] EXCEPT !.stage = "lookup"])
    BY <1>1, <1>5, MovedOn, Zenon DEF Known, LooksUp
  <2>3. QED
    BY <2>1, <2>2, Zenon DEF Known
<1>6. ASSUME NEW s \in Slots, Sends(s)
      PROVE  \E rq \in OpenRequest : request' = [request EXCEPT ![s] = rq] /\ Known(rq)
  <2>1. PICK req \in Request :
          /\ IdsSeen(req)
          /\ request' = [request EXCEPT ![s] = [req |-> req, stage |-> "query", status |-> 0]]
    BY <1>6, Zenon DEF Sends
  <2>2. Known([req |-> req, stage |-> "query", status |-> 0])
    BY <2>1 DEF Known, OpenRequest
  <2>3. QED
    BY <2>1, <2>2, Zenon DEF Known
<1>7. ASSUME NEW s \in Slots, Drops(s)
      PROVE  \/ request' = [request EXCEPT ![s] = NoRequest]
             \/ \E rq \in OpenRequest : request' = [request EXCEPT ![s] = rq] /\ Known(rq)
  <2>1. CASE request[s] # NoRequest /\ request' = [request EXCEPT ![s].stage = "done"]
    <3>1. request' = [request EXCEPT ![s] = [request[s] EXCEPT !.stage = "done"]]
      BY <1>1, <2>1
    <3>2. Known([request[s] EXCEPT !.stage = "done"])
      BY <1>1, <2>1, MovedOn, Zenon DEF Known
    <3>3. QED
      BY <3>1, <3>2, Zenon DEF Known
  <2>2. QED
    BY <1>7, <2>1 DEF Drops
<1>8. QED
  BY <1>2, <1>3, <1>4, <1>5, <1>6, <1>7, StepForms, Zenon

LEMMA RequestsStayOK ==
  ASSUME ApiInv, [ApiNext]_apiVars, NEW t \in Slots, request'[t] # NoRequest
  PROVE  RequestOK(request[t])'
<1>1. PICK rq : rq = request'[t] /\ Known(rq)
  BY RequestsStep, Zenon
<1>2. StoreTypeOK /\ StoreKept
  BY StepForms DEF ApiInv, ApiTypeOK
<1>3. PICK req : req = rq.req
  BY Zenon
<1>4. IdsSeen(req)'
  BY <1>1, <1>2, <1>3, IdsStable, Zenon DEF Known
<1>5. rq.stage = "lookup" => Missed(req)'
  BY <1>1, <1>2, <1>3, MissedStable DEF Known
<1>6. QED
  BY <1>1, <1>3, <1>4, <1>5 DEF RequestOK, IdsSeen, Missed

LEMMA AnswersStep ==
  ASSUME ApiInv, [ApiNext]_apiVars
  PROVE  /\ answers' \in Seq(Answered)
         /\ \A a \in Range(answers') : OKAfter(a)
         /\ OneWinner'
<1>1. /\ answers \in Seq(Answered) /\ StoreTypeOK /\ StoreKept /\ OneWinner
      /\ \A a \in Range(answers) : AnswerOK(a)
  BY StepForms DEF ApiInv, ApiTypeOK
<1>2. \A a \in Range(answers) : OKAfter(a)
  BY <1>1, AnswerStable, Zenon DEF OKAfter
<1>3. CASE UNCHANGED answers
  BY <1>1, <1>2, <1>3, Zenon DEF OneWinner
<1>4. CASE \E a \in Answered :
             /\ answers' = Append(answers, a)
             /\ OKAfter(a)
             /\ a.req.op \in Transitions /\ a.status = 200 => RowMatches(a.req)
  <2>1. PICK a \in Answered :
             /\ answers' = Append(answers, a)
             /\ OKAfter(a)
             /\ a.req.op \in Transitions /\ a.status = 200 => RowMatches(a.req)
    BY <1>4, Zenon
  <2>2. /\ answers' \in Seq(Answered)
        /\ DOMAIN answers' = DOMAIN answers \cup {Len(answers) + 1}
        /\ answers'[Len(answers) + 1] = a
        /\ \A k \in DOMAIN answers : answers'[k] = answers[k]
    BY <1>1, <2>1
  <2>3. ASSUME NEW k \in DOMAIN answers, answers[k].req.op \in Transitions,
               answers[k].req.op = a.req.op, answers[k].req.id = a.req.id,
               answers[k].status = 200, a.status = 200
        PROVE  FALSE
    <3>1. AnswerHolds(answers[k])
      BY <1>1 DEF AnswerOK, Range
    <3>2. RowMatches(a.req)
      BY <2>1, <2>3, Zenon
    <3>3. QED
      BY <2>3, <3>1, <3>2, Zenon DEF AnswerHolds, RowMatches
  <2>4. OneWinner'
    BY <1>1, <2>2, <2>3 DEF OneWinner
  <2>5. QED
    BY <1>2, <2>1, <2>2, <2>4, Zenon DEF Range
<1>5. QED
  <2>1. UNCHANGED answers \/ \E s \in Slots : Answers(s)
    BY StepForms, Zenon DEF Sends, Drops, LooksUp
  <2>2. QED
    BY <1>3, <1>4, <2>1, Zenon DEF Answers, Ends

LEMMA ApiStart == ApiInit => ApiInv
<1> SUFFICES ASSUME ApiInit PROVE ApiInv
  BY Zenon
<1>1. StoreTypeOK
  BY InitialRulesAssumption, SMT, Z3 DEF ApiInit, StoreTypeOK
<1>2. request \in [Slots -> OpenRequest \cup {NoRequest}] /\ \A s \in Slots : request[s] = NoRequest
  BY Zenon DEF ApiInit
<1>3. answers = <<>> /\ answers \in Seq(Answered) /\ DOMAIN answers = {}
  BY SMT, Z3 DEF ApiInit
<1>4. QED
  BY <1>1, <1>2, <1>3, Zenon DEF ApiInv, ApiTypeOK, OneWinner, Range

LEMMA ApiPreserved == ApiInv /\ [ApiNext]_apiVars => ApiInv'
<1> SUFFICES ASSUME ApiInv, [ApiNext]_apiVars PROVE ApiInv'
  BY Zenon
<1>1. ApiTypeOK'
  BY StepForms, RequestsStep, AnswersStep DEF ApiTypeOK, StoreKept
<1>2. \A t \in Slots : request'[t] # NoRequest => RequestOK(request[t])'
  BY RequestsStayOK, Zenon
<1>3. \A a \in Range(answers') : AnswerOK(a)'
  BY AnswersStep DEF OKAfter
<1>4. QED
  BY <1>1, <1>2, <1>3, AnswersStep DEF ApiInv

\* Whatever requests are handled at the same time, fail, lose their reply or are
\* abandoned, and whatever the engine does: what an API answer told its client
\* stays true.
THEOREM AnswersHold == ApiSpec => []AnswersStayTrue
<1>1. ApiInv => AnswersStayTrue
  BY DEF ApiInv, AnswerOK, AnswersStayTrue, Range
<1>2. QED
  BY <1>1, ApiStart, ApiPreserved, PTL DEF ApiSpec

\* acknowledgeAlert and resolveAlert each succeed at most once for an alert.
THEOREM SingleWinner == ApiSpec => []OneWinner
<1>1. ApiInv => OneWinner
  BY DEF ApiInv
<1>2. QED
  BY <1>1, ApiStart, ApiPreserved, PTL DEF ApiSpec

-----------------------------------------------------------------------------
\* The page.
\* The alert is there, and op can no longer be applied to it.
Past(op, i) == i \in DOMAIN alerts /\ alerts[i].status \notin fromStatuses(op)

\* A request of the page, sent when its alert was shown as was.
Fits(rq, was) ==
  /\ rq.req.id \in DOMAIN alerts
  /\ was \in fromStatuses(rq.req.op)
  /\ rq.stage = "lookup" \/ rq.status \in {200, 409} => Past(rq.req.op, rq.req.id)

Exist(rows) == \A row \in rows : row.id \in DOMAIN alerts

\* Rows that offer no transition of made.
UpToDate(rows, made) ==
  \A m \in made, row \in rows : row.id = m.id => row.status \notin fromStatuses(m.op)

RequestsFit ==
  /\ request \in [Slots -> PageRequest \cup {NoRequest}]
  /\ clicked \in [Slots -> Status \cup {NotClicked}]
  /\ \A s \in Slots : request[s] # NoRequest => Fits(request[s], clicked[s])

PageFits ==
  /\ page # NoData => Exist(page)
  /\ fetch # NoFetch => fetch \in Fetch /\ Exist(fetch.rows)
  /\ fetch # NoFetch /\ fetch.stage = "answered" => UpToDate(fetch.rows, mine)
  /\ \A m \in mine : m.op \in Transitions /\ Past(m.op, m.id)

PageInv == StoreTypeOK /\ RequestsFit /\ PageFits

-----------------------------------------------------------------------------
\* What is known of the page's requests and rows survives every statement.
LEMMA PastStable ==
  ASSUME StoreTypeOK, StoreKept, NEW op \in Transitions, NEW i, Past(op, i)
  PROVE  Past(op, i)'
BY OutOfReachStable, Zenon DEF Past

LEMMA FitsStable ==
  ASSUME StoreTypeOK, StoreKept, NEW rq \in PageRequest, NEW was, Fits(rq, was)
  PROVE  Fits(rq, was)'
<1>1. PICK op \in Transitions, i \in Nat : rq.req.op = op /\ rq.req.id = i
  BY Zenon DEF PageRequest
<1>2. i \in DOMAIN alerts /\ RowKept(i)
  BY <1>1 DEF Fits, StoreKept
<1>3. Past(op, i) => Past(op, i)'
  BY PastStable, Zenon
<1>4. QED
  BY <1>1, <1>2, <1>3 DEF Fits, RowKept

LEMMA ExistStable ==
  ASSUME StoreKept, NEW rows, Exist(rows)
  PROVE  Exist(rows)'
BY DEF Exist, StoreKept, RowKept

\* A step that leaves the page alone.
LEMMA PageKept ==
  ASSUME PageInv, StoreKept, UNCHANGED <<page, pageError, fetch, mine>>
  PROVE  PageFits'
<1>1. page # NoData => Exist(page)'
  <2>1. PICK rows : rows = page
    OBVIOUS
  <2>2. QED
    BY <2>1, ExistStable, Zenon DEF PageInv, PageFits, Exist
<1>2. fetch # NoFetch => Exist(fetch.rows)'
  <2>1. PICK rows : rows = fetch.rows
    BY Zenon
  <2>2. QED
    BY <2>1, ExistStable, Zenon DEF PageInv, PageFits, Exist
<1>3. \A m \in mine : m.op \in Transitions /\ Past(m.op, m.id)'
  <2> SUFFICES ASSUME NEW m \in mine PROVE m.op \in Transitions /\ Past(m.op, m.id)'
    OBVIOUS
  <2>1. PICK op, i : op = m.op /\ i = m.id
    BY Zenon
  <2>2. QED
    BY <2>1, PastStable, Zenon DEF PageInv, PageFits, Past
<1>4. QED
  BY <1>1, <1>2, <1>3, Zenon DEF PageInv, PageFits, UpToDate

\* A step of one slot.
LEMMA SlotStep ==
  ASSUME PageInv, StoreKept, NEW s \in Slots, NEW rq \in PageRequest \cup {NoRequest},
         NEW was \in Status \cup {NotClicked},
         request' = [request EXCEPT ![s] = rq], clicked' = [clicked EXCEPT ![s] = was],
         rq # NoRequest => Fits(rq, was)'
  PROVE  RequestsFit'
<1>1. /\ request' \in [Slots -> PageRequest \cup {NoRequest}]
      /\ clicked' \in [Slots -> Status \cup {NotClicked}]
      /\ request'[s] = rq /\ clicked'[s] = was
      /\ \A t \in Slots \ {s} : request'[t] = request[t] /\ clicked'[t] = clicked[t]
  BY Zenon DEF PageInv, RequestsFit
<1>2. ASSUME NEW t \in Slots, request'[t] # NoRequest PROVE Fits(request[t], clicked[t])'
  <2>1. PICK r, c : r = request'[t] /\ c = clicked'[t]
    BY Zenon
  <2>2. Fits(r, c)'
    <3>1. CASE t = s
      BY <1>1, <1>2, <2>1, <3>1, Zenon
    <3>2. CASE t # s
      BY <1>1, <1>2, <2>1, <3>2, FitsStable DEF PageInv, RequestsFit
    <3>3. QED
      BY <3>1, <3>2
  <2>3. QED
    BY <2>1, <2>2, Zenon DEF Fits, Past
<1>3. QED
  BY <1>1, <1>2 DEF RequestsFit

LEMMA SlotsKept ==
  ASSUME PageInv, StoreKept, UNCHANGED <<request, clicked>>
  PROVE  RequestsFit'
<1>1. ASSUME NEW t \in Slots, request'[t] # NoRequest PROVE Fits(request[t], clicked[t])'
  <2>1. PICK r, c : r = request[t] /\ c = clicked[t]
    BY Zenon
  <2>2. Fits(r, c)'
    BY <1>1, <2>1, FitsStable, SMT, Z3 DEF PageInv, RequestsFit
  <2>3. QED
    BY <2>1, <2>2, Zenon DEF Fits, Past
<1>2. QED
  BY <1>1, Zenon DEF PageInv, RequestsFit

-----------------------------------------------------------------------------
\* The request goes on to stage, or ends with an answer.
MovedTo(rq, stage) == [rq EXCEPT !.stage = stage]
EndedWith(rq, status) == [rq EXCEPT !.stage = "done", !.status = status]

LEMMA Moved ==
  ASSUME NEW rq \in PageRequest, NEW stage \in {"lookup", "done"}, NEW status \in Nat
  PROVE  /\ MovedTo(rq, stage) \in PageRequest
         /\ MovedTo(rq, stage).req = rq.req
         /\ MovedTo(rq, stage).stage = stage
         /\ MovedTo(rq, stage).status = rq.status
         /\ EndedWith(rq, status) \in PageRequest
         /\ EndedWith(rq, status).req = rq.req
         /\ EndedWith(rq, status).stage = "done"
         /\ EndedWith(rq, status).status = status
BY Zenon DEF PageRequest, MovedTo, EndedWith

PastAfter(op, i) == Past(op, i)'

\* A step of a handler or of the server on the page's request: an answer 200 or
\* 409 is given, and the lookup is reached, only when the alert is past the
\* transition.
LEMMA SlotMoves ==
  ASSUME PageInv, StoreKept, UNCHANGED clicked, NEW s \in Slots, request[s] # NoRequest,
         NEW rq \in PageRequest, rq.req = request[s].req, request' = [request EXCEPT ![s] = rq],
         rq.stage = "lookup" \/ rq.status \in {200, 409} => PastAfter(rq.req.op, rq.req.id)
  PROVE  RequestsFit'
<1>1. Fits(request[s], clicked[s]) /\ clicked \in [Slots -> Status \cup {NotClicked}]
  BY Zenon DEF PageInv, RequestsFit
<1>2. PICK was : was = clicked[s]
  OBVIOUS
<1>3. rq.req.id \in DOMAIN alerts' /\ was \in fromStatuses(rq.req.op)
  BY <1>1, <1>2, Zenon DEF Fits, StoreKept, RowKept
<1>4. Fits(rq, was)'
  BY <1>3, Zenon DEF Fits, PastAfter
<1>5. clicked' = [clicked EXCEPT ![s] = was] /\ was \in Status \cup {NotClicked}
  BY <1>1, <1>2
<1>6. QED
  BY <1>4, <1>5, SlotStep, Zenon

EndsAs(s, status) == request' = [request EXCEPT ![s].stage = "done", ![s].status = status]

LEMMA EndsInOneStep ==
  ASSUME PageInv, NEW s \in Slots, request[s] \in PageRequest, NEW status, EndsAs(s, status)
  PROVE  request' = [request EXCEPT ![s] = EndedWith(request[s], status)]
BY Zenon DEF PageInv, RequestsFit, EndedWith, EndsAs

LEMMA SlotEnds ==
  ASSUME PageInv, StoreKept, UNCHANGED clicked, NEW s \in Slots, request[s] # NoRequest,
         NEW req, req = request[s].req, NEW status \in Nat, EndsAs(s, status),
         status \in {200, 409} => PastAfter(req.op, req.id)
  PROVE  RequestsFit'
<1>1. request \in [Slots -> PageRequest \cup {NoRequest}] /\ request[s] \in PageRequest
  BY Zenon DEF PageInv, RequestsFit
<1>2. PICK rq : rq = EndedWith(request[s], status)
  OBVIOUS
<1>3. request' = [request EXCEPT ![s] = rq]
  BY <1>1, <1>2, EndsInOneStep, Zenon
<1>4. rq \in PageRequest /\ rq.req = request[s].req /\ rq.stage = "done" /\ rq.status = status
  BY <1>1, <1>2, Moved, Zenon
<1>5. rq.stage = "lookup" \/ rq.status \in {200, 409} => PastAfter(rq.req.op, rq.req.id)
  BY <1>4, Zenon
<1>6. QED
  BY <1>3, <1>4, <1>5, SlotMoves, Zenon

\* Only the handler of a transition finds a request of the page.
LEMMA PageHandled ==
  ASSUME PageInv, NEW s \in Slots, Handle(s)
  PROVE  /\ request[s] # NoRequest /\ request[s] \in PageRequest
         /\ \E op \in Transitions : op = request[s].req.op
                                    /\ (transitionAlert(s, op) \/ lookUpAlert(s, op))
<1>1. request[s] # NoRequest
  BY Zenon DEF Handle, transitionAlert, lookUpAlert, createAlertRule, updateAlertRule,
               deleteAlertRule, getDevice, Running
<1>2. request[s] \in PageRequest
  BY <1>1, Zenon DEF PageInv, RequestsFit
<1>3. request[s].req.op \in Transitions
  BY <1>2 DEF PageRequest
<1>4. ~createAlertRule(s) /\ ~updateAlertRule(s) /\ ~deleteAlertRule(s) /\ ~getDevice(s)
  BY <1>3, Zenon DEF createAlertRule, updateAlertRule, deleteAlertRule, getDevice, Running, Transitions
<1>5. PICK op \in Transitions : transitionAlert(s, op) \/ lookUpAlert(s, op)
  BY <1>4 DEF Handle
<1>6. op = request[s].req.op
  BY <1>5, Zenon DEF transitionAlert, lookUpAlert, Running
<1>7. QED
  BY <1>1, <1>2, <1>5, <1>6, Zenon

LEMMA TransitionFits ==
  ASSUME PageInv, UNCHANGED clicked, NEW s \in Slots, request[s] \in PageRequest,
         NEW op \in Transitions, op = request[s].req.op, transitionAlert(s, op)
  PROVE  StoreKept /\ RequestsFit'
<1>1. StoreTypeOK /\ request[s] # NoRequest
  BY Zenon DEF PageInv, transitionAlert, Running
<1>2. PICK req : req = request[s].req
  BY Zenon
<1>3. PICK i : i = req.id
  OBVIOUS
<1>4. CASE /\ Transition(req) /\ RowMatches(req) /\ ~UpdateErrors(req)
           /\ Answer(s, req, 200, "ok") \/ Answer(s, req, 500, "ok")
  <2>1. i \in DOMAIN alerts /\ req.user \in Users
    BY <1>3, <1>4 DEF RowMatches, UpdateErrors
  <2>2. StoreKept
    BY <1>1, <1>3, <1>4, <2>1, TransitionKeeps, Zenon DEF Transition
  <2>3. PastAfter(op, i)
    <3>1. CASE op = "acknowledge"
      <4>1. i \in DOMAIN alerts' /\ alerts'[i].status = "acknowledged"
        BY <1>1, <1>2, <1>3, <1>4, <2>1, <3>1, AcknowledgedRow DEF Transition
      <4>2. QED
        BY <3>1, <4>1, Zenon DEF PastAfter, Past, fromStatuses
    <3>2. CASE op = "resolve"
      <4>1. i \in DOMAIN alerts' /\ alerts'[i].status = "resolved"
        BY <1>1, <1>2, <1>3, <1>4, <2>1, <3>2, ResolvedRow, Zenon DEF Transition
      <4>2. QED
        BY <3>2, <4>1, Zenon DEF PastAfter, Past, fromStatuses, ActiveStatus
    <3>3. QED
      BY <3>1, <3>2, Zenon DEF Transitions
  <2>4. PICK status \in {200, 500} : EndsAs(s, status)
    BY <1>4, Zenon DEF Answer, EndsAs
  <2>5. status \in Nat
    BY <2>4, SMT, Z3
  <2>6. RequestsFit'
    BY <1>1, <1>2, <1>3, <2>2, <2>3, <2>4, <2>5, SlotEnds
  <2>7. QED
    BY <2>2, <2>6, Zenon
<1>5. CASE UNCHANGED storeVars /\ \E status \in {400, 500} : Answer(s, req, status, "ok")
  <2>1. StoreKept
    BY <1>1, <1>5, SameStore, Zenon
  <2>2. PICK status \in {400, 500} : Answer(s, req, status, "ok")
    BY <1>5, Zenon
  <2>3. status \in Nat /\ status \notin {200, 409} /\ EndsAs(s, status)
    BY <2>2, SMT, Z3 DEF Answer, EndsAs
  <2>4. RequestsFit'
    BY <1>1, <1>2, <1>3, <2>1, <2>2, <2>3, SlotEnds, SMT, Z3
  <2>5. QED
    BY <2>1, <2>4, Zenon
<1>6. CASE /\ ~RowMatches(req)
           /\ request' = [request EXCEPT ![s].stage = "lookup"]
           /\ UNCHANGED <<storeVars, answers>>
  <2>1. StoreKept /\ UNCHANGED alerts
    BY <1>1, <1>6, SameStore, Zenon DEF storeVars
  <2>2. i \in DOMAIN alerts
    BY <1>1, <1>2, <1>3, Zenon DEF PageInv, RequestsFit, Fits
  <2>3. PastAfter(op, i)
    BY <1>2, <1>3, <1>6, <2>1, <2>2, Zenon DEF PastAfter, Past, RowMatches
  <2>4. PICK rq : rq = MovedTo(request[s], "lookup")
    BY Zenon
  <2>5. rq \in PageRequest /\ rq.req = req
    BY <1>2, <2>4, Moved
  <2>6. request' = [request EXCEPT ![s] = rq]
    BY <1>6, <2>4, Zenon DEF MovedTo, PageInv, RequestsFit
  <2>7. RequestsFit'
    BY <1>1, <1>2, <1>3, <2>1, <2>3, <2>5, <2>6, SlotMoves, Zenon
  <2>8. QED
    BY <2>1, <2>7
<1>7. QED
  BY <1>2, <1>4, <1>5, <1>6, SMT, Z3 DEF transitionAlert, Reply

LEMMA LookUpFits ==
  ASSUME PageInv, UNCHANGED clicked, NEW s \in Slots, request[s] \in PageRequest,
         NEW op \in Transitions, op = request[s].req.op, lookUpAlert(s, op)
  PROVE  StoreKept /\ RequestsFit'
<1>1. /\ StoreTypeOK /\ request[s] # NoRequest /\ request[s].stage = "lookup"
      /\ UNCHANGED storeVars
  BY Zenon DEF PageInv, lookUpAlert, Running
<1>2. PICK req : req = request[s].req
  BY SMT, Z3
<1>3. StoreKept /\ UNCHANGED alerts
  BY <1>1, SameStore DEF storeVars
<1>4. PastAfter(req.op, req.id)
  BY <1>1, <1>2, <1>3, Zenon DEF PageInv, RequestsFit, Fits, Past, PastAfter
<1>5. PICK status \in {404, 409} : EndsAs(s, status)
  BY SMT, Z3 DEF lookUpAlert, Reply, Answer, EndsAs
<1>6. status \in Nat
  BY <1>5, SMT, Z3
<1>7. RequestsFit'
  BY <1>1, <1>2, <1>3, <1>4, <1>5, <1>6, SlotEnds
<1>8. QED
  BY <1>3, <1>7, Zenon

-----------------------------------------------------------------------------
\* The steps of the API, of the engine and of other people.
LEMMA ApiStepFits ==
  ASSUME PageInv, ApiStep, UNCHANGED pageVars
  PROVE  PageInv'
<1>0. StoreTypeOK /\ UNCHANGED <<page, pageError, fetch, mine>> /\ UNCHANGED clicked
  BY Zenon DEF PageInv, pageVars
<1>1. ASSUME NEW s \in Slots, Handle(s) PROVE StoreKept /\ RequestsFit'
  BY <1>0, <1>1, PageHandled, TransitionFits, LookUpFits
<1>2. ASSUME NEW s \in Slots, Abandon(s) PROVE StoreKept /\ RequestsFit'
  <2>1. StoreKept /\ UNCHANGED alerts
    BY <1>0, <1>2, SameStore DEF Abandon, storeVars
  <2>2. /\ request \in [Slots -> PageRequest \cup {NoRequest}]
        /\ request[s] # NoRequest /\ request[s] \in PageRequest
    BY <1>2 DEF PageInv, RequestsFit, Abandon
  <2>3. PICK rq : rq = MovedTo(request[s], "done")
    BY Zenon
  <2>4. /\ rq \in PageRequest /\ rq.req = request[s].req /\ rq.stage = "done"
        /\ rq.status = request[s].status
    BY <2>2, <2>3, Moved
  <2>5. request' = [request EXCEPT ![s] = rq]
    BY <1>2, <2>2, <2>3, Zenon DEF MovedTo, Abandon
  <2>6. rq.status \in {200, 409} => PastAfter(rq.req.op, rq.req.id)
    BY <2>1, <2>2, <2>4 DEF PageInv, RequestsFit, Fits, Past, PastAfter
  <2>7. RequestsFit'
    BY <1>0, <2>1, <2>2, <2>4, <2>5, <2>6, SlotMoves, Zenon
  <2>8. QED
    BY <2>1, <2>7
<1>3. ASSUME NEW r \in RuleIds, EngineRaises(r) PROVE StoreKept /\ RequestsFit'
  <2>1. alert_rules[r].device_id \in Devices
    BY <1>3, Zenon DEF EngineRaises, LiveRules, Rule
  <2>2. StoreKept /\ UNCHANGED request
    BY <1>0, <1>3, <2>1, RaiseKeeps DEF EngineRaises, Others
  <2>3. QED
    BY <1>0, <2>2, SlotsKept, Zenon
<1>4. ASSUME NEW r \in RuleIds, EngineResolves(r) PROVE StoreKept /\ RequestsFit'
  <2>1. StoreKept /\ UNCHANGED request
    BY <1>0, <1>4, EngineResolveKeeps, Zenon DEF EngineResolves, Others
  <2>2. QED
    BY <1>0, <2>1, SlotsKept
<1>5. StoreKept /\ RequestsFit'
  BY <1>1, <1>2, <1>3, <1>4, Zenon DEF ApiStep
<1>6. QED
  BY <1>0, <1>5, PageKept DEF PageInv, StoreKept

LEMMA OtherPersonFits ==
  ASSUME PageInv, NEW op \in Transitions, NEW i \in DOMAIN alerts, NEW u \in Users,
         OtherPerson(op, i, u)
  PROVE  PageInv'
<1>1. /\ StoreTypeOK /\ UNCHANGED <<page, pageError, fetch, mine>> /\ UNCHANGED <<request, clicked>>
  BY Zenon DEF PageInv, OtherPerson, Others, pageVars
<1>2. AcknowledgeAlert(i, u, Now) \/ ResolveAlert(i, u, Now)
  BY Zenon DEF OtherPerson, Transition
<1>3. StoreKept
  BY <1>1, <1>2, TransitionKeeps, Zenon
<1>4. QED
  BY <1>1, <1>3, SlotsKept, PageKept, Zenon DEF PageInv, StoreKept

\* The page's own steps leave the tables alone.
LEMMA ClickFits ==
  ASSUME PageInv, NEW s \in Slots, NEW op \in Transitions, Click(s, op)
  PROVE  PageInv'
<1>1. PICK row \in page :
        /\ Offered(row, op)
        /\ Send(s, [op |-> op, id |-> row.id, user |-> ActingUser])
        /\ clicked' = [clicked EXCEPT ![s] = row.status]
  BY Zenon DEF Click
<1>2. /\ StoreTypeOK /\ UNCHANGED storeVars /\ UNCHANGED <<page, pageError, fetch, mine>>
      /\ page # NoData
  BY <1>1, Zenon DEF PageInv, Click, Send
<1>3. StoreKept /\ UNCHANGED alerts
  BY <1>2, SameStore DEF storeVars
<1>4. row.id \in DOMAIN alerts /\ row.id \in Nat
  BY <1>2, RowTypes, Zenon DEF PageInv, PageFits, Exist
<1>5. row.status \in Status /\ row.status \in fromStatuses(op)
  BY <1>1 DEF Offered, Status, fromStatuses, ActiveStatus
<1>6. PICK rq, was : /\ rq = [req |-> [op |-> op, id |-> row.id, user |-> ActingUser],
                              stage |-> "query", status |-> 0]
                     /\ was = row.status
  BY Zenon
<1>7. rq \in PageRequest /\ rq.req.op = op /\ rq.req.id = row.id /\ rq.stage = "query" /\ rq.status = 0
  BY <1>4, <1>6, Zenon DEF PageRequest
<1>8. Fits(rq, was)'
  BY <1>3, <1>4, <1>5, <1>6, <1>7 DEF Fits
<1>9. request' = [request EXCEPT ![s] = rq] /\ clicked' = [clicked EXCEPT ![s] = was]
  BY <1>1, <1>6 DEF Send
<1>10. RequestsFit'
  BY <1>3, <1>5, <1>6, <1>7, <1>8, <1>9, SlotStep, Zenon
<1>11. QED
  BY <1>2, <1>3, <1>10, PageKept DEF PageInv, StoreKept

LEMMA SettledFits ==
  ASSUME PageInv, StoreKept, NEW slots, Settled(slots)
  PROVE  RequestsFit'
<1>1. /\ request' = [s \in Slots |-> IF s \in slots THEN NoRequest ELSE request[s]]
      /\ clicked' = [s \in Slots |-> IF s \in slots THEN NotClicked ELSE clicked[s]]
      /\ request \in [Slots -> PageRequest \cup {NoRequest}]
      /\ clicked \in [Slots -> Status \cup {NotClicked}]
  BY Zenon DEF Settled, PageInv, RequestsFit
<1>2. /\ request' \in [Slots -> PageRequest \cup {NoRequest}]
      /\ clicked' \in [Slots -> Status \cup {NotClicked}]
  BY <1>1
<1>3. ASSUME NEW t \in Slots, request'[t] # NoRequest PROVE Fits(request[t], clicked[t])'
  <2>1. request'[t] = request[t] /\ clicked'[t] = clicked[t]
    BY <1>1, <1>3, Zenon
  <2>2. PICK r, c : r = request[t] /\ c = clicked[t]
    BY Zenon
  <2>3. Fits(r, c)'
    BY <1>1, <1>3, <2>1, <2>2, FitsStable, Zenon DEF PageInv, RequestsFit
  <2>4. QED
    BY <2>1, <2>2, <2>3, Zenon DEF Fits, Past
<1>4. QED
  BY <1>2, <1>3, Zenon DEF RequestsFit

\* An answer 200 drops the fetch under way; another answer changes no row.
LEMMA SucceedFits ==
  ASSUME PageInv, NEW s \in Slots, Succeed(s)
  PROVE  PageInv'
<1>1. /\ StoreTypeOK /\ UNCHANGED storeVars /\ UNCHANGED <<page, pageError>>
      /\ UNCHANGED <<request, clicked>> /\ request[s] # NoRequest /\ request[s].status = 200
  BY Zenon DEF PageInv, Succeed, Answered200, apiVars, storeVars
<1>2. StoreKept /\ UNCHANGED alerts
  BY <1>1, SameStore, Zenon DEF storeVars
<1>3. RequestsFit'
  BY <1>1, <1>2, SlotsKept, Zenon
<1>4. PICK op, i : op = request[s].req.op /\ i = request[s].req.id
  BY Zenon
<1>5. fetch' = NewFetch /\ mine' = mine \cup {[op |-> op, id |-> i]}
  BY <1>4, Zenon DEF Succeed, Invalidate
<1>6. request[s] \in PageRequest /\ Fits(request[s], clicked[s])
  BY <1>1, SMT, Z3 DEF PageInv, RequestsFit
<1>7. op \in Transitions /\ Past(op, i)'
  BY <1>1, <1>2, <1>4, <1>6, Zenon DEF PageRequest, Fits, Past
<1>8. \A m \in mine' : m.op \in Transitions /\ Past(m.op, m.id)'
  BY <1>2, <1>5, <1>7, SMT, Z3 DEF PageInv, PageFits, Past
<1>9. /\ fetch' \in Fetch /\ fetch' # NoFetch /\ fetch'.stage = "sent" /\ fetch'.rows = {}
  BY <1>5, NoFetchAssumption, SMT, Z3 DEF NewFetch, Fetch
<1>10. PageFits'
  BY <1>1, <1>2, <1>8, <1>9, Zenon DEF PageInv, PageFits, Exist
<1>11. QED
  BY <1>2, <1>3, <1>10, Zenon DEF PageInv, StoreKept

LEMMA FailFits ==
  ASSUME PageInv, NEW s \in Slots, Fail(s)
  PROVE  PageInv'
<1>1. /\ StoreTypeOK /\ UNCHANGED storeVars /\ UNCHANGED <<page, pageError, fetch, mine>>
      /\ Settled({s})
  BY Zenon DEF PageInv, Fail
<1>2. StoreKept
  BY <1>1, SameStore, Zenon
<1>3. QED
  BY <1>1, <1>2, SettledFits, PageKept, Zenon DEF PageInv, StoreKept

LEMMA MinOfTwo ==
  ASSUME NEW a \in Int, NEW b \in Int
  PROVE  Min({a, b}) = IF a <= b THEN a ELSE b
<1> DEFINE least == IF a <= b THEN a ELSE b
<1>1. least \in {a, b} /\ \A y \in {a, b} : least <= y
  BY SMT, Z3
<1>2. \A x \in {a, b} : (\A y \in {a, b} : x <= y) => x = least
  OBVIOUS
<1> HIDE DEF least
<1>3. Min({a, b}) = least
  BY <1>1, <1>2, Zenon DEF Min
<1>4. QED
  BY <1>3, Zenon DEF least

\* listAlerts answers with alerts of the table, also when it is cut short.
LEMMA ListedExist ==
  ASSUME StoreTypeOK, NEW q, NEW ids \in listAlerts(q), NEW part \in CutShort(ids) \cup {ids}
  PROVE  \A i \in Range(part) : i \in DOMAIN alerts
<1>1. IsFiniteSet(Matching(q)) /\ Matching(q) \subseteq DOMAIN alerts
  <2>1. Matching(q) \subseteq 1..Len(alerts) /\ Len(alerts) \in Nat
    BY SMT, Z3 DEF StoreTypeOK, Matching
  <2>2. IsFiniteSet(1..Len(alerts))
    BY <2>1, FS_Interval
  <2>3. QED
    BY <2>1, <2>2, FS_Subset, Zenon DEF Matching
<1>2. PICK s \in NewestFirst(Matching(q)), limit \in Nat, offset \in Nat :
        ids = Page(s, limit, offset)
  <2>1. /\ parseIntParam(q.limit, DefaultLimit, MaxLimit) \in Nat
        /\ parseIntParam(q.offset, 0, MaxOffset) \in Nat
    BY LimitsAssumption, Zenon DEF parseIntParam
  <2>2. QED
    BY <2>1, Zenon DEF listAlerts
<1>3. s \in Seq(Matching(q))
  BY <1>1, <1>2, InSomeOrder DEF NewestFirst
<1>4. ids \in Seq(Matching(q))
  <2>1. PICK to : to = Min({offset + limit, Len(s)})
    BY Zenon
  <2>2. to \in Nat /\ to <= Len(s)
    <3>1. offset + limit \in Int /\ Len(s) \in Int /\ Len(s) >= 0
      BY <1>2, <1>3, SMT, Z3
    <3>2. to = IF offset + limit <= Len(s) THEN offset + limit ELSE Len(s)
      BY <2>1, <3>1, MinOfTwo, Zenon
    <3>3. QED
      BY <1>2, <3>1, <3>2, SMT, Z3
  <2>3. offset + 1 \in Nat /\ offset + 1 # 0
    BY <1>2, SMT, Z3
  <2>4. QED
    BY <1>2, <1>3, <2>1, <2>2, <2>3, PartInOrder, Zenon DEF Page
<1>5. part \in Seq(Matching(q))
  <2>1. CASE part = ids
    BY <1>4, <2>1, Zenon
  <2>2. CASE \E l \in 0..Len(ids) : part = SubSeq(ids, 1, l)
    BY <1>4, <2>2, PartInOrder
  <2>3. QED
    BY <2>1, <2>2 DEF CutShort
<1>6. QED
  BY <1>1, <1>5, SMT, Z3 DEF Range

LEMMA ServeFits ==
  ASSUME PageInv, ServeAlerts
  PROVE  PageInv'
<1>1. /\ StoreTypeOK /\ UNCHANGED storeVars /\ UNCHANGED <<request, clicked>>
      /\ UNCHANGED <<page, pageError, mine>> /\ fetch # NoFetch /\ fetch \in Fetch
  BY Zenon DEF PageInv, PageFits, ServeAlerts, mutationVars
<1>2. StoreKept /\ UNCHANGED alerts
  BY <1>1, SameStore DEF storeVars
<1>3. RequestsFit'
  BY <1>1, <1>2, SlotsKept, Zenon
<1>4. \A m \in mine : m.op \in Transitions /\ Past(m.op, m.id) /\ Past(m.op, m.id)'
  BY <1>2, Zenon DEF PageInv, PageFits, Past
<1>5. CASE \E ids \in listAlerts(PageQuery) : \E part \in CutShort(ids) \cup {ids} :
             fetch' = [fetch EXCEPT !.stage = "answered", !.rows = Rows(part)]
  <2>0. PICK ids \in listAlerts(PageQuery) : \E part \in CutShort(ids) \cup {ids} :
             fetch' = [fetch EXCEPT !.stage = "answered", !.rows = Rows(part)]
    BY <1>5, Zenon
  <2>1. PICK part \in CutShort(ids) \cup {ids} :
             fetch' = [fetch EXCEPT !.stage = "answered", !.rows = Rows(part)]
    BY <2>0, Zenon
  <2>2. \A i \in Range(part) : i \in DOMAIN alerts
    BY <1>1, <2>1, ListedExist, Zenon
  <2>3. \A i \in DOMAIN alerts : i \in Nat /\ alerts[i].status \in Status
    <3>1. \A i \in DOMAIN alerts : i \in Nat /\ alerts[i] \in Alert
      BY <1>1 DEF StoreTypeOK
    <3>2. QED
      BY <3>1, Zenon DEF Alert
  <2>4. PICK rows : rows = Rows(part)
    BY Zenon
  <2>5. /\ rows \in SUBSET [id : Nat, status : Status]
        /\ \A row \in rows : row.id \in DOMAIN alerts /\ row.status = alerts[row.id].status
    BY <2>2, <2>3, <2>4, SMT, Z3 DEF Rows
  <2>6. fetch' \in Fetch /\ fetch'.rows = rows /\ fetch'.stage = "answered"
    BY <1>1, <2>1, <2>4, <2>5, Zenon DEF Fetch
  <2>7. UpToDate(rows, mine)
    BY <1>4, <2>5 DEF UpToDate, Past
  <2>8. PageFits'
    BY <1>1, <1>2, <1>4, <2>5, <2>6, <2>7, NoFetchAssumption, Zenon
       DEF PageInv, PageFits, Exist, UpToDate
  <2>9. QED
    BY <1>2, <1>3, <2>8, Zenon DEF PageInv, StoreKept
<1>6. CASE fetch' = [fetch EXCEPT !.stage = "failed"]
  <2>1. fetch' \in Fetch /\ fetch'.rows = fetch.rows /\ fetch'.stage = "failed"
    BY <1>1, <1>6 DEF Fetch
  <2>2. PageFits'
    BY <1>1, <1>2, <1>4, <2>1, NoFetchAssumption, Zenon DEF PageInv, PageFits, Exist
  <2>3. QED
    BY <1>2, <1>3, <2>2 DEF PageInv, StoreKept
<1>7. QED
  BY <1>5, <1>6, Zenon DEF ServeAlerts

\* The steps of a fetch that the tables have no part in.
LEMMA FetchFits ==
  ASSUME PageInv, Poll \/ ShowAlerts \/ FetchFails
  PROVE  PageInv'
<1>1. /\ StoreTypeOK /\ UNCHANGED storeVars /\ UNCHANGED mine
      /\ UNCHANGED <<request, clicked>> \/ Settled(refetching)
  BY Zenon DEF PageInv, Poll, ShowAlerts, FetchFails, FetchEnds, apiVars, storeVars, mutationVars
<1>2. StoreKept /\ UNCHANGED alerts
  BY <1>1, SameStore, Zenon DEF storeVars
<1>3. RequestsFit'
  BY <1>1, <1>2, SlotsKept, SettledFits, Zenon
<1>4. \A m \in mine' : m.op \in Transitions /\ Past(m.op, m.id)'
  BY <1>1, <1>2, Zenon DEF PageInv, PageFits, Past
<1>5. CASE Poll
  <2>1. /\ UNCHANGED <<page, pageError>>
        /\ fetch' \in Fetch /\ fetch' # NoFetch /\ fetch'.stage = "sent" /\ fetch'.rows = {}
    BY <1>5, NoFetchAssumption DEF Poll, NewFetch, Fetch
  <2>2. QED
    BY <1>2, <1>3, <1>4, <2>1, Zenon DEF PageInv, PageFits, Exist, StoreKept
<1>6. CASE ShowAlerts
  <2>1. /\ fetch # NoFetch /\ fetch.stage = "answered"
        /\ page' = fetch.rows /\ fetch' = NoFetch
    BY <1>6, Zenon DEF ShowAlerts, FetchEnds
  <2>2. QED
    BY <1>1, <1>2, <1>3, <1>4, <2>1, Zenon DEF PageInv, PageFits, Exist, UpToDate, StoreKept
<1>7. CASE FetchFails
  <2>1. fetch' = NoFetch /\ pageError' /\ UNCHANGED page
    BY <1>7, Zenon DEF FetchFails, FetchEnds
  <2>2. QED
    BY <1>2, <1>3, <1>4, <2>1, Zenon DEF PageInv, PageFits, Exist, StoreKept
<1>8. QED
  BY <1>5, <1>6, <1>7, Zenon

LEMMA PageStart == Init => PageInv
<1> SUFFICES ASSUME Init PROVE PageInv
  BY SMT, Z3
<1>1. StoreTypeOK
  BY InitialRulesAssumption DEF Init, ApiInit, StoreTypeOK
<1>2. RequestsFit
  BY Zenon DEF Init, ApiInit, RequestsFit
<1>3. fetch \in Fetch /\ fetch # NoFetch /\ fetch.stage = "sent" /\ fetch.rows = {}
  BY NoFetchAssumption DEF Init, NewFetch, Fetch
<1>4. PageFits
  BY <1>3, Zenon DEF Init, PageFits, Exist
<1>5. QED
  BY <1>1, <1>2, <1>4, Zenon DEF PageInv

LEMMA PagePreserved == PageInv /\ [Next]_vars => PageInv'
<1> SUFFICES ASSUME PageInv, [Next]_vars PROVE PageInv'
  OBVIOUS
<1>1. CASE UNCHANGED vars
  <2>1. /\ StoreTypeOK /\ UNCHANGED storeVars /\ UNCHANGED <<request, clicked>>
        /\ UNCHANGED <<page, pageError, fetch, mine>>
    BY <1>1, Zenon DEF PageInv, vars, storeVars
  <2>2. StoreKept
    BY <2>1, SameStore, Zenon
  <2>3. QED
    BY <2>1, <2>2, SlotsKept, PageKept, Zenon DEF PageInv, StoreKept
<1>2. CASE ApiStep /\ UNCHANGED pageVars
  BY <1>2, ApiStepFits, Zenon
<1>3. CASE \E op \in Transitions, i \in DOMAIN alerts, u \in Users : OtherPerson(op, i, u)
  BY <1>3, OtherPersonFits, Zenon
<1>4. CASE \E s \in Slots : Succeed(s) \/ Fail(s) \/ \E op \in Transitions : Click(s, op)
  BY <1>4, SucceedFits, FailFits, ClickFits, Zenon
<1>5. CASE FetchStep
  BY <1>5, ServeFits, FetchFits, Zenon DEF FetchStep
<1>6. QED
  BY <1>1, <1>2, <1>3, <1>4, <1>5, Zenon DEF Next

-----------------------------------------------------------------------------
\* AlertActions offers what the API accepts: a click is refused with 409 only
\* when the alert has changed since the page showed it, whatever other people,
\* the engine and other clicks do, and whatever fails.
THEOREM ConflictsAreRaces == Spec => []ConflictMeansRaced
<1>1. PageInv => ConflictMeansRaced
  <2> SUFFICES ASSUME PageInv, NEW s \in Slots, request[s] # NoRequest, request[s].status = 409
               PROVE  alerts[request[s].req.id].status # clicked[s]
    BY Zenon DEF ConflictMeansRaced
  <2>1. Fits(request[s], clicked[s])
    BY Zenon DEF PageInv, RequestsFit
  <2>2. QED
    BY <2>1, Zenon DEF Fits, Past
<1>2. QED
  BY <1>1, PageStart, PagePreserved, PTL DEF Spec

-----------------------------------------------------------------------------
\* The button's row.  A mutation under way that never overlapped another is alone,
\* so that busyAlertId is its own; and a row that it has outdated waits for it.
Alone(s) ==
  /\ Pending = {s}
  /\ busyAlertId = request[s].req.id

Waits(m) ==
  \E s \in refetching : request[s].req.op = m.op /\ request[s].req.id = m.id

\* A mutation that waits for its refetch was answered 200.
RefetchesDone ==
  /\ refetching \subseteq Slots
  /\ \A s \in refetching :
       request[s] # NoRequest /\ request[s].stage = "done" /\ request[s].status = 200

OthersOverlapped == \A s \in Pending \ overlapped : Alone(s)

\* The mutation whose callback frees the busy row.
Frees(s) == request[s].req.id = busyAlertId /\ observer[request[s].req.op] = s

BusyIsFreed ==
  /\ DOMAIN observer = Transitions
  /\ busyAlertId # NoAlert => \E s \in Pending : Frees(s)

StaleWaits ==
  page # NoData /\ ~pageError =>
    \A m \in mine, row \in page :
      row.id = m.id /\ row.status \in fromStatuses(m.op) => Waits(m)

BusyInv == RefetchesDone /\ OthersOverlapped /\ BusyIsFreed /\ StaleWaits

\* No request of the page begins or ends, and one that is done does not change.
RequestsRun ==
  \A s \in Slots :
    /\ request'[s] = NoRequest <=> request[s] = NoRequest
    /\ request'[s].req = request[s].req
    /\ request[s] # NoRequest /\ request[s].stage = "done" => request'[s] = request[s]

LEMMA BusyKept ==
  ASSUME BusyInv, RequestsRun,
         UNCHANGED <<page, pageError, mine, busyAlertId, observer, refetching, overlapped>>
  PROVE  BusyInv'
<1>1. /\ UNCHANGED <<page, pageError, mine>>
      /\ UNCHANGED <<busyAlertId, observer, refetching, overlapped>>
  BY Zenon
<1>2. Pending' = Pending /\ \A s \in Slots : request'[s].req = request[s].req
  BY Zenon DEF Pending, RequestsRun
<1>3. refetching \subseteq Slots /\ \A s \in refetching : request'[s] = request[s]
  BY Zenon DEF BusyInv, RefetchesDone, RequestsRun
<1>4. RefetchesDone'
  BY <1>1, <1>3, SMT, Z3 DEF BusyInv, RefetchesDone
<1>5. OthersOverlapped'
  <2> SUFFICES ASSUME NEW s \in Pending' \ overlapped' PROVE Alone(s)'
    BY Zenon DEF OthersOverlapped
  <2>1. Alone(s) /\ s \in Slots
    BY <1>1, <1>2, Zenon DEF BusyInv, OthersOverlapped, Pending
  <2>2. request'[s].req = request[s].req
    BY <1>2, <2>1, Zenon
  <2>3. QED
    BY <1>1, <1>2, <2>1, <2>2, Zenon DEF Alone
<1>6. BusyIsFreed'
  <2>1. ASSUME busyAlertId # NoAlert PROVE \E s \in Pending' : Frees(s)'
    <3>1. PICK s \in Pending : Frees(s)
      BY <2>1, Zenon DEF BusyInv, BusyIsFreed
    <3>2. request'[s].req = request[s].req
      BY <1>2, Zenon DEF Pending
    <3>3. Frees(s)'
      BY <1>1, <3>1, <3>2, Zenon DEF Frees
    <3>4. QED
      BY <1>2, <3>3, Zenon
  <2>2. QED
    BY <1>1, <2>1, Zenon DEF BusyInv, BusyIsFreed
<1>7. \A m \in mine : Waits(m) => Waits(m)'
  BY <1>1, <1>3, Zenon DEF Waits
<1>8. StaleWaits'
  BY <1>1, <1>7, SMT, Z3 DEF BusyInv, StaleWaits
<1>9. QED
  BY <1>4, <1>5, <1>6, <1>8, Zenon DEF BusyInv

\* A handler's step, in one form.
LEMMA OneRuns ==
  ASSUME PageInv, NEW s \in Slots, request[s] # NoRequest, request[s].stage # "done",
         NEW rq \in PageRequest, rq.req = request[s].req, request' = [request EXCEPT ![s] = rq]
  PROVE  RequestsRun
<1>1. request \in [Slots -> PageRequest \cup {NoRequest}]
  BY Zenon DEF PageInv, RequestsFit
<1>2. request'[s] = rq /\ \A t \in Slots \ {s} : request'[t] = request[t]
  BY <1>1, Zenon
<1>3. QED
  BY <1>2, NoRequestAssumption, Zenon DEF RequestsRun

MovesTo(s, stage) == request' = [request EXCEPT ![s].stage = stage]

LEMMA ApiStepRuns ==
  ASSUME PageInv, ApiStep
  PROVE  RequestsRun
<1>0. request \in [Slots -> PageRequest \cup {NoRequest}]
  BY Zenon DEF PageInv, RequestsFit
<1>1. ASSUME NEW s \in Slots, request[s] # NoRequest, request[s].stage # "done",
             \/ \E status \in {200, 400, 404, 409, 500} : EndsAs(s, status)
             \/ \E stage \in {"lookup", "done"} : MovesTo(s, stage)
      PROVE  RequestsRun
  <2>1. request[s] \in PageRequest
    BY <1>0, <1>1, Zenon
  <2>2. ASSUME NEW status \in {200, 400, 404, 409, 500}, EndsAs(s, status) PROVE RequestsRun
    <3>1. status \in Nat
      BY <2>2, SMT, Z3
    <3>2. PICK rq : rq = EndedWith(request[s], status)
      BY Zenon
    <3>3. rq \in PageRequest /\ rq.req = request[s].req
      BY <2>1, <3>1, <3>2, Moved
    <3>4. request' = [request EXCEPT ![s] = rq]
      BY <2>1, <2>2, <3>2, EndsInOneStep, Zenon
    <3>5. QED
      BY <1>1, <3>3, <3>4, OneRuns, Zenon
  <2>3. ASSUME NEW stage \in {"lookup", "done"}, MovesTo(s, stage) PROVE RequestsRun
    <3>1. PICK rq : rq = MovedTo(request[s], stage)
      BY Zenon
    <3>2. rq \in PageRequest /\ rq.req = request[s].req
      BY <2>1, <3>1, Moved, Zenon
    <3>3. request' = [request EXCEPT ![s] = rq]
      BY <1>0, <2>1, <2>3, <3>1, SMT, Z3 DEF MovedTo, MovesTo
    <3>4. QED
      BY <1>1, <3>2, <3>3, OneRuns, Zenon
  <2>4. QED
    BY <1>1, <2>2, <2>3, SMT, Z3
<1>2. ASSUME NEW s \in Slots, Handle(s) PROVE RequestsRun
  <2>1. request[s] # NoRequest
    BY <1>2, PageHandled, Zenon
  <2>2. PICK op \in Transitions : transitionAlert(s, op) \/ lookUpAlert(s, op)
    BY <1>2, PageHandled, Zenon
  <2>3. request[s].stage # "done"
    BY <2>2, Zenon DEF transitionAlert, lookUpAlert, Running
  <2>4. \/ \E status \in {200, 400, 404, 409, 500} : EndsAs(s, status)
        \/ MovesTo(s, "lookup")
    <3>1. CASE transitionAlert(s, op)
      <4>1. ASSUME NEW status, Reply(s, status) PROVE EndsAs(s, status)
        BY <4>1, Zenon DEF Reply, Answer, EndsAs
      <4>2. \/ Reply(s, 400) \/ Reply(s, 200) \/ Reply(s, 500)
            \/ request' = [request EXCEPT ![s].stage = "lookup"]
        BY <3>1, Zenon DEF transitionAlert
      <4>3. QED
        BY <4>1, <4>2, SMT, Z3 DEF MovesTo
    <3>2. CASE lookUpAlert(s, op)
      <4>1. ASSUME NEW status, NEW call, Answer(s, request[s].req, status, call)
            PROVE  EndsAs(s, status)
        BY <4>1, Zenon DEF Answer, EndsAs
      <4>2. \E status \in {404, 409}, call \in {"ok", "failed"} :
              Answer(s, request[s].req, status, call)
        BY <3>2, SMT, Z3 DEF lookUpAlert, Reply
      <4>3. QED
        BY <4>1, <4>2, SMT, Z3
    <3>3. QED
      BY <2>2, <3>1, <3>2, Zenon
  <2>5. QED
    BY <1>1, <2>1, <2>3, <2>4, SMT, Z3
<1>3. ASSUME NEW s \in Slots, Abandon(s) PROVE RequestsRun
  BY <1>1, <1>3, Zenon DEF Abandon, MovesTo
<1>4. ASSUME UNCHANGED request PROVE RequestsRun
  BY <1>4, Zenon DEF RequestsRun
<1>5. ASSUME NEW r \in RuleIds, EngineRaises(r) \/ EngineResolves(r) PROVE UNCHANGED request
  BY <1>5, Zenon DEF EngineRaises, EngineResolves, Others
<1>6. QED
  BY <1>2, <1>3, <1>4, <1>5, Zenon DEF ApiStep

\* A click makes the row busy, and its mutation the one whose callback will run.
LEMMA ClickBusy ==
  ASSUME PageInv, BusyInv, NEW s \in Slots, NEW op \in Transitions, Click(s, op)
  PROVE  BusyInv'
<1>1. PICK i, rq :
        /\ busyAlertId' = i /\ rq.req.id = i /\ rq.req.op = op /\ rq \in PageRequest
        /\ request[s] = NoRequest /\ request' = [request EXCEPT ![s] = rq]
  <2>1. PICK row \in page :
          /\ Send(s, [op |-> op, id |-> row.id, user |-> ActingUser])
          /\ busyAlertId' = row.id
    BY Zenon DEF Click
  <2>2. row.id \in Nat
    BY <2>1, RowTypes, Zenon DEF PageInv, PageFits, Exist, Click
  <2>3. PICK rq : rq = [req |-> [op |-> op, id |-> row.id, user |-> ActingUser],
                        stage |-> "query", status |-> 0]
    BY Zenon
  <2>4. rq \in PageRequest /\ rq.req.op = op /\ rq.req.id = row.id
    BY <2>2, <2>3, Zenon DEF PageRequest
  <2>5. QED
    BY <2>1, <2>3, <2>4, Zenon DEF Send
<1>2. request'[s] = rq /\ \A t \in Slots \ {s} : request'[t] = request[t]
  BY <1>1, Zenon DEF PageInv, RequestsFit
<1>3. Pending' = Pending \cup {s} /\ s \notin Pending
  BY <1>1, <1>2, NoRequestAssumption, Zenon DEF Pending
<1>4. /\ observer' = [observer EXCEPT ![op] = s]
      /\ overlapped' = IF Pending = {} THEN overlapped ELSE overlapped \cup Pending \cup {s}
      /\ UNCHANGED <<page, pageError, refetching, mine>>
  BY Zenon DEF Click
<1>5. BusyIsFreed'
  <2>1. DOMAIN observer' = Transitions /\ observer'[op] = s
    BY <1>4, Zenon DEF BusyInv, BusyIsFreed
  <2>2. Frees(s)'
    BY <1>1, <1>2, <2>1, Zenon DEF Frees
  <2>3. s \in Pending'
    BY <1>3, Zenon
  <2>4. QED
    BY <2>1, <2>2, <2>3, Zenon DEF BusyIsFreed
<1>6. \A t \in refetching : t \in Slots /\ request'[t] = request[t]
  BY <1>1, <1>2, Zenon DEF BusyInv, RefetchesDone
<1>7. RefetchesDone'
  BY <1>4, <1>6, SMT, Z3 DEF BusyInv, RefetchesDone
<1>8. OthersOverlapped'
  <2> SUFFICES ASSUME NEW t \in Pending' \ overlapped' PROVE Alone(t)'
    BY Zenon DEF OthersOverlapped
  <2>1. Pending = {} /\ t = s
    BY <1>3, <1>4, Zenon
  <2>2. QED
    BY <1>1, <1>2, <1>3, <2>1, Zenon DEF Alone
<1>9. \A m \in mine : Waits(m) => Waits(m)'
  BY <1>4, <1>6, Zenon DEF Waits
<1>10. StaleWaits'
  BY <1>4, <1>9, Zenon DEF BusyInv, StaleWaits
<1>11. QED
  BY <1>5, <1>7, <1>8, <1>10, Zenon DEF BusyInv

\* Mutations that settle: the busy row is freed, or its callback is still to come.
LEMMA SettledBusy ==
  ASSUME PageInv, BusyInv, NEW slots \in SUBSET Pending, Settled(slots)
  PROVE  OthersOverlapped' /\ BusyIsFreed'
<1>1. /\ request' = [s \in Slots |-> IF s \in slots THEN NoRequest ELSE request[s]]
      /\ busyAlertId' = IF \E op \in Transitions : observer[op] \in slots
                          THEN NoAlert ELSE busyAlertId
      /\ observer' = [op \in Transitions |-> IF observer[op] \in slots THEN NoSlot ELSE observer[op]]
      /\ overlapped' = overlapped \ slots
  BY Zenon DEF Settled
<1>2. Pending' = Pending \ slots /\ \A s \in Pending \ slots : request'[s] = request[s]
  BY <1>1, Zenon DEF Pending
<1>3. OthersOverlapped'
  <2> SUFFICES ASSUME NEW s \in Pending' \ overlapped' PROVE Alone(s)'
    BY Zenon DEF OthersOverlapped
  <2>1. s \in Pending \ overlapped /\ s \notin slots
    BY <1>1, <1>2, Zenon
  <2>2. Pending = {s} /\ busyAlertId = request[s].req.id
    BY <2>1, Zenon DEF BusyInv, OthersOverlapped, Alone
  <2>3. slots = {}
    BY <2>1, <2>2, Zenon
  <2>4. busyAlertId' = busyAlertId
    BY <1>1, <2>3, Zenon
  <2>5. Pending' = {s} /\ request'[s] = request[s]
    BY <1>2, <2>1, <2>2, <2>3, Zenon
  <2>6. QED
    BY <2>2, <2>4, <2>5, Zenon DEF Alone
<1>4. ASSUME busyAlertId' # NoAlert PROVE \E s \in Pending' : Frees(s)'
  <2>1. busyAlertId' = busyAlertId /\ \A op \in Transitions : observer[op] \notin slots
    BY <1>1, <1>4, Zenon
  <2>2. PICK s \in Pending : Frees(s)
    BY <1>4, <2>1, Zenon DEF BusyInv, BusyIsFreed
  <2>3. request[s] \in PageRequest
    BY <2>2, Zenon DEF PageInv, RequestsFit, Pending
  <2>4. PICK op \in Transitions : op = request[s].req.op
    BY <2>3, Zenon DEF PageRequest
  <2>5. s \notin slots /\ observer'[op] = s
    BY <1>1, <2>1, <2>2, <2>4, Zenon DEF Frees
  <2>6. s \in Pending' /\ request'[s] = request[s]
    BY <1>2, <2>2, <2>5, Zenon
  <2>7. Frees(s)'
    BY <2>1, <2>2, <2>4, <2>5, <2>6, Zenon DEF Frees
  <2>8. QED
    BY <2>6, <2>7, Zenon
<1>5. BusyIsFreed'
  BY <1>1, <1>4, Zenon DEF BusyIsFreed
<1>6. QED
  BY <1>3, <1>5, Zenon

LEMMA SucceedBusy ==
  ASSUME BusyInv, NEW s \in Slots, Succeed(s)
  PROVE  BusyInv'
<1>1. PICK m : m = [op |-> request[s].req.op, id |-> request[s].req.id]
  BY Zenon
<1>2. /\ UNCHANGED <<request, page, pageError, busyAlertId, observer, overlapped>>
      /\ refetching' = refetching \cup {s} /\ mine' = mine \cup {m}
      /\ request[s] # NoRequest /\ request[s].stage = "done" /\ request[s].status = 200
  BY <1>1, Zenon DEF Succeed, Answered200, apiVars
<1>3. OthersOverlapped' /\ BusyIsFreed'
  BY <1>2, SMT, Z3 DEF BusyInv, OthersOverlapped, BusyIsFreed, Frees, Pending, Alone
<1>4. RefetchesDone'
  <2>1. refetching' \subseteq Slots
    BY <1>2, SMT, Z3 DEF BusyInv, RefetchesDone
  <2>2. ASSUME NEW t \in refetching'
        PROVE  request'[t] # NoRequest /\ request'[t].stage = "done" /\ request'[t].status = 200
    <3>1. t \in refetching \/ t = s
      BY <1>2, Zenon
    <3>2. QED
      BY <1>2, <3>1, Zenon DEF BusyInv, RefetchesDone
  <2>3. QED
    BY <2>1, <2>2, Zenon DEF RefetchesDone
<1>5. \A n : Waits(n) => Waits(n)'
  BY <1>2, Zenon DEF Waits
<1>6. Waits(m)'
  BY <1>1, <1>2, Zenon DEF Waits
<1>7. StaleWaits'
  <2> SUFFICES ASSUME page # NoData, ~pageError, NEW n \in mine', NEW row \in page,
                      row.id = n.id, row.status \in fromStatuses(n.op)
               PROVE  Waits(n)'
    BY <1>2, SMT, Z3 DEF StaleWaits
  <2>1. n \in mine \/ n = m
    BY <1>2, Zenon
  <2>2. n \in mine => Waits(n)
    BY Zenon DEF BusyInv, StaleWaits
  <2>3. QED
    BY <1>5, <1>6, <2>1, <2>2, Zenon
<1>8. QED
  BY <1>3, <1>4, <1>7, Zenon DEF BusyInv

LEMMA FailBusy ==
  ASSUME PageInv, BusyInv, NEW s \in Slots, Fail(s)
  PROVE  BusyInv'
<1>1. /\ request[s] # NoRequest /\ request[s].status # 200 /\ Settled({s})
      /\ UNCHANGED <<page, pageError, refetching, mine>>
  BY Zenon DEF Fail
<1>2. {s} \in SUBSET Pending
  BY <1>1, Zenon DEF Pending
<1>3. OthersOverlapped' /\ BusyIsFreed'
  BY <1>1, <1>2, SettledBusy, Zenon
<1>4. ASSUME NEW t \in refetching PROVE t \in Slots /\ request'[t] = request[t]
  <2>1. t \in Slots /\ request[t].status = 200
    BY Zenon DEF BusyInv, RefetchesDone
  <2>2. t # s
    BY <1>1, <2>1, Zenon
  <2>3. QED
    BY <1>1, <2>1, <2>2, Zenon DEF Settled
<1>5. RefetchesDone'
  BY <1>1, <1>4, SMT, Z3 DEF BusyInv, RefetchesDone
<1>6. \A m : Waits(m) => Waits(m)'
  BY <1>1, <1>4, Zenon DEF Waits
<1>7. StaleWaits'
  BY <1>1, <1>6, Zenon DEF BusyInv, StaleWaits
<1>8. QED
  BY <1>3, <1>5, <1>7, Zenon DEF BusyInv

\* The fetch ends: no row is out of date any more, or the table is not shown.
LEMMA FetchEndsBusy ==
  ASSUME PageInv, BusyInv, ShowAlerts \/ FetchFails
  PROVE  BusyInv'
<1>1. /\ Settled(refetching) /\ refetching' = {} /\ mine' = mine
      /\ pageError' \/ UpToDate(page', mine)
  BY Zenon DEF ShowAlerts, FetchFails, FetchEnds, PageInv, PageFits
<1>2. refetching \in SUBSET Pending
  BY Zenon DEF BusyInv, RefetchesDone, Pending
<1>3. OthersOverlapped' /\ BusyIsFreed'
  BY <1>1, <1>2, SettledBusy, Zenon
<1>4. RefetchesDone'
  BY <1>1, Zenon DEF RefetchesDone
<1>5. StaleWaits'
  BY <1>1, Zenon DEF UpToDate, StaleWaits
<1>6. QED
  BY <1>3, <1>4, <1>5, Zenon DEF BusyInv

LEMMA BusyStart == Init => BusyInv
<1> SUFFICES ASSUME Init PROVE BusyInv
  BY Zenon
<1>1. /\ request = [s \in Slots |-> NoRequest] /\ observer = [op \in Transitions |-> NoSlot]
      /\ refetching = {} /\ page = NoData /\ busyAlertId = NoAlert
  BY Zenon DEF Init, ApiInit
<1>2. Pending = {}
  BY <1>1, Zenon DEF Pending
<1>3. QED
  BY <1>1, <1>2, Zenon DEF BusyInv, RefetchesDone, OthersOverlapped, BusyIsFreed, StaleWaits

LEMMA BusyPreserved == PageInv /\ BusyInv /\ [Next]_vars => BusyInv'
<1> SUFFICES ASSUME PageInv, BusyInv, [Next]_vars PROVE BusyInv'
  BY Zenon
<1>1. ASSUME UNCHANGED request PROVE RequestsRun
  BY <1>1, Zenon DEF RequestsRun
<1>2. CASE UNCHANGED vars
  BY <1>1, <1>2, BusyKept, Zenon DEF vars
<1>3. CASE ApiStep /\ UNCHANGED pageVars
  BY <1>3, ApiStepRuns, BusyKept, Zenon DEF pageVars
<1>4. ASSUME NEW op \in Transitions, NEW i \in DOMAIN alerts, NEW u \in Users, OtherPerson(op, i, u)
      PROVE  BusyInv'
  BY <1>1, <1>4, BusyKept, Zenon DEF OtherPerson, Others, pageVars
<1>5. ASSUME NEW s \in Slots, Succeed(s) \/ Fail(s) \/ \E op \in Transitions : Click(s, op)
      PROVE  BusyInv'
  BY <1>5, SucceedBusy, FailBusy, ClickBusy, Zenon
<1>6. CASE Poll \/ ServeAlerts
  <2>1. UNCHANGED <<page, pageError, mine, busyAlertId, observer, refetching, overlapped>>
        /\ UNCHANGED request
    BY <1>6, Zenon DEF Poll, ServeAlerts, apiVars, mutationVars
  <2>2. QED
    BY <1>1, <2>1, BusyKept, Zenon
<1>7. CASE ShowAlerts \/ FetchFails
  BY <1>7, FetchEndsBusy, Zenon
<1>8. QED
  BY <1>2, <1>3, <1>4, <1>5, <1>6, <1>7, Zenon DEF Next, FetchStep

LEMMA BusyInvariant == Spec => [](PageInv /\ BusyInv)
<1>1. Init => PageInv /\ BusyInv
  BY PageStart, BusyStart, Zenon
<1>2. (PageInv /\ BusyInv) /\ [Next]_vars => (PageInv /\ BusyInv)'
  BY PagePreserved, BusyPreserved, Zenon
<1>3. QED
  BY <1>1, <1>2, PTL DEF Spec

\* useAlertMutations: a row that the page's own transition has outdated is shown
\* only while that mutation waits for its refetch, and then as disabled unless
\* mutations overlapped, whatever polls were under way when the answers came.
THEOREM OwnActionsAreShown == Spec => []OwnActionsShow
<1>1. PageInv /\ BusyInv => OwnActionsShow
  <2> SUFFICES ASSUME BusyInv, page # NoData, ~pageError, NEW m \in mine, NEW row \in page,
                      row.id = m.id, row.status \in fromStatuses(m.op)
               PROVE  \E s \in refetching :
                        /\ request[s].req.op = m.op /\ request[s].req.id = m.id
                        /\ s \in overlapped \/ busyAlertId = m.id
    BY Zenon DEF OwnActionsShow
  <2>1. PICK s \in refetching : request[s].req.op = m.op /\ request[s].req.id = m.id
    BY Zenon DEF BusyInv, StaleWaits, Waits
  <2>2. s \in Pending
    BY Zenon DEF BusyInv, RefetchesDone, Pending
  <2>3. s \in overlapped \/ busyAlertId = request[s].req.id
    BY <2>2, Zenon DEF BusyInv, OthersOverlapped, Alone
  <2>4. QED
    BY <2>1, <2>3, Zenon
<1>2. QED
  BY <1>1, BusyInvariant, PTL

\* runMutation: however clicks, answers, refetches and failures interleave, the busy
\* row has a mutation under way whose callback will free it, and a mutation that
\* overlapped no other keeps its row busy until it settles.
THEOREM BusyRowsAreFreed == Spec => []BusyUntilSettled
<1>1. PageInv /\ BusyInv => BusyUntilSettled
  BY Zenon DEF BusyInv, OthersOverlapped, BusyIsFreed, Frees, Alone, BusyUntilSettled
<1>2. QED
  BY <1>1, BusyInvariant, PTL
=============================================================================
