-------------------------------- MODULE Api ---------------------------------
(***************************************************************************)
(* The API service (api/alerts.go, alert_rules.go, devices.go, main.go):   *)
(* every request that writes, and the lookup of one device.  A handler is  *)
(* one step per database call, so requests and the ingestion service's     *)
(* statements interleave between the UPDATE of transitionAlert and the     *)
(* lookup that chooses between 404 and 409.                                *)
(*                                                                         *)
(* answers is a history variable: the answers with a recorded status, and  *)
(* whether a database call of their request had failed.                    *)
(***************************************************************************)
EXTENDS ApiReads

CONSTANTS Slots,             \* requests that may be open at a time
          UnknownId,         \* a well-formed id that no row has
          BadId,             \* a path segment or a user_id that is no UUID
          Stranger,          \* a user_id that no user has
          NoBody,            \* a body that does not decode
          NoRequest,
          Recorded,          \* statuses of the answers kept in the history
          InitialRules,
          MaxRequests, MaxFaults, MaxLostReplies,
          MaxOthers          \* statements of others: the engine, and people elsewhere

ASSUME IdsAssumption == /\ UnknownId \notin Nat /\ BadId \notin Nat
                        /\ {UnknownId, BadId} \cap (RuleIds \cup Devices) = {}
ASSUME InitialRulesAssumption == InitialRules \in [RuleIds -> Rule \cup {NoRule}]

VARIABLES request, answers, used

storeVars == <<alert_rules, alerts>>
apiVars == <<alert_rules, alerts, request, answers, used>>

\* The time of a write, which no property tells apart.
Now == 0

Transitions == {"acknowledge", "resolve"}

\* transitionSpec.fromStatuses.
fromStatuses(op) == IF op = "acknowledge" THEN {"open"} ELSE ActiveStatus

ApiInit ==
  /\ alert_rules = InitialRules
  /\ alerts = <<>>
  /\ request = [s \in Slots |-> NoRequest]
  /\ answers = <<>>
  /\ used = [requests |-> 0, faults |-> 0, lost |-> 0, others |-> 0]

-----------------------------------------------------------------------------
\* A database call succeeds, fails, or takes effect although its reply is lost.
CallSucceeds == UNCHANGED used

CallFails == /\ used.faults < MaxFaults
             /\ used' = [used EXCEPT !.faults = @ + 1]

ReplyLost == /\ used.lost < MaxLostReplies
             /\ used' = [used EXCEPT !.lost = @ + 1]

\* A client sends a request on a free slot.
Send(s, req) ==
  /\ request[s] = NoRequest
  /\ used.requests < MaxRequests
  /\ used' = [used EXCEPT !.requests = @ + 1]
  /\ request' = [request EXCEPT ![s] = [req |-> req, stage |-> "query", status |-> 0]]
  /\ UNCHANGED <<storeVars, answers>>

Running(s, op, stage) ==
  request[s] # NoRequest /\ request[s].req.op = op /\ request[s].stage = stage

\* writeJSON and writeError.
Answer(s, req, status, call) ==
  /\ request' = [request EXCEPT ![s].stage = "done", ![s].status = status]
  /\ answers' = IF status \in Recorded
                  THEN Append(answers, [req |-> req, status |-> status, call |-> call])
                  ELSE answers

Reply(s, status) == Answer(s, request[s].req, status, "ok")

\* main() returns as soon as Shutdown has closed the listeners, and a process may
\* crash: an open request ends without an answer.
Abandon(s) ==
  /\ request[s] # NoRequest /\ request[s].stage # "done"
  /\ request' = [request EXCEPT ![s].stage = "done"]
  /\ UNCHANGED <<storeVars, answers, used>>

\* The client has read the answer, or seen the connection close.
Release(s) ==
  /\ request[s] # NoRequest /\ request[s].stage = "done"
  /\ request' = [request EXCEPT ![s] = NoRequest]

-----------------------------------------------------------------------------
\* transitionAlert, with the UPDATE of acknowledgeAlert and of resolveAlert.
Transition(req) ==
  \/ req.op = "acknowledge" /\ AcknowledgeAlert(req.id, req.user, Now)
  \/ req.op = "resolve" /\ ResolveAlert(req.id, req.user, Now)

RowMatches(req) == req.id \in DOMAIN alerts /\ alerts[req.id].status \in fromStatuses(req.op)

\* The UPDATE is refused: an id is no UUID, or the foreign key on the user.
UpdateErrors(req) == BadId \in {req.id, req.user} \/ (RowMatches(req) /\ req.user \notin Users)

transitionAlert(s, op) ==
  LET req == request[s].req
      applies == RowMatches(req) /\ ~UpdateErrors(req)
  IN  /\ Running(s, op, "query")
      /\ \/ /\ req.user = NoUser
            /\ Reply(s, 400)
            /\ UNCHANGED <<storeVars, used>>
         \/ /\ req.user # NoUser /\ applies
            /\ CallSucceeds
            /\ Transition(req)
            /\ Reply(s, 200)
         \/ /\ req.user # NoUser /\ applies
            /\ ReplyLost
            /\ Transition(req)
            /\ Reply(s, 500)
         \/ /\ req.user # NoUser
            /\ CallFails \/ (UpdateErrors(req) /\ CallSucceeds)
            /\ Reply(s, 500)
            /\ UNCHANGED storeVars
         \/ /\ req.user # NoUser /\ ~RowMatches(req) /\ ~UpdateErrors(req)
            /\ CallSucceeds
            /\ request' = [request EXCEPT ![s].stage = "lookup"]
            /\ UNCHANGED <<storeVars, answers>>

\* Mutant: the answer to a repeated request is that of the first.
lookUpSigned(s, op) ==
  LET req == request[s].req
      signed == /\ req.id \in DOMAIN alerts
                /\ req.user \in {alerts[req.id].acknowledged_by, alerts[req.id].resolved_by}
  IN  /\ Running(s, op, "lookup")
      /\ CallSucceeds
      /\ Reply(s, IF signed THEN 200 ELSE IF req.id \in DOMAIN alerts THEN 409 ELSE 404)
      /\ UNCHANGED storeVars

\* SELECT true: its error is ignored, so a failed lookup is a missing alert.
lookUpAlert(s, op) ==
  LET req == request[s].req
  IN  /\ Running(s, op, "lookup")
      /\ \/ /\ CallSucceeds
            /\ Reply(s, IF req.id \in DOMAIN alerts THEN 409 ELSE 404)
         \/ CallFails /\ Answer(s, req, 404, "failed")
      /\ UNCHANGED storeVars

-----------------------------------------------------------------------------
\* createAlertRule: every error of the INSERT is a 400, also of one that was
\* executed.
createAlertRule(s) ==
  LET req == request[s].req
      valid == /\ req.body # NoBody
               /\ req.body.metric # ""
               /\ req.body.operator # ""
      Inserted(r) == InsertRule(r, req.device, req.body)
  IN  /\ Running(s, "create", "query")
      /\ \/ /\ valid /\ req.device \in Devices
            /\ \E r \in RuleIds :
                 /\ Inserted(r)
                 /\ \/ CallSucceeds /\ Answer(s, [req EXCEPT !.id = r], 201, "ok")
                    \/ ReplyLost /\ Reply(s, 400)
         \/ /\ ~valid
            /\ Reply(s, 400)
            /\ UNCHANGED <<storeVars, used>>
         \/ /\ valid
            /\ \/ CallFails
               \/ /\ req.device \notin Devices \/ req.body.operator \notin Operators
                  /\ CallSucceeds
            /\ Reply(s, 400)
            /\ UNCHANGED storeVars

\* updateAlertRule: only the CHECK constraints validate the body.
updateAlertRule(s) ==
  LET req == request[s].req
  IN  /\ Running(s, "update", "query")
      /\ \/ /\ req.body = NoBody
            /\ Reply(s, 400)
            /\ UNCHANGED <<storeVars, used>>
         \/ /\ req.body # NoBody /\ req.id \in LiveRules
            /\ UpdateRule(req.id, req.body)
            /\ (CallSucceeds /\ Reply(s, 200)) \/ (ReplyLost /\ Reply(s, 400))
         \/ /\ req.body # NoBody /\ req.id \notin LiveRules \cup {BadId}
            /\ CallSucceeds
            /\ Reply(s, 404)
            /\ UNCHANGED storeVars
         \/ /\ req.body # NoBody
            /\ \/ CallFails
               \/ /\ \/ req.id = BadId
                     \/ req.id \in LiveRules /\ req.body.operator \notin Operators
                  /\ CallSucceeds
            /\ Reply(s, 400)
            /\ UNCHANGED storeVars

\* deleteAlertRule: the foreign key of alerts refuses a rule that has any.
Referenced(r) == \E i \in DOMAIN alerts : alerts[i].alert_rule_id = r

deleteAlertRule(s) ==
  LET req == request[s].req
  IN  /\ Running(s, "delete", "query")
      /\ \/ /\ req.id \in LiveRules
            /\ DeleteRule(req.id)
            /\ (CallSucceeds /\ Reply(s, 204)) \/ (ReplyLost /\ Reply(s, 500))
         \/ /\ req.id \in LiveRules /\ Referenced(req.id)
            /\ CallSucceeds
            /\ Reply(s, 409)
            /\ UNCHANGED storeVars
         \/ /\ req.id \notin LiveRules \cup {BadId}
            /\ CallSucceeds
            /\ Reply(s, 404)
            /\ UNCHANGED storeVars
         \/ /\ CallFails \/ (req.id = BadId /\ CallSucceeds)
            /\ Reply(s, 500)
            /\ UNCHANGED storeVars

\* getDevice: every error is a missing device.
getDevice(s) ==
  LET req == request[s].req
  IN  /\ Running(s, "device", "query")
      /\ \/ CallSucceeds /\ Reply(s, IF req.id \in Devices THEN 200 ELSE 404)
         \/ CallFails /\ Answer(s, req, 404, "failed")
      /\ UNCHANGED storeVars

Handle(s) ==
  \/ \E op \in Transitions : transitionAlert(s, op) \/ lookUpAlert(s, op)
  \/ createAlertRule(s) \/ updateAlertRule(s) \/ deleteAlertRule(s) \/ getDevice(s)

-----------------------------------------------------------------------------
\* The ingestion service's statements, at the times of its choosing.
Others == /\ used.others < MaxOthers
          /\ used' = [used EXCEPT !.others = @ + 1]
          /\ UNCHANGED <<request, answers>>

EngineRaises(r) ==
  /\ r \in LiveRules
  /\ InsertAlert(r, alert_rules[r].device_id, Now)
  /\ Others

EngineResolves(r) == AutoResolveAlerts(r, Now) /\ Others

\* What clients may ask for.
Requests ==
  [op : Transitions, id : DOMAIN alerts \cup {UnknownId, BadId},
   user : Users \cup {Stranger, NoUser, BadId}]
  \cup [op : {"create"}, id : {UnknownId}, device : Devices \cup {UnknownId},
        body : RuleInputs \cup {NoBody}]
  \cup [op : {"update"}, id : {r \in RuleIds : alert_rules[r] # NoRule} \cup {UnknownId, BadId},
        body : RuleInputs \cup {NoBody}]
  \cup [op : {"delete"}, id : {r \in RuleIds : alert_rules[r] # NoRule} \cup {UnknownId, BadId}]
  \cup [op : {"device"}, id : Devices \cup {UnknownId, BadId}]

ApiStep ==
  \/ \E s \in Slots : Handle(s) \/ Abandon(s)
  \/ \E r \in RuleIds : EngineRaises(r) \/ EngineResolves(r)

ApiNext ==
  \/ ApiStep
  \/ \E s \in Slots : \E req \in Requests : Send(s, req)
  \/ \E s \in Slots : Release(s) /\ UNCHANGED <<storeVars, answers, used>>

ApiSpec == ApiInit /\ [][ApiNext]_apiVars

-----------------------------------------------------------------------------
\* What an answer told its client, read against the tables of a later moment.
AnswerHolds(a) ==
  LET req == a.req
  IN  /\ req.op \in Transitions /\ a.status \in {200, 409}
           => /\ req.id \in DOMAIN alerts
              /\ alerts[req.id].status \notin fromStatuses(req.op)
      /\ req.op = "acknowledge" /\ a.status = 200 => alerts[req.id].acknowledged_by = req.user
      /\ req.op = "resolve" /\ a.status = 200 => alerts[req.id].resolved_by = req.user
      /\ req.op = "create" /\ a.status = 201 => alert_rules[req.id] # NoRule
      /\ req.op = "delete" /\ a.status = 409 => req.id \in LiveRules
      /\ req.op = "delete" /\ a.status = 204 => alert_rules[req.id] = DroppedRule
      /\ req.op \in {"update", "delete"} /\ a.status = 404
           => req.id = UnknownId \/ alert_rules[req.id] = DroppedRule
      /\ req.op \in Transitions \cup {"device"} /\ a.status = 404
           => a.call = "failed" \/ req.id \in {UnknownId, BadId}

\* An answer stays true for ever, whatever other requests and the engine do
\* afterwards: who acknowledged or resolved an alert is not overwritten, a
\* conflict does not go away, a deleted rule does not come back and one that
\* could not be deleted is still there.  Only a 404 after a failed call of its
\* own request may be wrong.
AnswersStayTrue == \A k \in DOMAIN answers : AnswerHolds(answers[k])

\* transitionAlert: concurrent requests cannot both succeed against the same
\* alert, whatever is retried, lost or abandoned.
OneWinner ==
  \A j, k \in DOMAIN answers :
    /\ answers[j].req.op \in Transitions
    /\ answers[j].req.op = answers[k].req.op /\ answers[j].req.id = answers[k].req.id
    /\ answers[j].status = 200 /\ answers[k].status = 200
    => j = k
=============================================================================
