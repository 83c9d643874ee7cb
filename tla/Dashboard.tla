----------------------------- MODULE Dashboard ------------------------------
(***************************************************************************)
(* The alerts page of the dashboard (frontend/src) on top of the API: a    *)
(* page of cached rows that is polled, and buttons that send transitions.  *)
(* The requests of Api are the page's; others act on the tables meanwhile. *)
(*                                                                         *)
(* @tanstack/react-query is outside the repository and modelled from how   *)
(* the hooks use it: one fetch of a query at a time, of whose attempts     *)
(* only the last counts; invalidateQueries drops the fetch under way and   *)
(* starts another, and its promise ends with the fetch that is then the    *)
(* latest; a mutation is not repeated, it settles after the promise that   *)
(* its onSuccess returns, and the callback given to mutate() is kept for   *)
(* the latest call of its hook only.                                       *)
(*                                                                         *)
(* clicked, overlapped and mine are history variables.                     *)
(***************************************************************************)
EXTENDS Api

CONSTANTS ActingUser,   \* ACTING_USER_ID
          PageQuery,    \* the filters of the page
          NoFetch, NoData, NoAlert, NoSlot, NotClicked

\* A fetch of GET /alerts, with the rows of its answer.
Fetch == [stage : {"sent", "answered", "failed"}, rows : SUBSET [id : Nat, status : Status]]

\* A transition that a button sends.
PageRequest ==
  [req : [op : Transitions, id : Nat, user : {ActingUser}],
   stage : {"query", "lookup", "done"}, status : Nat]

ASSUME NoFetchAssumption == NoFetch \notin Fetch
ASSUME NoRequestAssumption == NoRequest \notin PageRequest

VARIABLES page,       \* the rows in the query cache
          pageError,  \* alerts.isError
          fetch,      \* the fetch under way
          busyAlertId,
          observer,   \* per hook: the slot of its latest mutation
          refetching, \* slots whose onSuccess waits for the fetch
          clicked,    \* history: per slot, the status the button was shown for
          overlapped, \* history: slots that shared busyAlertId with another
          mine        \* history: transitions of this page that were answered 200

pageVars == <<page, pageError, fetch, busyAlertId, observer, refetching, clicked,
              overlapped, mine>>
vars == <<alert_rules, alerts, request, answers, used, page, pageError, fetch,
          busyAlertId, observer, refetching, clicked, overlapped, mine>>
mutationVars == <<busyAlertId, observer, refetching, clicked, overlapped, mine>>

NewFetch == [stage |-> "sent", rows |-> {}]

Init ==
  /\ ApiInit
  /\ page = NoData
  /\ pageError = FALSE
  /\ fetch = NewFetch
  /\ busyAlertId = NoAlert
  /\ observer = [op \in Transitions |-> NoSlot]
  /\ refetching = {}
  /\ clicked = [s \in Slots |-> NotClicked]
  /\ overlapped = {}
  /\ mine = {}

-----------------------------------------------------------------------------
\* useAlerts: refetchInterval, and the fetch it starts.
Poll ==
  /\ fetch = NoFetch
  /\ fetch' = NewFetch
  /\ UNCHANGED <<apiVars, page, pageError, mutationVars>>

Rows(ids) == {[id |-> i, status |-> alerts[i].status] : i \in Range(ids)}

\* listAlerts runs, is cut short, or fails.
ServeAlerts ==
  /\ fetch # NoFetch /\ fetch.stage = "sent"
  /\ \E ids \in listAlerts(PageQuery) :
       \/ /\ CallSucceeds
          /\ fetch' = [fetch EXCEPT !.stage = "answered", !.rows = Rows(ids)]
       \/ /\ CallFails
          /\ \E part \in CutShort(ids) :
               fetch' = [fetch EXCEPT !.stage = "answered", !.rows = Rows(part)]
       \/ /\ CallFails
          /\ fetch' = [fetch EXCEPT !.stage = "failed"]
  /\ UNCHANGED <<storeVars, request, answers, page, pageError, mutationVars>>

\* Mutations settle: the callback of a hook's latest one re-enables the row that
\* is busy by then.
Settled(slots) ==
  /\ request' = [s \in Slots |-> IF s \in slots THEN NoRequest ELSE request[s]]
  /\ busyAlertId' = IF \E op \in Transitions : observer[op] \in slots
                      THEN NoAlert ELSE busyAlertId
  /\ observer' = [op \in Transitions |-> IF observer[op] \in slots THEN NoSlot ELSE observer[op]]
  /\ clicked' = [s \in Slots |-> IF s \in slots THEN NotClicked ELSE clicked[s]]
  /\ overlapped' = overlapped \ slots

\* The fetch ends, and with it the mutations that waited for it.
FetchEnds ==
  /\ fetch' = NoFetch
  /\ Settled(refetching)
  /\ refetching' = {}
  /\ UNCHANGED <<storeVars, answers, used, mine>>

\* A successful fetch replaces the rows and clears the error.
\* (Mutant: the error stays until the page is reloaded.)
ShowUnderError ==
  /\ fetch # NoFetch /\ fetch.stage = "answered"
  /\ page' = fetch.rows
  /\ FetchEnds
  /\ UNCHANGED pageError

ShowAlerts ==
  /\ fetch # NoFetch /\ fetch.stage = "answered"
  /\ page' = fetch.rows
  /\ pageError' = FALSE
  /\ FetchEnds

FetchFails ==
  /\ fetch # NoFetch /\ fetch.stage = "failed"
  /\ pageError' = TRUE
  /\ FetchEnds
  /\ UNCHANGED page

-----------------------------------------------------------------------------
\* AlertActions: the buttons of a row.
\* (Mutant: Acknowledge is shown for an acknowledged alert, too.)
OfferedTwice(row, op) == row.status \in ActiveStatus

Offered(row, op) ==
  \/ op = "acknowledge" /\ row.status = "open"
  \/ op = "resolve" /\ (row.status = "open" \/ row.status = "acknowledged")

\* Which of the free slots a request takes makes no difference.
FreeSlot(s) ==
  /\ request[s] = NoRequest
  /\ s = CHOOSE t \in Slots : request[t] = NoRequest

Pending == {s \in Slots : request[s] # NoRequest}

\* runMutation.  The table is there unless the query is pending or in error.
Click(s, op) ==
  /\ FreeSlot(s)
  /\ page # NoData /\ ~pageError
  /\ \E row \in page :
       /\ Offered(row, op)
       /\ busyAlertId # row.id
       /\ Send(s, [op |-> op, id |-> row.id, user |-> ActingUser])
       /\ busyAlertId' = row.id
       /\ clicked' = [clicked EXCEPT ![s] = row.status]
  /\ observer' = [observer EXCEPT ![op] = s]
  /\ overlapped' = IF Pending = {} THEN overlapped ELSE overlapped \cup Pending \cup {s}
  /\ UNCHANGED <<page, pageError, fetch, refetching, mine>>

\* invalidateQueries in onSuccess.
\* (Mutant: it waits for the fetch under way instead of starting another.)
JoinFetch == fetch' = IF fetch = NoFetch THEN NewFetch ELSE fetch

Invalidate == fetch' = NewFetch

Answered200(s) ==
  /\ request[s] # NoRequest /\ request[s].stage = "done" /\ request[s].status = 200
  /\ s \notin refetching

\* The answer is back: onSuccess returns the promise of the refetch.
Succeed(s) ==
  LET req == request[s].req
  IN  /\ Answered200(s)
      /\ Invalidate
      /\ mine' = mine \cup {[op |-> req.op, id |-> req.id]}
      /\ refetching' = refetching \cup {s}
      /\ UNCHANGED <<apiVars, page, pageError, busyAlertId, observer, clicked, overlapped>>

\* An error settles the mutation at once.
\* (Mutant: the callback is onSuccess, not onSettled.)
FailQuietly(s) ==
  /\ request[s] # NoRequest /\ request[s].stage = "done" /\ request[s].status # 200
  /\ request' = [request EXCEPT ![s] = NoRequest]
  /\ observer' = [op \in Transitions |-> IF observer[op] = s THEN NoSlot ELSE observer[op]]
  /\ clicked' = [clicked EXCEPT ![s] = NotClicked]
  /\ overlapped' = overlapped \ {s}
  /\ UNCHANGED <<storeVars, answers, used, page, pageError, fetch, busyAlertId, refetching, mine>>

Fail(s) ==
  /\ request[s] # NoRequest /\ request[s].stage = "done" /\ request[s].status # 200
  /\ Settled({s})
  /\ UNCHANGED <<storeVars, answers, used, page, pageError, fetch, refetching, mine>>

-----------------------------------------------------------------------------
\* Someone else's request: one statement as far as the tables go.
OtherPerson(op, i, u) ==
  /\ Transition([op |-> op, id |-> i, user |-> u])
  /\ Others
  /\ UNCHANGED pageVars

FetchStep == Poll \/ ServeAlerts \/ ShowAlerts \/ FetchFails

Next ==
  \/ ApiStep /\ UNCHANGED pageVars
  \/ \E op \in Transitions, i \in DOMAIN alerts, u \in Users : OtherPerson(op, i, u)
  \/ \E s \in Slots : Succeed(s) \/ Fail(s) \/ \E op \in Transitions : Click(s, op)
  \/ FetchStep

Spec == Init /\ [][Next]_vars

\* The page is open and visible, so that its interval timer runs, and a fetch ends
\* with an answer or an error.  Nothing is assumed of the user, of the engine or of
\* the requests that the buttons send.
FairSpec == Spec /\ WF_vars(FetchStep)

-----------------------------------------------------------------------------
\* AlertActions offers what the API accepts: a click is refused with 409 only
\* when someone has changed the alert since the page read it.
ConflictMeansRaced ==
  \A s \in Slots :
    request[s] # NoRequest /\ request[s].stage = "done" /\ request[s].status = 409
      => alerts[request[s].req.id].status # clicked[s]

\* useAlertMutations refetches instead of patching the cache: a row that the page's
\* own transition has outdated is shown only until that mutation's refetch ends,
\* although a poll was under way when the answer came; and until then its buttons
\* are disabled, unless mutations of several rows overlapped.
OwnActionsShow ==
  page # NoData /\ ~pageError =>
    \A m \in mine, row \in page :
      row.id = m.id /\ row.status \in fromStatuses(m.op) =>
        \E s \in refetching :
          /\ request[s].req.op = m.op /\ request[s].req.id = m.id
          /\ s \in overlapped \/ busyAlertId = m.id

\* runMutation: busyAlertId is shared by both hooks, and an older mutate() of a hook
\* loses its callback.  Still no row is left disabled for good: the busy row has a
\* mutation under way whose callback will run, and when no mutation overlapped
\* another its row stays disabled until then.
BusyUntilSettled ==
  /\ busyAlertId # NoAlert =>
       \E s \in Pending : request[s].req.id = busyAlertId /\ observer[request[s].req.op] = s
  /\ \A s \in Pending \ overlapped : busyAlertId = request[s].req.id

\* The page does not drift from the database: when things calm down it shows
\* what the table holds, after failed fetches, answers cut short and lost clicks.
PageCatchesUp ==
  <>[](/\ ~pageError
       /\ \A ids \in listAlerts(PageQuery) : page = Rows(ids))
=============================================================================
