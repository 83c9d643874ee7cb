---------------------------- MODULE AlertEngine ----------------------------
(***************************************************************************)
(* The pure part of the alert engine, ingestion/alerts.go: threshold       *)
(* comparison, the debounce streak of a rule, and the decision taken for   *)
(* every loaded rule when one telemetry message is evaluated.              *)
(*                                                                         *)
(* EvaluateRules walks the loaded rules one by one.  A rule's decision and *)
(* its new streak depend only on that rule's own entry, and rule ids are a *)
(* primary key, so the loop is a function of the rule id here.  The order  *)
(* of the resulting decision list is the order in which the query returned *)
(* the rules; the query has no ORDER BY, so any order may come out.        *)
(***************************************************************************)
EXTENDS Integers, Sequences, FiniteSets, Functions

CONSTANTS RuleIds,     \* identifiers alert_rules rows may get
          NoRule,      \* "no such row", also "row not selected by the query"
          DebounceN    \* ALERT_DEBOUNCE_BREACHES

\* intFromEnv replaces an unparsable value or a value below 1 by the default.
ASSUME DebounceAssumption == DebounceN \in Nat \ {0}
ASSUME RuleIdsAssumption == IsFiniteSet(RuleIds)

Operators == {"gt", "gte", "lt", "lte"}

compareThreshold(value, operator, threshold) ==
  \/ operator = "gt"  /\ value > threshold
  \/ operator = "gte" /\ value >= threshold
  \/ operator = "lt"  /\ value < threshold
  \/ operator = "lte" /\ value <= threshold

-----------------------------------------------------------------------------
\* Debounce streaks: a map lookup of an absent rule id yields the zero value.
BreachState == [Count : Nat, Breaching : BOOLEAN]

ZeroBreachState == [Count |-> 0, Breaching |-> FALSE]

\* Mutant: a change of direction does not restart the count.
NeverReset(state, triggered) ==
  [Count |-> state.Count + 1, Breaching |-> triggered]

NextBreachState(state, triggered) ==
  IF state.Breaching = triggered
    THEN [state EXCEPT !.Count = @ + 1]
    ELSE [Count |-> 1, Breaching |-> triggered]

\* The readings of a message are a function whose domain is the set of metrics
\* the message carries; a rule on another metric is skipped.
Evaluated(rules, readings) ==
  {r \in RuleIds : rules[r] # NoRule /\ rules[r].metric \in DOMAIN readings}

Triggered(rule, readings) ==
  compareThreshold(readings[rule.metric], rule.operator, rule.threshold)

NextStreaks(rules, readings, streaks) ==
  [r \in RuleIds |->
     IF r \in Evaluated(rules, readings)
       THEN NextBreachState(streaks[r], Triggered(rules[r], readings))
       ELSE streaks[r]]

RuleDecision == [rule : RuleIds, decision : {"create", "auto_resolve"}]

\* Mutant: the debounce comparison is off by one.
OneBreachShort(rules, readings, active, streaks) ==
  {d \in RuleDecision :
     /\ d.rule \in Evaluated(rules, readings)
     /\ streaks[d.rule].Count + 1 >= DebounceN
     /\ Triggered(rules[d.rule], readings) = (d.decision = "create")
     /\ d.decision = "create" <=> d.rule \notin active}

\* The decisions of one evaluation; streaks are the ones after the update.
Decisions(rules, readings, active, streaks) ==
  {d \in RuleDecision :
     /\ d.rule \in Evaluated(rules, readings)
     /\ streaks[d.rule].Count >= DebounceN
     /\ \/ /\ d.decision = "create"
           /\ Triggered(rules[d.rule], readings)
           /\ d.rule \notin active
        \/ /\ d.decision = "auto_resolve"
           /\ ~Triggered(rules[d.rule], readings)
           /\ d.rule \in active}

\* The orders in which the rows of a query without ORDER BY may come.
Orders(S) == Injection(1..Cardinality(S), S)

\* The decision lists EvaluateRules may return.
DecisionLists(rules, readings, active, streaks) ==
  Orders(Decisions(rules, readings, active, streaks))
=============================================================================
