----------------------------- MODULE Escalation -----------------------------
(***************************************************************************)
(* When a finished run is handed to a person, to whom, how urgently and    *)
(* with what: src/src/control-plane/escalation.ts.                         *)
(*                                                                         *)
(* The operators take one record, in, the EscalationInput of the code:     *)
(*   ticket     [asksPerson, handsOn, vip, priority]  (the two regular     *)
(*              expressions over the user's words are its two first flags) *)
(*   intake     [outOfScope, blockedUser, security]                        *)
(*   diagnosis  [low, rootCause]                                           *)
(*   results    a sequence of [step, verdict, outcome]                     *)
(*   exhausted, resolved, wantsHuman                                       *)
(***************************************************************************)
EXTENDS Naturals, Sequences, PolicyEngine

Severity == 1..4          \* low, normal, high, urgent
High     == 3
Urgent   == 4

Highest(a, b) == IF a >= b THEN a ELSE b

Outcome == {"success", "failed", "blocked", "awaiting_approval",
            "awaiting_user", "skipped"}

Trigger ==
    {"user-requested", "needs-hands-on", "out-of-scope", "policy-block",
     "requires-authority", "low-confidence", "repeated-failure",
     "budget-exhausted", "no-safe-action", "user-impact"}

\* The positions of the results with one of these outcomes.
WithOutcome(results, outcomes) ==
    {i \in DOMAIN results : results[i].outcome \in outcomes}

Any(results, outcome) == WithOutcome(results, {outcome}) # {}

\* Three failed executions: the approach is wrong, not unlucky.
RepeatedFailure(results) ==
    \E i, j, k \in WithOutcome(results, {"failed"}) : i < j /\ j < k

Impact(in) == in.ticket.vip \/ in.ticket.priority = Urgent \/ in.intake.blockedUser

\* A change is written down and waits for a signature.
AtTheGate(in) == ~in.resolved /\ Any(in.results, "awaiting_approval")

\* The agent stopped, and the reason is not the approval gate.
OutOfIdeas(in) == in.wantsHuman /\ ~in.resolved /\ ~AtTheGate(in)

Established(in) == in.diagnosis.rootCause /\ ~in.diagnosis.low

TriggersOf(in) ==
    {t \in Trigger :
       \/ t = "user-requested"     /\ in.ticket.asksPerson
       \/ t = "needs-hands-on"     /\ in.ticket.handsOn
       \/ t = "out-of-scope"       /\ in.intake.outOfScope
       \/ t = "policy-block"       /\ Any(in.results, "blocked")
       \/ t = "requires-authority" /\ AtTheGate(in)
       \/ t = "low-confidence"     /\ \/ ~in.resolved /\ in.diagnosis.low
                                      \/ OutOfIdeas(in) /\ ~Established(in)
       \/ t = "repeated-failure"   /\ ~in.resolved /\ RepeatedFailure(in.results)
       \/ t = "budget-exhausted"   /\ ~in.resolved /\ in.exhausted
       \/ t = "no-safe-action"     /\ OutOfIdeas(in) /\ Established(in)
       \/ t = "user-impact"        /\ ~in.resolved /\ Impact(in)}

\* The priority of the ticket, raised by what the run met and never lowered.
UrgencyOf(in) ==
    LET hardBlock == \E i \in WithOutcome(in.results, {"blocked"}) :
                        in.results[i].verdict.escalate
        raised    == \/ in.ticket.asksPerson
                     \/ hardBlock
                     \/ ~in.resolved /\ in.ticket.vip
    IN  IF raised THEN Highest(in.ticket.priority, High) ELSE in.ticket.priority

-----------------------------------------------------------------------------
\* TEAM_FOR_CATEGORY: who owns a blocked category, most urgent owner first.
TeamForCategory ==
    << <<"security-controls", "security-operations">>,
       <<"data-exfiltration", "security-operations">>,
       <<"compliance", "information-governance">>,
       <<"finance", "finance-systems">>,
       <<"identity", "identity-and-access">>,
       <<"credentials", "identity-and-access">>,
       <<"network-infrastructure", "network-engineering">>,
       <<"major-system-change", "endpoint-engineering">> >>

Team == {"field-services", "service-desk-tier-2", "service-desk-triage"}
          \cup {TeamForCategory[i][2] : i \in DOMAIN TeamForCategory}

\* The first team of the table that owns one of the categories.
OwnerOf(categories) ==
    LET owned == {i \in DOMAIN TeamForCategory : TeamForCategory[i][1] \in categories}
    IN  IF owned = {} THEN "service-desk-tier-2"
        ELSE TeamForCategory[CHOOSE i \in owned : \A j \in owned : i <= j][2]

\* Mutant: only the first refusal counts.
FirstBlockedCategories(results) ==
    LET blocked == WithOutcome(results, {"blocked"})
    IN  UNION {results[i].verdict.categories :
                 i \in {b \in blocked : \A other \in blocked : b <= other}}

BlockedCategories(results) ==
    UNION {results[i].verdict.categories : i \in WithOutcome(results, {"blocked"})}

RouteFor(triggers, in) ==
    IF "needs-hands-on" \in triggers THEN "field-services"
    ELSE IF "policy-block" \in triggers THEN OwnerOf(BlockedCategories(in.results))
    ELSE IF in.intake.security THEN "security-operations"
    ELSE IF "requires-authority" \in triggers THEN "service-desk-tier-2"
    ELSE IF "out-of-scope" \in triggers THEN "service-desk-triage"
    ELSE "service-desk-tier-2"

(***************************************************************************)
(* The handover pack, by position in results: what was tried, what could   *)
(* not be done, what to authorise and what to handle by hand.              *)
(***************************************************************************)
EmptyHandover ==
    [known |-> FALSE, tried |-> {}, couldNot |-> {}, authorise |-> {}, byHand |-> {}]

BuildHandover(in) ==
    [known     |-> TRUE,
     tried     |-> WithOutcome(in.results, {"success", "failed"}),
     couldNot  |-> WithOutcome(in.results, {"blocked", "awaiting_approval"}),
     authorise |-> WithOutcome(in.results, {"awaiting_approval"}),
     byHand    |-> {i \in WithOutcome(in.results, {"blocked"}) :
                      in.results[i].verdict.decision = "block"}]

AssessEscalation(in) ==
    LET triggers == TriggersOf(in)
    IN  IF triggers = {}
        THEN [triggered |-> FALSE, triggers |-> {}, urgency |-> UrgencyOf(in),
              route |-> "service-desk-tier-2", handover |-> EmptyHandover]
        ELSE [triggered |-> TRUE, triggers |-> triggers, urgency |-> UrgencyOf(in),
              route |-> RouteFor(triggers, in), handover |-> BuildHandover(in)]
=============================================================================
