----------------------------- MODULE AgentLoop ------------------------------
(***************************************************************************)
(* One run of runTicket (src/src/agent/loop.ts) with the executor          *)
(* (src/src/execution-plane/executor.ts) and the gate it is given: propose *)
(* -> gate -> execute -> observe, then escalate, document and learn.       *)
(*                                                                         *)
(* The run is one asynchronous function.  `phase` is the point it stands   *)
(* at: the Suspended phases are its awaits, where other callbacks run and  *)
(* the user's stop can arrive; at the remaining phases the run is between  *)
(* two awaits, so no other callback interleaves and the environment's      *)
(* action (UserStop) is not enabled.                                       *)
(*                                                                         *)
(* The reasoning model, the technician, the user and the device are the    *)
(* environment: the brain proposes any batch of the given steps, a gate    *)
(* gives any answer its kind allows, a device call ends in any outcome.    *)
(***************************************************************************)
EXTENDS Escalation

CONSTANTS
    Steps,         \* the steps a brain may propose
    Tickets,       \* the tickets a run may start from (see Ticket)
    Intakes,       \* what brain.intake may report, with what retrieval recalls
    Diagnoses,     \* what brain.diagnose may report
    StepBudget,    \* RunOptions.stepBudget: the steps a run may execute
    MaxBatch,      \* bound: the longest batch a brain proposes at once
    MaxProposals   \* bound: how often a brain proposes steps in one run

(***************************************************************************)
(* session: the DeviceSession attached, and whether it has control();      *)
(* canAsk: RunOptions.askUser is given; onFile: userAnswers holds the      *)
(* answer to whatever is asked.                                            *)
(***************************************************************************)
Ticket == [posture: Posture, session: {"none", "terminal", "desktop"},
           gate: GateKind, canAsk: BOOLEAN, onFile: BOOLEAN,
           asksPerson: BOOLEAN, handsOn: BOOLEAN, vip: BOOLEAN,
           priority: Severity]

Intake    == [outOfScope: BOOLEAN, blockedUser: BOOLEAN, security: BOOLEAN,
              recalled: BOOLEAN]
Diagnosis == [low: BOOLEAN, rootCause: BOOLEAN]

ASSUME StepsAssumption     == Steps \subseteq PlanStep
ASSUME TicketsAssumption   == Tickets \subseteq Ticket
ASSUME IntakesAssumption   == Intakes \subseteq Intake
ASSUME DiagnosesAssumption == Diagnoses \subseteq Diagnosis
ASSUME BoundsAssumption    == /\ StepBudget \in Nat
                              /\ MaxBatch \in Nat
                              /\ MaxProposals \in Nat

VARIABLES
    ticket,      \* the ticket and options of this run; never changes
    phase,       \* where runTicket stands
    stop,        \* shouldStop(): the user pressed stop
    intake,      \* the brain's intake
    diagnosis,   \* the diagnosis, with the root cause proposals add
    proposals,   \* how many proposals with steps were made
    batch,       \* the steps of the current proposal still to consider
    cleared,     \* the verdict of the step in hand, after the gate
    answered,    \* whether the question in hand has an answer
    halted,      \* nothing more of this batch is executed
    frozen,      \* changesFrozen: a hard block fired
    executed,    \* steps counted against the budget
    resolved,
    wantsHuman,
    results,     \* the StepResults, each [step, verdict, outcome]
    approvals,   \* history: the steps put to the gate, each [step, approved]
    asked,       \* history: the steps whose question reached the user
    ran,         \* history: what the device session was told to do,
                 \* each [step, by]
    escalation,  \* the assessed escalation
    run          \* what runTicket returned, and what it left in the knowledge

loopVars == <<halted, frozen, executed, resolved, wantsHuman>>
history  == <<approvals, asked, ran>>
vars == <<ticket, phase, stop, intake, diagnosis, proposals, batch, cleared,
          answered, loopVars, results, history, escalation, run>>

NoIntake     == [outOfScope |-> FALSE, blockedUser |-> FALSE,
                 security |-> FALSE, recalled |-> FALSE]
NoDiagnosis  == [low |-> FALSE, rootCause |-> FALSE]
NoVerdict    == Verdict("block", "block.malformed-step")
NoEscalation == [triggered |-> FALSE, triggers |-> {}, urgency |-> 1,
                 route |-> "service-desk-tier-2", handover |-> EmptyHandover]
NoRun        == [status |-> "none", learned |-> "none", credited |-> FALSE]

\* The awaits of runTicket.
Suspended == phase \in {"capabilities", "intake", "diagnose", "propose",
                        "approval", "question", "execute", "document"}
Ended     == phase \in {"done", "stopped", "rejected"}

Init ==
    /\ ticket \in Tickets
    /\ phase = "capabilities"
    /\ stop = FALSE
    /\ intake = NoIntake
    /\ diagnosis = NoDiagnosis
    /\ proposals = 0
    /\ batch = <<>>
    /\ cleared = NoVerdict
    /\ answered = FALSE
    /\ halted = FALSE
    /\ frozen = FALSE
    /\ executed = 0
    /\ resolved = FALSE
    /\ wantsHuman = FALSE
    /\ results = <<>>
    /\ approvals = <<>>
    /\ asked = <<>>
    /\ ran = <<>>
    /\ escalation = NoEscalation
    /\ run = NoRun

-----------------------------------------------------------------------------
(***************************************************************************)
(* The user's stop, and how the run meets it.  The flag may be raised at   *)
(* any await of a run the console drives; whatever that await returns,     *)
(* assertAutomationMayContinue then throws before anything is done with    *)
(* it.  A rejected brain or capability call ends the run the other way.    *)
(***************************************************************************)
UserStop ==
    /\ Suspended
    /\ ticket.gate = "browser"
    /\ ~stop
    /\ stop' = TRUE
    /\ UNCHANGED <<ticket, phase, intake, diagnosis, proposals, batch, cleared,
                   answered, loopVars, results, history, escalation, run>>

Unwind ==
    /\ Suspended
    /\ stop
    /\ phase' = "stopped"
    /\ UNCHANGED <<ticket, stop, intake, diagnosis, proposals, batch, cleared,
                   answered, loopVars, results, history, escalation, run>>

Reject ==
    /\ \/ phase \in {"intake", "diagnose", "propose", "document"}
       \/ phase = "capabilities" /\ ticket.session # "none"
    /\ phase' = "rejected"
    /\ UNCHANGED <<ticket, stop, intake, diagnosis, proposals, batch, cleared,
                   answered, loopVars, results, history, escalation, run>>

\* Mutant: the stop flag is not read after an await.
ResumesRegardless(p) == phase = p

\* The run resumes from an await of phase p with no stop requested.
Resumes(p) == phase = p /\ ~stop

\* The head of the while loop.
LoopHead(done, human, count) ==
    IF ~done /\ ~human /\ count < StepBudget THEN "propose" ELSE "assess"

-----------------------------------------------------------------------------
\* session.capabilities() returned.
Probe ==
    /\ Resumes("capabilities")
    /\ phase' = "intake"
    /\ UNCHANGED <<ticket, stop, intake, diagnosis, proposals, batch, cleared,
                   answered, loopVars, results, history, escalation, run>>

\* brain.intake returned, and retrieval ran on it.
Understand ==
    /\ Resumes("intake")
    /\ intake' \in Intakes
    /\ phase' = "diagnose"
    /\ UNCHANGED <<ticket, stop, diagnosis, proposals, batch, cleared, answered,
                   loopVars, results, history, escalation, run>>

\* brain.diagnose returned; an out-of-scope request is not investigated.
Diagnose ==
    /\ Resumes("diagnose")
    /\ diagnosis' \in Diagnoses
    /\ wantsHuman' = intake.outOfScope
    /\ phase' = LoopHead(resolved, wantsHuman', executed)
    /\ UNCHANGED <<ticket, stop, intake, proposals, batch, cleared, answered,
                   halted, frozen, executed, resolved, results, history,
                   escalation, run>>

\* brain.propose returned; it may have established the root cause.
LearnsRootCause == \E found \in BOOLEAN :
    diagnosis' = [diagnosis EXCEPT !.rootCause = @ \/ found]

\* Mutant: a frozen run may be reported resolved.
BelievedAnyway(claim) == claim

\* A run that refused the user's request is never resolved.
Believed(claim) == claim /\ ~frozen

(***************************************************************************)
(* A proposal with no steps ends the loop.  wants_human is optional: when  *)
(* absent, a run that is not resolved wants one.                           *)
(***************************************************************************)
ProposeNothing ==
    /\ Resumes("propose")
    /\ LearnsRootCause
    /\ \E fixed \in BOOLEAN, wants \in {"yes", "no", "absent"} :
         /\ resolved' = Believed(fixed)
         /\ wantsHuman' = IF wants = "absent" THEN ~resolved' ELSE wants = "yes"
    /\ phase' = "assess"
    /\ UNCHANGED <<ticket, stop, intake, proposals, batch, cleared, answered,
                   halted, frozen, executed, results, history, escalation, run>>

Batches == UNION {[1..n -> Steps] : n \in 1..MaxBatch}

ProposeSteps ==
    /\ Resumes("propose")
    /\ proposals < MaxProposals
    /\ LearnsRootCause
    /\ batch' \in Batches
    /\ proposals' = proposals + 1
    /\ halted' = FALSE
    /\ phase' = "batch"
    /\ UNCHANGED <<ticket, stop, intake, cleared, answered, frozen, executed,
                   resolved, wantsHuman, results, history, escalation, run>>

-----------------------------------------------------------------------------
\* The step in hand, and the one test of every step against the policy.
Step     == Head(batch)
Judgment == Evaluate(Step, ticket.posture)

Considering == phase = "batch" /\ batch # <<>> /\ executed < StepBudget

\* No step left, or the budget is spent in the middle of the batch.
EndBatch ==
    /\ phase = "batch"
    /\ batch = <<>> \/ executed >= StepBudget
    /\ batch' = <<>>
    /\ phase' = LoopHead(resolved, wantsHuman, executed)
    /\ UNCHANGED <<ticket, stop, intake, diagnosis, proposals, cleared, answered,
                   loopVars, results, history, escalation, run>>

\* A step recorded without being attempted does not count against the budget.
NotAttempted(outcome) ==
    /\ results' = Append(results, [step |-> Step, verdict |-> Judgment,
                                   outcome |-> outcome])
    /\ batch' = Tail(batch)
    /\ UNCHANGED <<ticket, phase, stop, intake, diagnosis, proposals, cleared,
                   answered, loopVars, history, escalation, run>>

\* A later batch, after a hard block: declared changes are not attempted.
SkipFrozen ==
    /\ Considering
    /\ frozen /\ ~halted /\ Step.mutating
    /\ NotAttempted("skipped")

\* The rest of a batch that stopped: judged and recorded only.
SkipHalted ==
    /\ Considering
    /\ halted
    /\ NotAttempted(IF Judgment.decision = "block" THEN "blocked" ELSE "skipped")

Attempts == ~halted /\ ~(frozen /\ Step.mutating)

\* The gate is consulted only for a verdict that requires approval.
Judge ==
    /\ Considering
    /\ Attempts
    /\ cleared' = Judgment
    /\ answered' = ticket.onFile
    /\ phase' = IF Judgment.decision = "require_approval"
                THEN "approval" ELSE "cleared"
    /\ UNCHANGED <<ticket, stop, intake, diagnosis, proposals, batch, loopVars,
                   results, history, escalation, run>>

\* gate.requestApproval returned; an approval clears this step only.
GateDecides ==
    /\ Resumes("approval")
    /\ \E approved \in GateAnswers(ticket.gate, Step, cleared) :
         /\ approvals' = Append(approvals, [step |-> Step, approved |-> approved])
         /\ cleared' = IF approved THEN [cleared EXCEPT !.decision = "allow"]
                                   ELSE cleared
    /\ phase' = "cleared"
    /\ UNCHANGED <<ticket, stop, intake, diagnosis, proposals, batch, answered,
                   loopVars, results, asked, ran, escalation, run>>

\* A question someone can answer is put to them before the executor runs.
NeedsAnswer == Step.kind = "ask_user" /\ ticket.canAsk /\ ~answered

PutQuestion ==
    /\ phase = "cleared"
    /\ NeedsAnswer
    /\ asked' = Append(asked, Step)
    /\ phase' = "question"
    /\ UNCHANGED <<ticket, stop, intake, diagnosis, proposals, batch, cleared,
                   answered, loopVars, results, approvals, ran, escalation, run>>

\* An answer, or none: an empty one and a timeout both count as none.
UserReplies ==
    /\ Resumes("question")
    /\ answered' \in BOOLEAN
    /\ phase' = "act"
    /\ UNCHANGED <<ticket, stop, intake, diagnosis, proposals, batch, cleared,
                   loopVars, results, history, escalation, run>>

\* Mutant: an answer is awaited where nobody can be asked.
NoQuestionOpen ==
    /\ phase = "cleared"
    /\ Step.kind # "ask_user" \/ answered
    /\ phase' = "act"
    /\ UNCHANGED <<ticket, stop, intake, diagnosis, proposals, batch, cleared,
                   answered, loopVars, results, history, escalation, run>>

NoQuestion ==
    /\ phase = "cleared"
    /\ ~NeedsAnswer
    /\ phase' = "act"
    /\ UNCHANGED <<ticket, stop, intake, diagnosis, proposals, batch, cleared,
                   answered, loopVars, results, history, escalation, run>>

-----------------------------------------------------------------------------
(***************************************************************************)
(* executeStep, up to its call of the session, and the end of the loop's   *)
(* body: the result is recorded and counted, and a hard block, a refused   *)
(* approval or an unanswered question halts the batch.                     *)
(***************************************************************************)
HardBlocked(outcome) == outcome = "blocked" /\ cleared.escalate

\* Mutants: only one of the two kinds of waiting stops the run.
WaitingForGate(outcome) == outcome = "awaiting_approval"
WaitingForUser(outcome) == outcome = "awaiting_user"

Waiting(outcome) == outcome \in {"awaiting_approval", "awaiting_user"}

\* Mutant: a failed step does not count against the budget.
CountUnlessFailed(outcome) == IF outcome = "failed" THEN executed ELSE executed + 1

Count(outcome) == executed + 1

Record(outcome) ==
    /\ results' = Append(results, [step |-> Step, verdict |-> cleared,
                                   outcome |-> outcome])
    /\ executed' = Count(outcome)
    /\ halted' = (halted \/ HardBlocked(outcome) \/ Waiting(outcome))
    /\ frozen' = (frozen \/ HardBlocked(outcome))
    /\ wantsHuman' = (wantsHuman \/ Waiting(outcome))
    /\ batch' = Tail(batch)
    /\ phase' = "batch"
    /\ UNCHANGED <<ticket, stop, intake, diagnosis, proposals, cleared, answered,
                   resolved, approvals, asked, ran, escalation, run>>

\* Mutant: the executor refuses only what is blocked.
ActingUnlessBlocked(kinds) ==
    phase = "act" /\ cleared.decision # "block" /\ Step.kind \in kinds

Acting(kinds) == phase = "act" /\ cleared.decision = "allow" /\ Step.kind \in kinds

\* The executor refuses any step whose verdict is not allow.
Refuse ==
    /\ phase = "act"
    /\ cleared.decision # "allow"
    /\ Record(IF cleared.decision = "block" THEN "blocked" ELSE "awaiting_approval")

TakeAnswer ==
    /\ Acting({"ask_user"})
    /\ Record(IF answered THEN "success" ELSE "awaiting_user")

NotForTheDevice ==
    /\ Acting({"ticket_comment", "knowledge_lookup"})
    /\ Record("skipped")

\* Whether the session can carry the step out at all.
HasChannel(step) ==
    IF step.kind = "ui_action" THEN ticket.session = "desktop" /\ ~step.empty
                               ELSE ticket.session # "none"

NoChannel ==
    /\ Acting(DeviceKind)
    /\ ~HasChannel(Step)
    /\ Record("failed")

\* session.exec, capture or control is called: from here the device acts.
Perform ==
    /\ Acting(DeviceKind)
    /\ HasChannel(Step)
    /\ ran' = Append(ran, [step |-> Step, by |-> cleared.rule])
    /\ phase' = "execute"
    /\ UNCHANGED <<ticket, stop, intake, diagnosis, proposals, batch, cleared,
                   answered, loopVars, results, approvals, asked, escalation, run>>

\* Mutant: a call that throws leaves no result.
DeviceReturnsOrVanishes ==
    /\ Resumes("execute")
    /\ \/ Record("success")
       \/ /\ batch' = Tail(batch)
          /\ phase' = "batch"
          /\ UNCHANGED <<ticket, stop, intake, diagnosis, proposals, cleared,
                         answered, loopVars, results, history, escalation, run>>

\* The call returned, or threw.
DeviceReturns ==
    /\ Resumes("execute")
    /\ \E outcome \in {"success", "failed"} : Record(outcome)

-----------------------------------------------------------------------------
EscalationInput ==
    [ticket |-> ticket, intake |-> intake, diagnosis |-> diagnosis,
     results |-> results, exhausted |-> executed >= StepBudget /\ ~resolved,
     resolved |-> resolved, wantsHuman |-> wantsHuman]

\* The escalation, with the loop's own check that a wanted human is fetched.
Assess ==
    /\ phase = "assess"
    /\ LET e == AssessEscalation(EscalationInput)
       IN  escalation' = IF wantsHuman /\ ~e.triggered
                         THEN [e EXCEPT !.triggered = TRUE,
                                        !.triggers = {"low-confidence"}]
                         ELSE e
    /\ phase' = "document"
    /\ UNCHANGED <<ticket, stop, intake, diagnosis, proposals, batch, cleared,
                   answered, loopVars, results, history, run>>

Status ==
    IF resolved THEN "resolved"
    ELSE IF escalation.triggered THEN "escalated"
    ELSE IF Any(results, "awaiting_approval") THEN "awaiting_approval"
    ELSE IF Any(results, "awaiting_user") THEN "awaiting_user"
    ELSE "failed"

\* learnFromRun: a settled run that saw, changed or was refused something.
WorthRecording ==
    \/ escalation.triggered
    \/ \E i \in DOMAIN results :
         \/ results[i].outcome \in {"blocked", "awaiting_approval"}
         \/ /\ results[i].outcome = "success"
            /\ results[i].step.mutating \/ results[i].step.kind = "command"

Lesson ==
    IF Status \in {"resolved", "escalated"} /\ WorthRecording THEN Status ELSE "none"

\* brain.document returned: the run is settled, credited and learned from.
Settle ==
    /\ Resumes("document")
    /\ run' = [status |-> Status, learned |-> Lesson,
               credited |-> resolved /\ intake.recalled]
    /\ phase' = "done"
    /\ UNCHANGED <<ticket, stop, intake, diagnosis, proposals, batch, cleared,
                   answered, loopVars, results, history, escalation>>

-----------------------------------------------------------------------------
\* What the run and the parties it waits on do.
Progress ==
    \/ Unwind \/ Probe \/ Understand \/ Diagnose
    \/ ProposeNothing \/ ProposeSteps
    \/ EndBatch \/ SkipFrozen \/ SkipHalted \/ Judge \/ GateDecides
    \/ PutQuestion \/ UserReplies \/ NoQuestion
    \/ Refuse \/ TakeAnswer \/ NotForTheDevice \/ NoChannel
    \/ Perform \/ DeviceReturns
    \/ Assess \/ Settle

\* A run that ended has returned or thrown.
Terminated == Ended /\ UNCHANGED vars

Next == Progress \/ UserStop \/ Reject \/ Terminated

Spec == Init /\ [][Next]_vars

(***************************************************************************)
(* Every await returns: the gate and the question time out, the session's  *)
(* calls have their own timeouts, and the models are called through their  *)
(* vendors' clients, which time out.  Nothing obliges a user to press stop *)
(* or a model's call to be rejected.                                       *)
(***************************************************************************)
FairSpec == Spec /\ WF_vars(Progress)

-----------------------------------------------------------------------------
StepResult == [step: Steps, verdict: PolicyVerdict, outcome: Outcome]

\* The shape of the state.
TypeOK ==
    /\ ticket \in Tickets
    /\ phase \in {"capabilities", "intake", "diagnose", "propose", "batch",
                  "approval", "cleared", "question", "act", "execute", "assess",
                  "document", "done", "stopped", "rejected"}
    /\ stop \in BOOLEAN
    /\ intake \in Intake
    /\ diagnosis \in Diagnosis
    /\ proposals \in 0..MaxProposals
    /\ batch \in Seq(Steps)
    /\ cleared \in PolicyVerdict
    /\ answered \in BOOLEAN
    /\ halted \in BOOLEAN
    /\ frozen \in BOOLEAN
    /\ executed \in 0..StepBudget
    /\ resolved \in BOOLEAN
    /\ wantsHuman \in BOOLEAN
    /\ results \in Seq(StepResult)
    /\ approvals \in Seq([step: Steps, approved: BOOLEAN])
    /\ asked \in Seq(Steps)
    /\ ran \in Seq([step: Steps, by: RuleId])
    /\ run.status \in {"none", "resolved", "escalated", "awaiting_approval",
                       "awaiting_user", "failed"}

-----------------------------------------------------------------------------
(***************************************************************************)
(* Safety.                                                                 *)
(***************************************************************************)
ReachedDevice(result) ==
    /\ result.step.kind \in DeviceKind
    /\ result.outcome \in {"success", "failed"}
    /\ HasChannel(result.step)

\* The results that reached the device are, one for one and in order, what the
\* device was told to do.
RecordIsComplete ==
    LET reached == {i \in DOMAIN results : ReachedDevice(results[i])}
    IN  \E at \in [DOMAIN ran -> reached] :
           /\ \A i, j \in DOMAIN ran : i < j => at[i] < at[j]
           /\ \A r \in reached : \E i \in DOMAIN ran : at[i] = r
           /\ \A i \in DOMAIN ran : results[at[i]].step = ran[i].step

(***************************************************************************)
(* No device action is lost from, added to or reordered in the record the  *)
(* write-up, the undo list and the knowledge entry are made from, as long  *)
(* as no stop interrupts a call that is in flight (loop.ts:393-405).       *)
(***************************************************************************)
EveryActionIsReported == phase \notin {"execute", "stopped"} => RecordIsComplete

(***************************************************************************)
(* The budget bounds everything that costs someone something: what the     *)
(* device is told, what a technician is asked to approve and what the user *)
(* is asked (loop.ts:218 and 282).                                         *)
(***************************************************************************)
BudgetHolds ==
    /\ Len(ran) <= StepBudget
    /\ Len(approvals) <= StepBudget
    /\ Len(asked) <= StepBudget

(***************************************************************************)
(* Until a hard block freezes the run, every proposal it acts on uses up   *)
(* budget, so the number of proposals is bounded by it: the investigation  *)
(* cannot go round in circles (loop.ts:218-282).                           *)
(***************************************************************************)
BudgetPacesProposals ==
    ~frozen => /\ proposals <= executed + 1
               /\ phase = "propose" => proposals <= executed

(***************************************************************************)
(* A ticket is reported resolved only if no guardrail refused a step of it *)
(* and nothing in it waits for an approval or an answer (loop.ts:258-260   *)
(* and 420-442; README.md:257).                                            *)
(***************************************************************************)
ResolvedIsClean ==
    run.status = "resolved" =>
        /\ ~Any(results, "awaiting_approval")
        /\ ~Any(results, "awaiting_user")
        /\ \A i \in DOMAIN results : results[i].step.hits = {}

(***************************************************************************)
(* A run that stopped at the gate or on an unanswered question always ends *)
(* escalated: the two waiting statuses of loop.ts:501-504 are never        *)
(* returned, so no ticket is left waiting for a run that is over.          *)
(***************************************************************************)
NoRunEndsWaiting ==
    phase = "done" /\ (Any(results, "awaiting_approval") \/ Any(results, "awaiting_user"))
        => run.status = "escalated"

(***************************************************************************)
(* A run frozen by a guardrail is never resolved and always reaches, at    *)
(* high urgency or more, the team that owns the most urgent category its   *)
(* refused steps fell in, unless someone must go to the machine first      *)
(* (loop.ts:420-427, escalation.ts:80-87 and 181-194).                     *)
(***************************************************************************)
FrozenRunIsHandedOver ==
    frozen /\ phase \in {"document", "done"} =>
        /\ ~resolved
        /\ "policy-block" \in escalation.triggers
        /\ escalation.urgency >= High
        /\ LET refused == WithOutcome(results, {"blocked"})
           IN  escalation.route =
                 IF ticket.handsOn THEN "field-services"
                 ELSE OwnerOf(UNION {results[i].step.hits : i \in refused})

(***************************************************************************)
(* With nobody attached, what runs is read-only by policy or, under the    *)
(* standing authorisation, a pre-authorised kind of change that says how   *)
(* it is undone; an auto-deny run changes nothing at all (approvals.ts:36  *)
(* to 93, executor.ts:48-57).                                              *)
(***************************************************************************)
UnattendedWorkIsReversible ==
    ticket.gate # "browser" =>
        \A i \in DOMAIN ran :
            LET verdict == Evaluate(ran[i].step, ticket.posture)
            IN  \/ verdict.decision = "allow"
                \/ /\ ticket.gate = "standing-policy"
                   /\ verdict.decision = "require_approval"
                   /\ verdict.rule \in PreAuthorised
                   /\ ran[i].step.rollback

(***************************************************************************)
(* Action properties: what no step of a run may do.                        *)
(***************************************************************************)
\* After a hard block, no step that declares a change reaches the device
\* again in the whole run, approved or not (loop.ts:290-310).
FrozenMeansNoDeclaredChange ==
    [][frozen /\ ran' # ran => ~Step.mutating]_vars

\* Once a batch halts at a guardrail, nothing of it is run, put to the gate
\* or asked; a later proposal has to come first (loop.ts:312-334).
RefusalEndsTheBatch == [][halted => UNCHANGED history]_vars

\* A technician's "no" is final: after it the run does nothing on the device,
\* asks for no other approval and asks the user nothing (loop.ts:428-436).
NoIsFinal ==
    [][(\E i \in DOMAIN approvals : ~approvals[i].approved) => UNCHANGED history]_vars

\* After the user's stop the run starts nothing, records nothing, resolves
\* nothing and learns nothing (loop.ts:102-104 and every await after it).
StopIsFinal == [][stop => UNCHANGED <<history, results, run>>]_vars

(***************************************************************************)
(* Liveness, under FairSpec.                                               *)
(***************************************************************************)
\* A run that no guardrail freezes comes to an end (README.md:253 says what
\* a frozen one does; MaxProposals bounds that one only).
UnfrozenRunEnds == <>(Ended \/ frozen)
=============================================================================
