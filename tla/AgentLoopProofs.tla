--------------------------- MODULE AgentLoopProofs ---------------------------
(***************************************************************************)
(* Theorems about every run of the agent loop, for any set of steps the    *)
(* model may propose, any tickets and any budget.                          *)
(*                                                                         *)
(* TypeOK is not inductive: Record takes the Tail of the batch and adds    *)
(* one to executed, which is safe only because a step in hand was taken    *)
(* from a non-empty batch below the budget.  InHand says so, and that the  *)
(* tests made when the step was taken still hold; it is what the action    *)
(* properties rest on.  A second invariant, Account, relates the record of *)
(* the run to what was done, refused and concluded in it.  The refinement  *)
(* of GovernedDevice, at the end, needs one fact more: an allow in hand    *)
(* stems from a verdict that was not a block (Vetted).                     *)
(***************************************************************************)
EXTENDS AgentLoopRefinement, TLAPS, SequenceTheorems

\* The phases at which a step has been taken from the batch to be carried out.
HasStep == phase \in {"approval", "cleared", "question", "act", "execute"}

\* The tests of the head of the loop body hold as long as the step is in hand.
InHand == HasStep => /\ batch # <<>>
                     /\ executed < StepBudget
                     /\ Attempts

\* A stop arrives at an await and the run leaves only by throwing.
StopWaits == stop => Suspended \/ Ended

\* Unless frozen, a proposal that is used up has cost budget.
Paced ==
    ~frozen =>
        /\ proposals <= executed + 1
        /\ phase \in {"capabilities", "intake", "diagnose", "propose"}
             => proposals <= executed
        /\ phase = "batch" /\ (batch = <<>> \/ halted) => proposals <= executed

\* A count is covered by the steps recorded, or by the one in hand at the
\* phases at which it may be ahead of the record.
Covered(count, ahead) ==
    \/ count <= executed
    \/ phase \in ahead /\ count <= executed + 1

\* What a run asked of the device, the technician and the user is covered.
Spent ==
    /\ BudgetHolds
    /\ phase # "stopped" =>
         /\ Covered(Len(approvals), {"cleared", "question", "act", "execute"})
         /\ Covered(Len(asked), {"question", "act", "execute"})
         /\ Covered(Len(ran), {"execute"})

IInv == TypeOK /\ InHand /\ StopWaits /\ Paced /\ Spent

-----------------------------------------------------------------------------
USE BoundsAssumption DEF BoundsAssumption

\* The verdict on a step is well formed.  Only a blocking rule escalates, and it
\* blocks; a refusal carries the categories of its step, or none that a team
\* owns; and a person is asked about device steps only (engine.ts:122-304).
LEMMA VerdictSays ==
    ASSUME NEW s \in PlanStep, NEW p \in Posture
    PROVE  LET verdict == Evaluate(s, p)
           IN  /\ verdict \in PolicyVerdict
               /\ verdict.escalate <=> s.hits # {}
               /\ s.hits # {} => verdict.decision = "block"
               /\ verdict.decision = "block" =>
                     verdict.categories = IF s.hits # {} THEN s.hits ELSE {"routine"}
               /\ verdict.decision = "require_approval" => s.kind \in DeviceKind
<1> USE DEF Verdict, PolicyVerdict, Decision, RuleId, ApprovalRule, RiskCategory
<1>1. s.kind \in ActionKind /\ s.hits \subseteq RiskCategory
  BY DEF PlanStep
<1>2. CASE s.hits # {}
  BY <1>1, <1>2 DEF Evaluate
<1>3. CASE s.hits = {} /\ s.kind \in DeviceKind
  <2>1. /\ EvaluateOnDevice(s) \in PolicyVerdict /\ EvaluateOnDevice(s).escalate = FALSE
        /\ EvaluateOnDevice(s).decision = "block" =>
              EvaluateOnDevice(s).categories = {"routine"}
    BY <1>3 DEF EvaluateOnDevice, EvaluateCommand, DeviceKind, CategoryOf, PlanStep
  <2> QED BY <1>3, <2>1 DEF Evaluate, DeviceKind
<1>4. CASE s.hits = {} /\ s.kind \notin DeviceKind
  BY <1>1, <1>4 DEF Evaluate, ActionKind, DeviceKind
<1> QED BY <1>2, <1>3, <1>4

\* What is in hand is one of the steps, and its verdict is whole.
LEMMA StepTyped ==
    ASSUME TypeOK, batch # <<>>
    PROVE  /\ Step \in Steps
           /\ Step \in PlanStep
           /\ Judgment \in PolicyVerdict
           /\ Tail(batch) \in Seq(Steps)
<1>1. Step \in Steps /\ Tail(batch) \in Seq(Steps)
  BY DEF TypeOK, Step
<1>2. Step \in PlanStep
  BY <1>1, StepsAssumption DEF StepsAssumption
<1>3. ticket.posture \in Posture
  BY TicketsAssumption DEF TypeOK, Ticket, TicketsAssumption
<1> QED BY <1>1, <1>2, <1>3, VerdictSays DEF Judgment

\* The initial states have the invariant.
LEMMA InitHolds == Init => IInv
<1> SUFFICES ASSUME Init PROVE IInv
  OBVIOUS
<1>1. NoVerdict \in PolicyVerdict
  BY DEF NoVerdict, Verdict, PolicyVerdict, Decision, RuleId, RiskCategory
<1>2. NoIntake \in Intake /\ NoDiagnosis \in Diagnosis
  BY DEF NoIntake, NoDiagnosis, Intake, Diagnosis
<1>3. TypeOK
  <2>1. /\ batch \in Seq(Steps)
        /\ results \in Seq(StepResult)
        /\ approvals \in Seq([step: Steps, approved: BOOLEAN])
        /\ asked \in Seq(Steps)
        /\ ran \in Seq([step: Steps, by: RuleId])
    BY DEF Init
  <2>2. run.status = "none" /\ phase = "capabilities"
    BY DEF Init, NoRun
  <2>3. proposals \in 0..MaxProposals /\ executed \in 0..StepBudget
    BY DEF Init
  <2>4. intake \in Intake /\ diagnosis \in Diagnosis /\ cleared \in PolicyVerdict
    BY <1>1, <1>2 DEF Init
  <2>5. /\ ticket \in Tickets
        /\ {stop, answered, halted, frozen, resolved, wantsHuman} \subseteq BOOLEAN
    BY DEF Init
  <2> QED BY <2>1, <2>2, <2>3, <2>4, <2>5 DEF TypeOK
<1>4. InHand /\ StopWaits /\ Paced /\ Spent
  BY DEF Init, InHand, HasStep, StopWaits, Suspended, Paced, Spent, Covered, BudgetHolds
<1> QED BY <1>3, <1>4 DEF IInv

-----------------------------------------------------------------------------
\* The ticket's fields, and the intake's.
LEMMA TicketTyped ==
    ASSUME TypeOK
    PROVE  ticket.onFile \in BOOLEAN /\ intake.outOfScope \in BOOLEAN
BY TicketsAssumption DEF TicketsAssumption, TypeOK, Ticket, Intake

\* A proposal may only add the root cause to the diagnosis.
LEMMA LearnTyped ==
    ASSUME diagnosis \in Diagnosis, LearnsRootCause
    PROVE  diagnosis' \in Diagnosis
<1>1. PICK found \in BOOLEAN :
        diagnosis' = [diagnosis EXCEPT !.rootCause = diagnosis.rootCause \/ found]
  BY DEF LearnsRootCause
<1> QED BY <1>1 DEF Diagnosis

\* A batch is a sequence of steps, and not an empty one.
LEMMA BatchTyped == \A b \in Batches : b \in Seq(Steps) /\ b # <<>>
<1> SUFFICES ASSUME NEW n \in 1..MaxBatch, NEW b \in [1..n -> Steps]
             PROVE  b \in Seq(Steps) /\ b # <<>>
  BY DEF Batches
<1>1. n \in Nat /\ b \in Seq(Steps) /\ Len(b) = n
  OBVIOUS
<1> QED BY <1>1

\* The end of the loop body keeps the shape of the state.
LEMMA RecordTyped ==
    ASSUME TypeOK, InHand, HasStep, NEW outcome \in Outcome, Record(outcome)
    PROVE  TypeOK'
<1>1. batch # <<>> /\ executed < StepBudget
  BY DEF InHand
<1>2. Step \in Steps /\ Tail(batch) \in Seq(Steps) /\ cleared \in PolicyVerdict
  BY <1>1, StepTyped DEF TypeOK
<1>3. /\ batch' \in Seq(Steps)
      /\ executed' \in 0..StepBudget
      /\ phase' = "batch"
  BY <1>1, <1>2 DEF Record, Count, TypeOK
<1>4. results' \in Seq(StepResult)
  <2>1. [step |-> Step, verdict |-> cleared, outcome |-> outcome] \in StepResult
    BY <1>2 DEF StepResult
  <2> QED BY <2>1 DEF Record, TypeOK
<1>5. /\ halted' \in BOOLEAN
      /\ frozen' \in BOOLEAN
      /\ wantsHuman' \in BOOLEAN
  BY DEF Record, HardBlocked, Waiting, TypeOK
<1>6. UNCHANGED <<ticket, stop, intake, diagnosis, proposals, cleared, answered,
                  resolved, approvals, asked, ran, run>>
  BY DEF Record
<1> QED BY <1>3, <1>4, <1>5, <1>6 DEF TypeOK

\* Every action keeps the shape of the state.
LEMMA TypeStep == TypeOK /\ InHand /\ [Next]_vars => TypeOK'
<1> SUFFICES ASSUME TypeOK, InHand, [Next]_vars PROVE TypeOK'
  OBVIOUS
<1>1. CASE Unwind
  BY <1>1 DEF Unwind, TypeOK, history, loopVars
<1>2. CASE Probe
  BY <1>2 DEF Probe, TypeOK, history, loopVars
<1>3. CASE Understand
  <2>1. intake' \in Intake
    BY <1>3, IntakesAssumption DEF Understand, IntakesAssumption
  <2> QED BY <1>3, <2>1 DEF Understand, TypeOK, history, loopVars
<1>4. CASE Diagnose
  <2>1. diagnosis' \in Diagnosis /\ wantsHuman' \in BOOLEAN
    BY <1>4, TicketTyped, DiagnosesAssumption DEF Diagnose, DiagnosesAssumption
  <2>2. phase' \in {"propose", "assess"}
    BY <1>4 DEF Diagnose, LoopHead
  <2> QED BY <1>4, <2>1, <2>2 DEF Diagnose, TypeOK, history
<1>5. CASE ProposeNothing
  <2>1. diagnosis' \in Diagnosis
    BY <1>5, LearnTyped DEF ProposeNothing, TypeOK
  <2>2. resolved' \in BOOLEAN /\ wantsHuman' \in BOOLEAN
    BY <1>5 DEF ProposeNothing, Believed, TypeOK
  <2> QED BY <1>5, <2>1, <2>2 DEF ProposeNothing, TypeOK, history
<1>6. CASE ProposeSteps
  <2>1. diagnosis' \in Diagnosis
    BY <1>6, LearnTyped DEF ProposeSteps, TypeOK
  <2>2. batch' \in Seq(Steps) /\ halted' \in BOOLEAN
    BY <1>6, BatchTyped DEF ProposeSteps
  <2>3. proposals' \in 0..MaxProposals
    BY <1>6 DEF ProposeSteps, TypeOK
  <2> QED BY <1>6, <2>1, <2>2, <2>3 DEF ProposeSteps, TypeOK, history
<1>7. CASE EndBatch
  <2>1. batch' \in Seq(Steps) /\ phase' \in {"propose", "assess"}
    BY <1>7 DEF EndBatch, LoopHead
  <2> QED BY <1>7, <2>1 DEF EndBatch, TypeOK, history, loopVars
<1>8. ASSUME Considering, NEW outcome \in Outcome, NotAttempted(outcome)
      PROVE  TypeOK'
  <2>1. [step |-> Step, verdict |-> Judgment, outcome |-> outcome] \in StepResult
    BY <1>8, StepTyped DEF Considering, StepResult
  <2>2. results' \in Seq(StepResult) /\ batch' \in Seq(Steps)
    BY <1>8, <2>1, StepTyped DEF NotAttempted, Considering, TypeOK
  <2> QED BY <1>8, <2>2 DEF NotAttempted, TypeOK, history, loopVars
<1>9. CASE SkipFrozen \/ SkipHalted
  <2>1. {"skipped", "blocked"} \subseteq Outcome
    BY DEF Outcome
  <2> QED BY <1>8, <1>9, <2>1 DEF SkipFrozen, SkipHalted
<1>10. CASE Judge
  <2>1. cleared' \in PolicyVerdict /\ answered' \in BOOLEAN
    BY <1>10, StepTyped, TicketTyped DEF Judge, Considering
  <2>2. phase' \in {"approval", "cleared"}
    BY <1>10 DEF Judge
  <2> QED BY <1>10, <2>1, <2>2 DEF Judge, TypeOK, history, loopVars
<1>11. CASE GateDecides
  <2>1. Step \in Steps
    BY <1>11, StepTyped DEF GateDecides, Resumes, InHand, HasStep
  <2>2. PICK approved \in GateAnswers(ticket.gate, Step, cleared) :
          /\ approvals' = Append(approvals, [step |-> Step, approved |-> approved])
          /\ cleared' = IF approved THEN [cleared EXCEPT !.decision = "allow"]
                                    ELSE cleared
    BY <1>11 DEF GateDecides
  <2>3. approved \in BOOLEAN
    <3>1. ticket.gate \in GateKind
      BY TicketsAssumption DEF TypeOK, TicketsAssumption, Ticket
    <3>2. (cleared.rule \in PreAuthorised /\ Step.rollback) \in BOOLEAN
      OBVIOUS
    <3> QED BY <2>2, <3>1, <3>2 DEF GateAnswers, GateKind
  <2>4. approvals' \in Seq([step: Steps, approved: BOOLEAN])
    BY <2>1, <2>2, <2>3 DEF TypeOK
  <2>5. cleared' \in PolicyVerdict
    BY <2>2 DEF TypeOK, PolicyVerdict, Decision
  <2> QED BY <1>11, <2>4, <2>5 DEF GateDecides, TypeOK, loopVars
<1>12. CASE PutQuestion
  <2>1. asked' \in Seq(Steps)
    BY <1>12, StepTyped DEF PutQuestion, InHand, HasStep, TypeOK
  <2> QED BY <1>12, <2>1 DEF PutQuestion, TypeOK, loopVars
<1>13. CASE UserReplies
  BY <1>13 DEF UserReplies, TypeOK, history, loopVars
<1>14. CASE NoQuestion
  BY <1>14 DEF NoQuestion, TypeOK, history, loopVars
<1>15. CASE Refuse \/ TakeAnswer \/ NotForTheDevice \/ NoChannel \/ DeviceReturns
  <2>1. \E outcome \in Outcome : Record(outcome)
    BY <1>15 DEF Refuse, TakeAnswer, NotForTheDevice, NoChannel, DeviceReturns, Outcome
  <2>2. HasStep
    BY <1>15 DEF Refuse, TakeAnswer, NotForTheDevice, NoChannel, DeviceReturns,
                 Acting, Resumes, HasStep
  <2> QED BY <2>1, <2>2, RecordTyped
<1>16. CASE Perform
  <2>1. ran' \in Seq([step: Steps, by: RuleId])
    <3>1. Step \in Steps /\ cleared.rule \in RuleId
      BY <1>16, StepTyped DEF Perform, Acting, InHand, HasStep, TypeOK, PolicyVerdict
    <3> QED BY <1>16, <3>1 DEF Perform, TypeOK
  <2> QED BY <1>16, <2>1 DEF Perform, TypeOK, loopVars
<1>17. CASE Assess
  BY <1>17 DEF Assess, TypeOK, history, loopVars
<1>18. CASE Settle
  BY <1>18 DEF Settle, Status, TypeOK, history, loopVars
<1>19. CASE UserStop
  BY <1>19 DEF UserStop, TypeOK, history, loopVars
<1>20. CASE Reject
  BY <1>20 DEF Reject, TypeOK, history, loopVars
<1>21. CASE UNCHANGED vars
  BY <1>21 DEF TypeOK, vars, loopVars, history
<1> QED BY <1>1, <1>2, <1>3, <1>4, <1>5, <1>6, <1>7, <1>9, <1>10, <1>11, <1>12,
           <1>13, <1>14, <1>15, <1>16, <1>17, <1>18, <1>19, <1>20, <1>21
        DEF Next, Progress, Terminated

-----------------------------------------------------------------------------
\* A step is taken in hand by Judge alone, and nothing it was tested against
\* changes until it is recorded.
LEMMA InHandStep == InHand /\ [Next]_vars => InHand'
<1> SUFFICES ASSUME InHand, [Next]_vars, HasStep'
             PROVE  batch' # <<>> /\ executed' < StepBudget /\ Attempts'
  BY DEF InHand
<1>1. CASE Judge
  BY <1>1 DEF Judge, Considering, Attempts, Step, loopVars
<1>2. CASE HasStep /\ UNCHANGED <<batch, executed, halted, frozen>>
  BY <1>2 DEF InHand, Attempts, Step
<1>3. ~Judge => HasStep /\ UNCHANGED <<batch, executed, halted, frozen>>
  <2> SUFFICES ASSUME ~Judge PROVE HasStep /\ UNCHANGED <<batch, executed, halted, frozen>>
    OBVIOUS
  <2> USE DEF HasStep, loopVars
  <2>1. CASE GateDecides \/ PutQuestion \/ UserReplies \/ NoQuestion \/ Perform \/ UserStop
    BY <2>1 DEF GateDecides, PutQuestion, UserReplies, NoQuestion, Perform, UserStop,
                Resumes, Acting
  <2>2. ~(Unwind \/ Reject \/ Probe \/ Understand \/ Diagnose)
    BY DEF Unwind, Reject, Probe, Understand, Diagnose, LoopHead
  <2>3. ~(ProposeNothing \/ ProposeSteps \/ EndBatch \/ Assess \/ Settle)
    BY DEF ProposeNothing, ProposeSteps, EndBatch, Assess, Settle, LoopHead
  <2>4. ~(SkipFrozen \/ SkipHalted)
    BY DEF SkipFrozen, SkipHalted, NotAttempted, Considering
  <2>5. ~(Refuse \/ TakeAnswer \/ NotForTheDevice \/ NoChannel \/ DeviceReturns)
    BY DEF Refuse, TakeAnswer, NotForTheDevice, NoChannel, DeviceReturns, Record
  <2>6. CASE UNCHANGED vars
    BY <2>6 DEF vars
  <2> QED BY <2>1, <2>2, <2>3, <2>4, <2>5, <2>6 DEF Next, Progress, Terminated
<1> QED BY <1>1, <1>2, <1>3

\* Once stop is requested the run is unwound by the await it stands at.
LEMMA StopStep == StopWaits /\ [Next]_vars => StopWaits'
<1> SUFFICES ASSUME StopWaits, [Next]_vars, stop' PROVE (Suspended \/ Ended)'
  BY DEF StopWaits
<1> USE DEF Suspended, Ended
<1>1. CASE Unwind \/ Reject \/ UserStop \/ Terminated \/ UNCHANGED vars
  BY <1>1 DEF Unwind, Reject, UserStop, Terminated, vars, StopWaits
<1>2. ~(Probe \/ Understand \/ Diagnose \/ ProposeNothing \/ ProposeSteps
          \/ GateDecides \/ UserReplies \/ DeviceReturns \/ Settle)
  BY DEF Probe, Understand, Diagnose, ProposeNothing, ProposeSteps, GateDecides,
         UserReplies, DeviceReturns, Settle, Resumes, Record
<1>3. ~(EndBatch \/ SkipFrozen \/ SkipHalted \/ Judge \/ PutQuestion \/ NoQuestion
          \/ Refuse \/ TakeAnswer \/ NotForTheDevice \/ NoChannel \/ Perform \/ Assess)
  BY DEF EndBatch, SkipFrozen, SkipHalted, NotAttempted, Considering, Judge,
         PutQuestion, NoQuestion, Refuse, TakeAnswer, NotForTheDevice, NoChannel,
         Acting, Perform, Record, Assess, StopWaits
<1> QED BY <1>1, <1>2, <1>3 DEF Next, Progress

\* The actions that end the loop body: each records the step in hand.
Recording == Refuse \/ TakeAnswer \/ NotForTheDevice \/ NoChannel \/ DeviceReturns

LEMMA RecordingRecords ==
    ASSUME Recording
    PROVE  /\ HasStep
           /\ \E outcome \in Outcome : Record(outcome)
BY DEF Recording, Refuse, TakeAnswer, NotForTheDevice, NoChannel, DeviceReturns,
       Acting, Resumes, HasStep, Outcome

\* An unfrozen run pays for its proposals, one recorded step at least each.
LEMMA PacedStep == TypeOK /\ InHand /\ Paced /\ [Next]_vars => Paced'
<1> SUFFICES ASSUME TypeOK, InHand, Paced, [Next]_vars, ~frozen' PROVE Paced'
  BY DEF Paced
<1> USE DEF loopVars
<1>0. proposals \in Nat /\ executed \in Nat
  BY DEF TypeOK
<1>1. CASE Recording
  <2>1. PICK outcome \in Outcome : Record(outcome)
    BY <1>1, RecordingRecords
  <2>2. ~frozen /\ executed' = executed + 1 /\ proposals' = proposals /\ phase' = "batch"
    BY <2>1 DEF Record, Count
  <2> QED BY <1>0, <2>2 DEF Paced
<1>2. CASE ProposeSteps
  <2>1. batch' # <<>> /\ ~halted' /\ phase' = "batch" /\ phase = "propose"
    BY <1>2, BatchTyped DEF ProposeSteps, Resumes
  <2>2. proposals' = proposals + 1 /\ executed' = executed /\ frozen' = frozen
    BY <1>2 DEF ProposeSteps
  <2> QED BY <1>0, <2>1, <2>2 DEF Paced
<1>3. CASE EndBatch
  <2>1. /\ proposals' = proposals /\ executed' = executed /\ frozen' = frozen
        /\ phase' = "propose" => batch = <<>> /\ phase = "batch"
        /\ phase' \in {"propose", "assess"}
    BY <1>0, <1>3 DEF EndBatch, LoopHead
  <2> QED BY <1>0, <2>1 DEF Paced
<1>4. CASE SkipFrozen \/ SkipHalted
  <2>1. /\ proposals' = proposals /\ executed' = executed /\ frozen' = frozen
        /\ phase' = phase /\ phase = "batch"
        /\ halted' = halted
        /\ frozen \/ halted
    BY <1>4 DEF SkipFrozen, SkipHalted, NotAttempted, Considering
  <2> QED BY <1>0, <2>1 DEF Paced
<1>5. CASE Probe \/ Understand \/ Diagnose
  <2>1. /\ proposals' = proposals /\ executed' = executed /\ frozen' = frozen
        /\ phase \in {"capabilities", "intake", "diagnose"}
        /\ phase' # "batch"
    BY <1>5 DEF Probe, Understand, Diagnose, Resumes, LoopHead
  <2> QED BY <1>0, <2>1 DEF Paced
<1>6. CASE \/ Judge \/ GateDecides \/ PutQuestion \/ UserReplies \/ NoQuestion \/ Perform
           \/ ProposeNothing \/ Assess \/ Settle \/ Unwind \/ Reject
  <2>1. proposals' = proposals /\ executed' = executed /\ frozen' = frozen
    BY <1>6 DEF Judge, GateDecides, PutQuestion, UserReplies, NoQuestion, Perform,
                ProposeNothing, Assess, Settle, Unwind, Reject
  <2>2. phase' \notin {"capabilities", "intake", "diagnose", "propose", "batch"}
    BY <1>6 DEF Judge, GateDecides, PutQuestion, UserReplies, NoQuestion, Perform,
                ProposeNothing, Assess, Settle, Unwind, Reject
  <2> QED BY <1>0, <2>1, <2>2 DEF Paced
<1>7. CASE UserStop \/ UNCHANGED vars
  BY <1>7 DEF UserStop, vars, Paced
<1> QED BY <1>1, <1>2, <1>3, <1>4, <1>5, <1>6, <1>7
        DEF Next, Progress, Recording, Terminated

\* Whatever is asked of anyone is asked for the step in hand, once each.
LEMMA SpentStep == TypeOK /\ InHand /\ Spent /\ [Next]_vars => Spent'
<1> SUFFICES ASSUME TypeOK, InHand, Spent, [Next]_vars PROVE Spent'
  OBVIOUS
<1> USE DEF loopVars, history
<1>0. /\ executed \in Nat
      /\ approvals \in Seq([step: Steps, approved: BOOLEAN])
      /\ asked \in Seq(Steps)
      /\ ran \in Seq([step: Steps, by: RuleId])
      /\ Len(approvals) \in Nat /\ Len(asked) \in Nat /\ Len(ran) \in Nat
  BY DEF TypeOK
<1>1. CASE Recording
  <2>1. PICK outcome \in Outcome : Record(outcome)
    BY <1>1, RecordingRecords
  <2>2. /\ executed' = executed + 1
        /\ UNCHANGED <<approvals, asked, ran>>
    BY <2>1 DEF Record, Count
  <2>3. phase # "stopped"
    BY <1>1, RecordingRecords DEF HasStep
  <2> QED BY <1>0, <2>2, <2>3 DEF Spent, Covered, BudgetHolds
<1>2. CASE GateDecides
  <2>1. /\ phase = "approval" /\ phase' = "cleared"
        /\ Len(approvals') = Len(approvals) + 1
        /\ UNCHANGED <<executed, asked, ran>>
    BY <1>0, <1>2 DEF GateDecides, Resumes
  <2>2. executed < StepBudget
    BY <2>1 DEF InHand, HasStep
  <2> QED BY <1>0, <2>1, <2>2 DEF Spent, Covered, BudgetHolds
<1>3. CASE PutQuestion
  <2>1. /\ phase = "cleared" /\ phase' = "question"
        /\ Len(asked') = Len(asked) + 1
        /\ UNCHANGED <<executed, approvals, ran>>
    BY <1>0, <1>3 DEF PutQuestion
  <2>2. executed < StepBudget
    BY <2>1 DEF InHand, HasStep
  <2> QED BY <1>0, <2>1, <2>2 DEF Spent, Covered, BudgetHolds
<1>4. CASE Perform
  <2>1. /\ phase = "act" /\ phase' = "execute"
        /\ Len(ran') = Len(ran) + 1
        /\ UNCHANGED <<executed, approvals, asked>>
    BY <1>0, <1>4 DEF Perform, Acting
  <2>2. executed < StepBudget
    BY <2>1 DEF InHand, HasStep
  <2> QED BY <1>0, <2>1, <2>2 DEF Spent, Covered, BudgetHolds
<1>5. CASE UserReplies \/ NoQuestion
  <2>1. /\ phase \in {"cleared", "question"} /\ phase' = "act"
        /\ UNCHANGED <<executed, approvals, asked, ran>>
    BY <1>5 DEF UserReplies, NoQuestion, Resumes
  <2> QED BY <1>0, <2>1 DEF Spent, Covered, BudgetHolds
<1>6. CASE \/ Probe \/ Understand \/ Diagnose \/ ProposeNothing \/ ProposeSteps \/ EndBatch
           \/ SkipFrozen \/ SkipHalted \/ Judge \/ Assess \/ Settle \/ Reject
  <2>1. UNCHANGED <<executed, approvals, asked, ran>>
    BY <1>6 DEF Probe, Understand, Diagnose, ProposeNothing, ProposeSteps, EndBatch,
                SkipFrozen, SkipHalted, NotAttempted, Judge, Assess, Settle, Reject
  <2>2. phase \notin {"cleared", "question", "act", "execute", "stopped"}
    BY <1>6 DEF Probe, Understand, Diagnose, ProposeNothing, ProposeSteps, EndBatch,
                SkipFrozen, SkipHalted, Considering, Judge, Assess, Settle, Reject, Resumes
  <2> QED BY <1>0, <2>1, <2>2 DEF Spent, Covered, BudgetHolds
<1>7. CASE Unwind
  BY <1>7 DEF Unwind, Spent, BudgetHolds
<1>8. CASE UserStop \/ UNCHANGED vars
  BY <1>8 DEF UserStop, vars, Spent, Covered, BudgetHolds
<1> QED BY <1>1, <1>2, <1>3, <1>4, <1>5, <1>6, <1>7, <1>8
        DEF Next, Progress, Recording, Terminated

-----------------------------------------------------------------------------
\* The inductive invariant holds in every state of every run.
THEOREM Invariance == Spec => []IInv
<1>1. Init => IInv
  BY InitHolds
<1>2. IInv /\ [Next]_vars => IInv'
  BY TypeStep, InHandStep, StopStep, PacedStep, SpentStep DEF IInv
<1> QED BY <1>1, <1>2, PTL DEF Spec

\* The state of a run keeps its shape.
THEOREM TypeCorrect == Spec => []TypeOK
BY Invariance, PTL DEF IInv

\* The budget bounds what the device, the technician and the user are asked.
THEOREM BudgetIsKept == Spec => []BudgetHolds
<1>1. IInv => BudgetHolds
  BY DEF IInv, Spent
<1> QED BY <1>1, Invariance, PTL

\* An unfrozen run cannot propose for ever.
THEOREM ProposalsArePaced == Spec => []BudgetPacesProposals
<1>1. IInv => BudgetPacesProposals
  BY DEF IInv, Paced, BudgetPacesProposals
<1> QED BY <1>1, Invariance, PTL

\* The history grows at three points, each with a step in hand.
LEMMA HistoryNeedsAStep ==
    ASSUME [Next]_vars, ~UNCHANGED history
    PROVE  /\ HasStep
           /\ GateDecides \/ PutQuestion \/ Perform
<1>1. GateDecides \/ PutQuestion \/ Perform
  <2> USE DEF history
  <2>1. ~(Unwind \/ Probe \/ Understand \/ Diagnose \/ ProposeNothing \/ ProposeSteps
            \/ EndBatch \/ SkipFrozen \/ SkipHalted \/ Judge \/ UserReplies \/ NoQuestion
            \/ Assess \/ Settle \/ UserStop \/ Reject \/ UNCHANGED vars)
    BY DEF Unwind, Probe, Understand, Diagnose, ProposeNothing, ProposeSteps, EndBatch,
           SkipFrozen, SkipHalted, NotAttempted, Judge, UserReplies, NoQuestion, Assess,
           Settle, UserStop, Reject, vars
  <2>2. ~Recording
    BY RecordingRecords DEF Record
  <2> QED BY <2>1, <2>2 DEF Next, Progress, Recording, Terminated
<1> QED BY <1>1 DEF HasStep, GateDecides, PutQuestion, Perform, Resumes, Acting

\* After a hard block no declared change reaches the device again.
THEOREM FrozenChangesNothing == Spec => FrozenMeansNoDeclaredChange
<1>1. IInv /\ [Next]_vars => [frozen /\ ran' # ran => ~Step.mutating]_vars
  BY HistoryNeedsAStep DEF IInv, InHand, Attempts, history
<1> QED BY <1>1, Invariance, PTL DEF Spec, FrozenMeansNoDeclaredChange

\* A halted batch asks nothing of anyone.
THEOREM HaltedBatchIsOver == Spec => RefusalEndsTheBatch
<1>1. IInv /\ [Next]_vars => [halted => UNCHANGED history]_vars
  BY HistoryNeedsAStep DEF IInv, InHand, Attempts
<1> QED BY <1>1, Invariance, PTL DEF Spec, RefusalEndsTheBatch

\* After the user's stop nothing is started, recorded or concluded.
THEOREM StopIsObeyed == Spec => StopIsFinal
<1>1. IInv /\ [Next]_vars => [stop => UNCHANGED <<history, results, run>>]_vars
  <2> SUFFICES ASSUME IInv, [Next]_vars, stop PROVE UNCHANGED <<history, results, run>>
    OBVIOUS
  <2>1. Suspended \/ Ended
    BY DEF IInv, StopWaits
  <2>2. Unwind \/ Reject \/ UserStop \/ Terminated \/ UNCHANGED vars
    <3>1. ~(Probe \/ Understand \/ Diagnose \/ ProposeNothing \/ ProposeSteps
              \/ GateDecides \/ UserReplies \/ DeviceReturns \/ Settle)
      BY DEF Probe, Understand, Diagnose, ProposeNothing, ProposeSteps, GateDecides,
             UserReplies, DeviceReturns, Settle, Resumes
    <3>2. ~(EndBatch \/ SkipFrozen \/ SkipHalted \/ Judge \/ PutQuestion \/ NoQuestion
              \/ Refuse \/ TakeAnswer \/ NotForTheDevice \/ NoChannel \/ Perform \/ Assess)
      BY <2>1 DEF Suspended, Ended, EndBatch, SkipFrozen, SkipHalted, Considering, Judge,
             PutQuestion, NoQuestion, Refuse, TakeAnswer, NotForTheDevice, NoChannel,
             Acting, Perform, Assess
    <3> QED BY <3>1, <3>2 DEF Next, Progress
  <2> QED BY <2>2 DEF Unwind, Reject, UserStop, Terminated, vars, history
<1> QED BY <1>1, Invariance, PTL DEF Spec, StopIsFinal

-----------------------------------------------------------------------------
(***************************************************************************)
(* What the record of a run says, and how the run ends.                    *)
(***************************************************************************)
\* What may run with nobody attached to the run.
Reversible(step) ==
    LET verdict == Evaluate(step, ticket.posture)
    IN  \/ verdict.decision = "allow"
        \/ /\ ticket.gate = "standing-policy"
           /\ verdict.decision = "require_approval"
           /\ verdict.rule \in PreAuthorised
           /\ step.rollback

\* The verdict in hand is the engine's, unless the gate made an allow of it.
AsJudged ==
    HasStep =>
        /\ cleared.decision # "allow" => cleared = Judgment
        /\ cleared.decision = "allow" =>
              /\ ~cleared.escalate /\ Step.hits = {}
              /\ ticket.gate # "browser" => Reversible(Step)
        /\ phase = "approval" => cleared.decision = "require_approval"
        /\ phase = "execute" => cleared.decision = "allow"

Awaiting == {"awaiting_approval", "awaiting_user"}

\* A run that met a guardrail, or waits, proposes nothing more that it could
\* call a resolution.
Books ==
    /\ phase \in {"capabilities", "intake", "diagnose"} =>
          results = <<>> /\ ~halted /\ ~frozen
    /\ phase = "propose" => ~wantsHuman
    /\ halted => frozen \/ wantsHuman
    /\ \A i \in DOMAIN results :
          /\ results[i].outcome \in Awaiting => wantsHuman
          /\ results[i].step.hits # {} => frozen \/ wantsHuman

\* A refusal carries the categories of its step, or none that a team owns.
RefusedFor(result) ==
    result.outcome = "blocked" =>
        /\ result.verdict.escalate <=> result.step.hits # {}
        /\ result.verdict.categories =
              IF result.step.hits # {} THEN result.step.hits ELSE {"routine"}

Refusals ==
    /\ \A i \in DOMAIN results : RefusedFor(results[i])
    /\ frozen => \E i \in DOMAIN results :
                    results[i].outcome = "blocked" /\ results[i].step.hits # {}

\* What is called resolved is clean, and stays so: the loop is over.
Concluding == phase \in {"assess", "document", "done", "stopped", "rejected"}

ResolvedClean ==
    resolved => /\ Concluding /\ ~frozen
                /\ \A i \in DOMAIN results :
                      results[i].outcome \notin Awaiting /\ results[i].step.hits = {}

Conclusion ==
    /\ phase # "done" => run = NoRun
    /\ phase = "done" => run.status = Status
    /\ phase \in {"document", "done"} /\ wantsHuman => escalation.triggered
    /\ FrozenRunIsHandedOver

SaidNo == \E i \in DOMAIN approvals : ~approvals[i].approved

\* After a "no" the step is refused, and with it the batch and the run end.
NoStands ==
    SaidNo => \/ /\ phase \in {"cleared", "act"}
                 /\ cleared.decision = "require_approval" /\ Step.kind # "ask_user"
              \/ phase = "batch" /\ halted /\ wantsHuman
              \/ Concluding

\* The results that reached the device.
Reached == {i \in DOMAIN results : ReachedDevice(results[i])}

\* at lists the members of a set of numbers in increasing order.
Lists(at, n, set) ==
    /\ \A i, j \in 1..n : i < j => at[i] < at[j]
    /\ \A r \in set : \E i \in 1..n : at[i] = r

\* The first n actions of the device are the results that reached it, in order.
Tells(n) ==
    \E at \in [1..n -> Reached] :
        /\ Lists(at, n, Reached)
        /\ \A i \in 1..n : results[at[i]].step = ran[i].step

\* The action in flight, the last, is that of the step in hand.
Reported ==
    /\ phase \notin {"execute", "stopped"} => Tells(Len(ran))
    /\ phase = "execute" =>
          /\ Len(ran) # 0 /\ Tells(Len(ran) - 1)
          /\ ran[Len(ran)].step = Step
          /\ Step.kind \in DeviceKind /\ HasChannel(Step)

Account ==
    /\ AsJudged /\ Books /\ Refusals /\ ResolvedClean /\ Conclusion /\ NoStands
    /\ UnattendedWorkIsReversible /\ Reported

-----------------------------------------------------------------------------
\* What a step that is carried out leaves behind: what its verdict refuses is
\* recorded so, and what is recorded as done was done by the device.
LEMMA RecordingSays ==
    ASSUME TypeOK, InHand, AsJudged, Recording
    PROVE  \E outcome \in Outcome :
              /\ Record(outcome)
              /\ HasStep /\ phase \in {"act", "execute"}
              /\ cleared.decision = "block" <=> outcome = "blocked"
              /\ outcome = "blocked" => cleared = Judgment
              /\ Step.kind \in DeviceKind /\ outcome \in {"success", "failed"}
                 /\ HasChannel(Step) => phase = "execute"
              /\ phase = "execute" => outcome \in {"success", "failed"}
<1>1. HasStep /\ phase \in {"act", "execute"}
  BY DEF Recording, Refuse, TakeAnswer, NotForTheDevice, NoChannel, DeviceReturns, Acting,
         Resumes, HasStep
<1>2. cleared.decision \in Decision
  BY DEF TypeOK, PolicyVerdict
<1>3. cleared.decision # "allow" => cleared = Judgment
  BY <1>1 DEF AsJudged
<1>4. CASE Refuse
  <2>1. Record(IF cleared.decision = "block" THEN "blocked" ELSE "awaiting_approval")
    BY <1>4 DEF Refuse
  <2>2. cleared.decision # "allow" /\ phase = "act"
    BY <1>4 DEF Refuse
  <2> QED BY <1>1, <1>3, <2>1, <2>2 DEF Outcome
<1>5. CASE TakeAnswer
  <2>1. /\ Record(IF answered THEN "success" ELSE "awaiting_user")
        /\ cleared.decision = "allow" /\ phase = "act" /\ Step.kind \notin DeviceKind
    BY <1>5 DEF TakeAnswer, Acting, DeviceKind
  <2> QED BY <1>1, <2>1 DEF Outcome
<1>6. CASE NotForTheDevice
  BY <1>1, <1>6 DEF NotForTheDevice, Acting, Outcome
<1>7. CASE NoChannel
  BY <1>1, <1>7 DEF NoChannel, Acting, Outcome
<1>8. CASE DeviceReturns
  <2>1. phase = "execute" /\ cleared.decision = "allow"
    BY <1>1, <1>8 DEF DeviceReturns, Resumes, AsJudged
  <2> QED BY <1>1, <1>8, <2>1 DEF DeviceReturns, Outcome
<1> QED BY <1>4, <1>5, <1>6, <1>7, <1>8 DEF Recording

\* A step that is only judged is recorded with the engine's verdict.
Skipping == SkipFrozen \/ SkipHalted

LEMMA SkippingSays ==
    ASSUME Skipping
    PROVE  \E outcome \in {"skipped", "blocked"} :
              /\ NotAttempted(outcome)
              /\ phase = "batch" /\ batch # <<>>
              /\ frozen \/ halted
              /\ outcome = "blocked" => Judgment.decision = "block"
<1>1. CASE SkipFrozen
  BY <1>1 DEF SkipFrozen, Considering
<1>2. CASE SkipHalted
  <2>1. NotAttempted(IF Judgment.decision = "block" THEN "blocked" ELSE "skipped")
    BY <1>2 DEF SkipHalted
  <2> QED BY <1>2, <2>1 DEF SkipHalted, Considering
<1> QED BY <1>1, <1>2 DEF Skipping

\* Appending adds one entry and leaves the others where they are.
LEMMA AppendSays ==
    ASSUME NEW S, NEW s \in Seq(S), NEW x, NEW t, t = Append(s, x)
    PROVE  /\ Len(s) \in Nat /\ DOMAIN s = 1..Len(s)
           /\ Len(t) = Len(s) + 1
           /\ DOMAIN t = DOMAIN s \cup {Len(s) + 1}
           /\ t[Len(s) + 1] = x
           /\ \A i \in DOMAIN s : t[i] = s[i]
           /\ \A i \in DOMAIN t : t[i] = x \/ (i \in DOMAIN s /\ t[i] = s[i])
<1>1. PICK n \in Nat : n = Len(s)
  OBVIOUS
<1>2. DOMAIN s = 1..n /\ DOMAIN t = 1..(n + 1) /\ Len(t) = n + 1
  BY <1>1
<1>3. 1..(n + 1) = 1..n \cup {n + 1}
  BY <1>1
<1>4. t[n + 1] = x /\ \A i \in 1..n : t[i] = s[i]
  BY <1>1
<1>5. ASSUME NEW T, NEW f, NEW k, f[k] = x, \A i \in T : f[i] = s[i]
      PROVE  \A i \in T \cup {k} : f[i] = x \/ (i \in T /\ f[i] = s[i])
  BY <1>5
<1>6. \A i \in 1..n \cup {n + 1} : t[i] = x \/ (i \in 1..n /\ t[i] = s[i])
  BY <1>4, <1>5
<1>7. \A i \in DOMAIN t : t[i] = x \/ (i \in DOMAIN s /\ t[i] = s[i])
  BY <1>2, <1>3, <1>6, Zenon
<1> QED BY <1>1, <1>2, <1>3, <1>4, <1>7

\* The record grows by one result at a time, and nothing else touches it.
LEMMA RecordGrows ==
    ASSUME TypeOK, NEW result, results' = Append(results, result)
    PROVE  /\ DOMAIN results' = DOMAIN results \cup {Len(results) + 1}
           /\ Len(results) \in Nat /\ DOMAIN results = 1..Len(results)
           /\ results'[Len(results) + 1] = result
           /\ \A i \in DOMAIN results : results'[i] = results[i]
<1>1. results \in Seq(StepResult)
  BY DEF TypeOK
<1> QED BY <1>1, AppendSays

LEMMA RecordStands ==
    ASSUME [Next]_vars, ~Recording, ~Skipping
    PROVE  results' = results
BY DEF Next, Progress, Recording, Skipping, Unwind, Probe, Understand, Diagnose,
       ProposeNothing, ProposeSteps, EndBatch, Judge, GateDecides, PutQuestion, UserReplies,
       NoQuestion, Perform, Assess, Settle, UserStop, Reject, Terminated, vars

\* A run works one ticket.
LEMMA TicketIsFixed == [Next]_vars => ticket' = ticket
BY DEF Next, Progress, Unwind, Probe, Understand, Diagnose, ProposeNothing, ProposeSteps,
       EndBatch, SkipFrozen, SkipHalted, NotAttempted, Judge, GateDecides, PutQuestion,
       UserReplies, NoQuestion, Refuse, TakeAnswer, NotForTheDevice, NoChannel, Perform,
       DeviceReturns, Record, Assess, Settle, UserStop, Reject, Terminated, vars

\* What the engine says of the step in hand.
LEMMA JudgmentSays ==
    ASSUME TypeOK, batch # <<>>
    PROVE  /\ Judgment \in PolicyVerdict /\ Step \in PlanStep
           /\ Judgment.escalate <=> Step.hits # {}
           /\ Step.hits # {} => Judgment.decision = "block"
           /\ Judgment.decision = "block" =>
                 Judgment.categories = IF Step.hits # {} THEN Step.hits ELSE {"routine"}
           /\ Judgment.decision = "require_approval" => Step.kind \in DeviceKind
<1>1. Step \in PlanStep /\ Judgment \in PolicyVerdict
  BY StepTyped
<1>2. ticket.posture \in Posture
  BY TicketsAssumption DEF TypeOK, Ticket, TicketsAssumption
<1> QED BY <1>1, <1>2, VerdictSays DEF Judgment

\* The gate turns a verdict into an allow only for a step that nothing blocks,
\* and with nobody attached only where the standing authorisation covers it.
LEMMA JudgedStep == TypeOK /\ InHand /\ AsJudged /\ [Next]_vars => AsJudged'
<1> SUFFICES ASSUME TypeOK, InHand, AsJudged, [Next]_vars PROVE AsJudged'
  OBVIOUS
<1> USE TicketIsFixed
<1>1. CASE Judge
  <2>1. /\ batch # <<>> /\ Step' = Step /\ Judgment' = Judgment /\ cleared' = Judgment
        /\ phase' \in {"approval", "cleared"}
        /\ phase' = "approval" => Judgment.decision = "require_approval"
    BY <1>1 DEF Judge, Considering, Step, Judgment
  <2>2. Judgment.decision = "allow" => ~Judgment.escalate /\ Step.hits = {}
    BY <2>1, JudgmentSays
  <2>3. Judgment.decision = "allow" => Reversible(Step)'
    BY <2>1 DEF Reversible, Judgment
  <2> QED BY <2>1, <2>2, <2>3 DEF AsJudged
<1>2. CASE GateDecides
  <2>1. /\ phase = "approval" /\ phase' = "cleared" /\ batch' = batch /\ HasStep
        /\ Step' = Step /\ Judgment' = Judgment
    BY <1>2 DEF GateDecides, Resumes, Step, Judgment, HasStep
  <2>2. PICK approved \in GateAnswers(ticket.gate, Step, cleared) :
          cleared' = IF approved THEN [cleared EXCEPT !.decision = "allow"] ELSE cleared
    BY <1>2 DEF GateDecides
  <2>3. cleared = Judgment /\ cleared.decision = "require_approval" /\ cleared \in PolicyVerdict
    BY <2>1 DEF AsJudged, TypeOK
  <2>4. ~Judgment.escalate /\ Step.hits = {}
    BY <2>1, <2>3, JudgmentSays DEF InHand
  <2>5. CASE approved
    <3>1. cleared'.decision = "allow" /\ ~cleared'.escalate
      BY <2>2, <2>3, <2>4, <2>5 DEF PolicyVerdict
    <3>2. ASSUME ticket.gate # "browser" PROVE Reversible(Step)'
      <4>1. ticket.gate \in GateKind
        BY TicketsAssumption DEF TypeOK, TicketsAssumption, Ticket
      <4>2. ticket.gate = "standing-policy"
        BY <2>2, <2>5, <3>2, <4>1 DEF GateAnswers, GateKind
      <4>3. GateAnswers(ticket.gate, Step, cleared)
              = {cleared.rule \in PreAuthorised /\ Step.rollback}
        BY <4>2 DEF GateAnswers
      <4>4. cleared.rule \in PreAuthorised /\ Step.rollback
        BY <2>2, <2>5, <4>3
      <4>5. Reversible(Step)
        BY <2>3, <4>2, <4>4 DEF Reversible, Judgment
      <4> QED BY <2>1, <4>5 DEF Reversible
    <3> QED BY <2>1, <2>4, <3>1, <3>2 DEF AsJudged
  <2>6. CASE ~approved
    BY <2>1, <2>2, <2>3, <2>6 DEF AsJudged
  <2> QED BY <2>5, <2>6
<1>3. CASE PutQuestion \/ UserReplies \/ NoQuestion \/ Perform \/ UserStop \/ UNCHANGED vars
  <2>1. Step' = Step /\ Judgment' = Judgment /\ cleared' = cleared /\ ticket' = ticket
    BY <1>3 DEF PutQuestion, UserReplies, NoQuestion, Perform, UserStop, vars, Judgment, Step
  <2>2. /\ HasStep' => HasStep
        /\ phase' = "approval" => phase = "approval"
        /\ phase' = "execute" => phase = "execute" \/ cleared.decision = "allow"
    BY <1>3 DEF PutQuestion, UserReplies, NoQuestion, Perform, UserStop, vars, Resumes,
                Acting, HasStep
  <2>3. Reversible(Step)' <=> Reversible(Step)
    BY <2>1 DEF Reversible
  <2> QED BY <2>1, <2>2, <2>3 DEF AsJudged
<1>4. CASE Recording
  <2>1. PICK outcome \in Outcome : Record(outcome)
    BY <1>4, RecordingRecords
  <2> QED BY <2>1 DEF Record, AsJudged, HasStep
<1>5. CASE \/ Unwind \/ Reject \/ Probe \/ Understand \/ Diagnose \/ ProposeNothing
           \/ ProposeSteps \/ EndBatch \/ Skipping \/ Assess \/ Settle
  <2>1. ~HasStep'
    BY <1>5 DEF Unwind, Reject, Probe, Understand, Diagnose, ProposeNothing, ProposeSteps,
                EndBatch, Skipping, SkipFrozen, SkipHalted, NotAttempted, Considering,
                Assess, Settle, LoopHead, HasStep
  <2> QED BY <2>1 DEF AsJudged
<1> QED BY <1>1, <1>2, <1>3, <1>4, <1>5 DEF Next, Progress, Recording, Skipping, Terminated

-----------------------------------------------------------------------------
\* A guardrail freezes the run and a wait wants a person, so neither leaves a
\* loop that goes on as if it had not been met.
LEMMA BooksStep ==
    TypeOK /\ InHand /\ AsJudged /\ Books /\ [Next]_vars => Books'
<1> SUFFICES ASSUME TypeOK, InHand, AsJudged, Books, [Next]_vars PROVE Books'
  OBVIOUS
<1> USE DEF loopVars
<1>0. frozen \in BOOLEAN /\ halted \in BOOLEAN /\ wantsHuman \in BOOLEAN
  BY DEF TypeOK
<1>1. CASE Recording
  <2>1. PICK outcome \in Outcome :
           /\ Record(outcome) /\ HasStep
           /\ cleared.decision = "block" <=> outcome = "blocked"
    BY <1>1, RecordingSays
  <2>2. PICK result : result = [step |-> Step, verdict |-> cleared, outcome |-> outcome]
    OBVIOUS
  <2>3. /\ results' = Append(results, result) /\ phase' = "batch"
        /\ result.step = Step /\ result.outcome = outcome
        /\ halted' = (halted \/ HardBlocked(outcome) \/ Waiting(outcome))
        /\ frozen' = (frozen \/ HardBlocked(outcome))
        /\ wantsHuman' = (wantsHuman \/ Waiting(outcome))
    BY <2>1, <2>2 DEF Record
  <2>4. outcome \in Awaiting => wantsHuman'
    BY <2>3 DEF Awaiting, Waiting
  <2>5. Step.hits # {} => frozen'
    <3>1. cleared.decision \in Decision
      BY DEF TypeOK, PolicyVerdict
    <3>2. Step.hits # {} => cleared = Judgment
      BY <2>1 DEF AsJudged
    <3>3. Step.hits # {} => cleared.escalate /\ outcome = "blocked"
      BY <2>1, <3>2, JudgmentSays DEF InHand
    <3> QED BY <2>3, <3>3 DEF HardBlocked
  <2>6. /\ DOMAIN results' = DOMAIN results \cup {Len(results) + 1}
        /\ results'[Len(results) + 1] = result
        /\ \A i \in DOMAIN results : results'[i] = results[i]
    BY <2>3, RecordGrows
  <2>7. frozen => frozen'
    BY <2>3
  <2>8. wantsHuman => wantsHuman'
    BY <2>3
  <2>9. halted' => frozen' \/ wantsHuman'
    BY <2>3 DEF Books
  <2> QED BY <2>3, <2>4, <2>5, <2>6, <2>7, <2>8, <2>9 DEF Books
<1>2. CASE Skipping
  <2>1. PICK outcome \in {"skipped", "blocked"} :
           NotAttempted(outcome) /\ phase = "batch" /\ (frozen \/ halted)
    BY <1>2, SkippingSays
  <2>2. PICK result : result = [step |-> Step, verdict |-> Judgment, outcome |-> outcome]
    OBVIOUS
  <2>3. /\ results' = Append(results, result) /\ result.outcome = outcome
        /\ UNCHANGED <<phase, halted, frozen, wantsHuman>>
    BY <2>1, <2>2 DEF NotAttempted
  <2>4. /\ DOMAIN results' = DOMAIN results \cup {Len(results) + 1}
        /\ results'[Len(results) + 1] = result
        /\ \A i \in DOMAIN results : results'[i] = results[i]
    BY <2>3, RecordGrows
  <2>5. frozen \/ wantsHuman
    BY <2>1 DEF Books
  <2> QED BY <2>1, <2>3, <2>4, <2>5 DEF Books, Awaiting
<1>3. CASE Diagnose
  <2>1. /\ results = <<>> /\ UNCHANGED <<results, halted, frozen>> /\ ~halted
        /\ phase' \in {"propose", "assess"}
        /\ phase' = "propose" => ~wantsHuman'
    BY <1>3 DEF Diagnose, Resumes, LoopHead, Books
  <2> QED BY <2>1 DEF Books
<1>4. CASE ProposeNothing
  <2>1. ~wantsHuman /\ phase' = "assess" /\ UNCHANGED <<results, halted, frozen>>
    BY <1>4 DEF ProposeNothing, Resumes, Books
  <2> QED BY <2>1 DEF Books
<1>5. CASE ProposeSteps
  <2>1. ~halted' /\ phase' = "batch" /\ UNCHANGED <<results, frozen, wantsHuman>>
    BY <1>5 DEF ProposeSteps
  <2> QED BY <2>1 DEF Books
<1>6. CASE EndBatch
  <2>1. /\ UNCHANGED <<results, halted, frozen, wantsHuman>>
        /\ phase' \in {"propose", "assess"} /\ (phase' = "propose" => ~wantsHuman)
    BY <1>6 DEF EndBatch, LoopHead
  <2> QED BY <2>1 DEF Books
<1>7. CASE Probe \/ Understand
  <2>1. /\ UNCHANGED <<results, halted, frozen, wantsHuman>>
        /\ phase \in {"capabilities", "intake"} /\ phase' \in {"intake", "diagnose"}
    BY <1>7 DEF Probe, Understand, Resumes
  <2> QED BY <2>1 DEF Books
<1>8. CASE \/ Unwind \/ Reject \/ Judge \/ GateDecides \/ PutQuestion \/ UserReplies
           \/ NoQuestion \/ Perform \/ Assess \/ Settle
  <2>1. /\ UNCHANGED <<results, halted, frozen, wantsHuman>>
        /\ phase' \notin {"capabilities", "intake", "diagnose", "propose"}
    BY <1>8 DEF Unwind, Reject, Judge, GateDecides, PutQuestion, UserReplies, NoQuestion,
                Perform, Assess, Settle
  <2> QED BY <2>1 DEF Books
<1>9. CASE UserStop \/ UNCHANGED vars
  BY <1>9 DEF UserStop, vars, Books
<1> QED BY <1>1, <1>2, <1>3, <1>4, <1>5, <1>6, <1>7, <1>8, <1>9
        DEF Next, Progress, Recording, Skipping, Terminated

\* A refusal is recorded with the engine's own verdict, and freezing the run
\* takes one that a blocking rule gave.
LEMMA RefusalsStep ==
    TypeOK /\ InHand /\ AsJudged /\ Refusals /\ [Next]_vars => Refusals'
<1> SUFFICES ASSUME TypeOK, InHand, AsJudged, Refusals, [Next]_vars PROVE Refusals'
  OBVIOUS
<1>1. ASSUME NEW result, results' = Append(results, result), RefusedFor(result),
             frozen' => frozen \/ (result.outcome = "blocked" /\ result.step.hits # {})
      PROVE  Refusals'
  <2>1. /\ DOMAIN results' = DOMAIN results \cup {Len(results) + 1}
        /\ results'[Len(results) + 1] = result
        /\ \A i \in DOMAIN results : results'[i] = results[i]
    BY <1>1, RecordGrows
  <2>2. \A i \in DOMAIN results' : RefusedFor(results'[i])
    BY <1>1, <2>1 DEF Refusals
  <2>3. frozen' => \E i \in DOMAIN results' :
                      results'[i].outcome = "blocked" /\ results'[i].step.hits # {}
    BY <1>1, <2>1 DEF Refusals
  <2> QED BY <2>2, <2>3 DEF Refusals, RefusedFor
<1>2. CASE Recording
  <2>1. PICK outcome \in Outcome :
           /\ Record(outcome) /\ HasStep
           /\ cleared.decision = "block" <=> outcome = "blocked"
           /\ outcome = "blocked" => cleared = Judgment
    BY <1>2, RecordingSays
  <2>2. PICK result : result = [step |-> Step, verdict |-> cleared, outcome |-> outcome]
    OBVIOUS
  <2>3. /\ results' = Append(results, result)
        /\ result.step = Step /\ result.outcome = outcome /\ result.verdict = cleared
        /\ frozen' = (frozen \/ (outcome = "blocked" /\ cleared.escalate))
    BY <2>1, <2>2 DEF Record, HardBlocked
  <2>4. RefusedFor(result) /\ (outcome = "blocked" /\ cleared.escalate => Step.hits # {})
    BY <2>1, <2>3, JudgmentSays DEF InHand, RefusedFor
  <2> QED BY <1>1, <2>3, <2>4
<1>3. CASE Skipping
  <2>1. PICK outcome \in {"skipped", "blocked"} :
           /\ NotAttempted(outcome) /\ batch # <<>>
           /\ outcome = "blocked" => Judgment.decision = "block"
    BY <1>3, SkippingSays
  <2>2. PICK result : result = [step |-> Step, verdict |-> Judgment, outcome |-> outcome]
    OBVIOUS
  <2>3. /\ results' = Append(results, result) /\ frozen' = frozen
        /\ result.step = Step /\ result.outcome = outcome /\ result.verdict = Judgment
    BY <2>1, <2>2 DEF NotAttempted, loopVars
  <2>4. RefusedFor(result)
    BY <2>1, <2>3, JudgmentSays DEF RefusedFor
  <2> QED BY <1>1, <2>3, <2>4
<1>4. CASE ~Recording /\ ~Skipping
  <2>1. results' = results
    BY <1>4, RecordStands
  <2>2. frozen' = frozen
    BY <1>4 DEF Next, Progress, Recording, Skipping, Unwind, Probe, Understand, Diagnose,
                ProposeNothing, ProposeSteps, EndBatch, Judge, GateDecides, PutQuestion,
                UserReplies, NoQuestion, Perform, Assess, Settle, UserStop, Reject,
                Terminated, vars, loopVars
  <2> QED BY <2>1, <2>2 DEF Refusals, RefusedFor
<1> QED BY <1>2, <1>3, <1>4

\* A claim to have resolved the ticket is believed of a clean run only, and the
\* loop is then over.
LEMMA ResolvedStep ==
    TypeOK /\ Books /\ ResolvedClean /\ [Next]_vars => ResolvedClean'
<1> SUFFICES ASSUME TypeOK, Books, ResolvedClean, [Next]_vars, resolved' PROVE ResolvedClean'
  BY DEF ResolvedClean
<1> USE DEF loopVars
<1>1. CASE ProposeNothing
  <2>1. ~wantsHuman /\ phase' = "assess" /\ UNCHANGED <<results, frozen>> /\ ~frozen
    BY <1>1 DEF ProposeNothing, Resumes, Books, Believed
  <2> QED BY <2>1 DEF Books, ResolvedClean, Concluding
<1>2. CASE ~ProposeNothing
  <2>1. resolved' = resolved
    BY <1>2 DEF Next, Progress, Unwind, Probe, Understand, Diagnose, ProposeSteps, EndBatch,
                SkipFrozen, SkipHalted, NotAttempted, Judge, GateDecides, PutQuestion,
                UserReplies, NoQuestion, Refuse, TakeAnswer, NotForTheDevice, NoChannel,
                Perform, DeviceReturns, Record, Assess, Settle, UserStop, Reject,
                Terminated, vars
  <2>2. Concluding
    BY <2>1 DEF ResolvedClean
  <2>3. Assess \/ Settle \/ Unwind \/ UserStop \/ Reject \/ Terminated \/ UNCHANGED vars
    BY <1>2, <2>2 DEF Concluding, Next, Progress, Probe, Understand, Diagnose, ProposeSteps,
                EndBatch, SkipFrozen, SkipHalted, Considering, Judge, GateDecides,
                PutQuestion, UserReplies, NoQuestion, Refuse, TakeAnswer, NotForTheDevice,
                NoChannel, Perform, DeviceReturns, Resumes, Acting
  <2>4. Concluding' /\ UNCHANGED <<results, frozen, resolved>>
    BY <2>2, <2>3 DEF Concluding, Assess, Settle, Unwind, UserStop, Reject, Terminated, vars
  <2> QED BY <2>4 DEF ResolvedClean
<1> QED BY <1>1, <1>2

-----------------------------------------------------------------------------
\* No team owns what is routine (TEAM_FOR_CATEGORY, escalation.ts), so whether
\* it is among the categories makes no difference to who gets the ticket.
LEMMA OwnerOfEither ==
    ASSUME NEW A, NEW B, A \ {"routine"} = B \ {"routine"}
    PROVE  OwnerOf(A) = OwnerOf(B)
<1>1. \A i \in DOMAIN TeamForCategory : TeamForCategory[i][1] # "routine"
  BY DEF TeamForCategory
<1> DEFINE owned(X) == {i \in DOMAIN TeamForCategory : TeamForCategory[i][1] \in X}
           owner(set) == IF set = {} THEN "service-desk-tier-2"
                         ELSE TeamForCategory[CHOOSE i \in set : \A j \in set : i <= j][2]
<1>2. owned(A) = owned(B)
  BY <1>1
<1>3. OwnerOf(A) = owner(owned(A)) /\ OwnerOf(B) = owner(owned(B))
  BY DEF OwnerOf
<1> HIDE DEF owned, owner
<1> QED BY <1>2, <1>3

\* The categories the verdicts carry lead to the owner of those of the steps.
LEMMA RefusedOwner ==
    ASSUME Refusals
    PROVE  LET refused == WithOutcome(results, {"blocked"})
           IN  OwnerOf(BlockedCategories(results))
                 = OwnerOf(UNION {results[i].step.hits : i \in refused})
<1> DEFINE refused == WithOutcome(results, {"blocked"})
<1>1. \A i \in refused : results[i].verdict.categories \ {"routine"}
                           = results[i].step.hits \ {"routine"}
  BY DEF Refusals, RefusedFor, WithOutcome
<1>2. BlockedCategories(results) = UNION {results[i].verdict.categories : i \in refused}
  BY DEF BlockedCategories
<1> HIDE DEF refused
<1>3. BlockedCategories(results) \ {"routine"}
        = (UNION {results[i].step.hits : i \in refused}) \ {"routine"}
  BY <1>1, <1>2
<1> QED BY <1>3, OwnerOfEither DEF refused

\* A frozen run is escalated as a policy block, urgently, to the right team.
LEMMA FrozenIsAssessed ==
    ASSUME TypeOK, Refusals, frozen, ~resolved, Assess
    PROVE  FrozenRunIsHandedOver'
<1>1. PICK in : in = EscalationInput
  OBVIOUS
<1>2. /\ in.ticket = ticket /\ in.results = results /\ in.resolved = resolved
  BY <1>1 DEF EscalationInput
<1>3. PICK i \in DOMAIN results : results[i].outcome = "blocked" /\ results[i].step.hits # {}
  BY DEF Refusals
<1>4. i \in WithOutcome(results, {"blocked"}) /\ results[i].verdict.escalate
  BY <1>3 DEF WithOutcome, Refusals, RefusedFor
<1>5. "policy-block" \in TriggersOf(in)
  BY <1>2, <1>4 DEF TriggersOf, Trigger, Any
<1>6. "needs-hands-on" \in TriggersOf(in) <=> ticket.handsOn
  BY <1>2 DEF TriggersOf, Trigger
<1>7. AssessEscalation(in) =
        [triggered |-> TRUE, triggers |-> TriggersOf(in), urgency |-> UrgencyOf(in),
         route |-> RouteFor(TriggersOf(in), in), handover |-> BuildHandover(in)]
  BY <1>5 DEF AssessEscalation
<1>8. /\ escalation'.triggers = TriggersOf(in)
      /\ escalation'.urgency = UrgencyOf(in)
      /\ escalation'.route = RouteFor(TriggersOf(in), in)
  <2>1. escalation' = AssessEscalation(in)
    BY <1>1, <1>7 DEF Assess
  <2> QED BY <1>7, <2>1
<1>9. UrgencyOf(in) >= High
  <2>1. UrgencyOf(in) = Highest(ticket.priority, High)
    BY <1>2, <1>4 DEF UrgencyOf
  <2>2. ticket.priority \in 1..4
    BY TicketsAssumption DEF TypeOK, TicketsAssumption, Ticket, Severity
  <2> QED BY <2>1, <2>2 DEF Highest, High
<1>10. RouteFor(TriggersOf(in), in) =
         IF ticket.handsOn THEN "field-services" ELSE OwnerOf(BlockedCategories(results))
  BY <1>2, <1>5, <1>6 DEF RouteFor
<1>11. UNCHANGED <<ticket, results, frozen, resolved>>
  BY DEF Assess, loopVars
<1> QED BY <1>5, <1>8, <1>9, <1>10, <1>11, RefusedOwner DEF FrozenRunIsHandedOver

\* What is assessed is what is documented, and what is returned.
LEMMA ConclusionStep ==
    TypeOK /\ Refusals /\ ResolvedClean /\ Conclusion /\ [Next]_vars => Conclusion'
<1> SUFFICES ASSUME TypeOK, Refusals, ResolvedClean, Conclusion, [Next]_vars
             PROVE  Conclusion'
  OBVIOUS
<1> USE DEF loopVars
<1>1. CASE Assess
  <2>1. phase' = "document" /\ run' = run /\ wantsHuman' = wantsHuman /\ frozen' = frozen
    BY <1>1 DEF Assess
  <2>2. wantsHuman => escalation'.triggered
    <3>1. PICK e : e = AssessEscalation(EscalationInput)
      OBVIOUS
    <3>2. escalation' = IF wantsHuman /\ ~e.triggered
                        THEN [e EXCEPT !.triggered = TRUE, !.triggers = {"low-confidence"}]
                        ELSE e
      BY <1>1, <3>1 DEF Assess
    <3>3. e = [triggered |-> e.triggered, triggers |-> e.triggers, urgency |-> e.urgency,
               route |-> e.route, handover |-> e.handover]
      BY <3>1 DEF AssessEscalation
    <3> QED BY <3>2, <3>3
  <2>3. FrozenRunIsHandedOver'
    <3>1. CASE frozen
      BY <1>1, <3>1, FrozenIsAssessed DEF ResolvedClean
    <3>2. CASE ~frozen
      BY <2>1, <3>2 DEF FrozenRunIsHandedOver
    <3> QED BY <3>1, <3>2
  <2>4. run = NoRun
    BY <1>1 DEF Assess, Conclusion
  <2> QED BY <2>1, <2>2, <2>3, <2>4 DEF Conclusion
<1>2. CASE Settle
  <2>1. /\ phase = "document" /\ phase' = "done" /\ run'.status = Status
        /\ UNCHANGED <<ticket, results, resolved, wantsHuman, frozen, escalation>>
    BY <1>2 DEF Settle, Resumes
  <2>2. Status' = Status
    BY <2>1 DEF Status, Any, WithOutcome
  <2>3. FrozenRunIsHandedOver'
    BY <2>1 DEF Conclusion, FrozenRunIsHandedOver, WithOutcome
  <2> QED BY <2>1, <2>2, <2>3 DEF Conclusion
<1>3. CASE UserStop \/ UNCHANGED vars
  <2>1. UNCHANGED <<ticket, phase, results, resolved, wantsHuman, frozen, escalation, run>>
    BY <1>3 DEF UserStop, vars
  <2>2. Status' = Status /\ (FrozenRunIsHandedOver => FrozenRunIsHandedOver')
    BY <2>1 DEF Status, Any, WithOutcome, FrozenRunIsHandedOver
  <2> QED BY <2>1, <2>2 DEF Conclusion
<1>4. CASE ~(Assess \/ Settle \/ UserStop \/ UNCHANGED vars)
  <2>1. phase # "done" /\ phase' \notin {"document", "done"} /\ run' = run
    <3>1. CASE Recording
      <4>1. PICK outcome \in Outcome : Record(outcome) /\ HasStep
        BY <3>1, RecordingRecords
      <4> QED BY <4>1 DEF Record, HasStep
    <3>2. CASE Skipping
      BY <3>2 DEF Skipping, SkipFrozen, SkipHalted, NotAttempted, Considering
    <3>3. CASE ~Recording /\ ~Skipping
      BY <1>4, <3>3 DEF Next, Progress, Recording, Skipping, Unwind, Probe, Understand,
                        Diagnose, ProposeNothing, ProposeSteps, EndBatch, LoopHead, Judge,
                        GateDecides, PutQuestion, UserReplies, NoQuestion, Perform, Reject,
                        Terminated, Suspended, Resumes, Acting, Considering
    <3> QED BY <3>1, <3>2, <3>3
  <2> QED BY <2>1 DEF Conclusion, FrozenRunIsHandedOver
<1> QED BY <1>1, <1>2, <1>3, <1>4

-----------------------------------------------------------------------------
\* A "no" refuses the step in hand, which halts its batch and wants a person,
\* and so ends the loop.
LEMMA NoStep ==
    TypeOK /\ InHand /\ AsJudged /\ NoStands /\ [Next]_vars => NoStands'
<1> SUFFICES ASSUME TypeOK, InHand, AsJudged, NoStands, [Next]_vars, SaidNo'
             PROVE  NoStands'
  BY DEF NoStands
<1> USE DEF loopVars, history
<1>1. CASE GateDecides
  <2>1. /\ phase = "approval" /\ phase' = "cleared" /\ batch' = batch
        /\ Step' = Step /\ batch # <<>>
    BY <1>1 DEF GateDecides, Resumes, Step, InHand, HasStep
  <2>2. cleared = Judgment /\ cleared.decision = "require_approval"
    BY <2>1 DEF AsJudged, HasStep
  <2>3. Step.kind # "ask_user"
    BY <2>1, <2>2, JudgmentSays DEF DeviceKind
  <2>4. PICK approved \in GateAnswers(ticket.gate, Step, cleared) :
          /\ approvals' = Append(approvals, [step |-> Step, approved |-> approved])
          /\ cleared' = IF approved THEN [cleared EXCEPT !.decision = "allow"] ELSE cleared
    BY <1>1 DEF GateDecides
  <2>5. ~SaidNo
    BY <2>1 DEF NoStands, Concluding
  <2>6. ~approved
    <3> SUFFICES ASSUME approved PROVE FALSE
      OBVIOUS
    <3>1. PICK entry : entry = [step |-> Step, approved |-> approved]
      OBVIOUS
    <3>2. approvals' = Append(approvals, entry) /\ entry.approved
      BY <2>4, <3>1
    <3>3. PICK s : s = approvals
      OBVIOUS
    <3>4. s \in Seq([step: Steps, approved: BOOLEAN])
      BY <3>3 DEF TypeOK
    <3>5. PICK i \in DOMAIN Append(s, entry) : ~Append(s, entry)[i].approved
      BY <3>2, <3>3 DEF SaidNo
    <3>6. i \in DOMAIN s /\ Append(s, entry)[i] = s[i]
      BY <3>2, <3>4, <3>5
    <3> QED BY <2>5, <3>3, <3>5, <3>6 DEF SaidNo
  <2> QED BY <2>1, <2>2, <2>3, <2>4, <2>6 DEF NoStands
<1>2. CASE ~GateDecides
  <2>1. approvals' = approvals
    <3>1. CASE UNCHANGED history
      BY <3>1
    <3>2. CASE ~UNCHANGED history
      BY <1>2, <3>2, HistoryNeedsAStep DEF PutQuestion, Perform
    <3> QED BY <3>1, <3>2
  <2>2. SaidNo
    BY <2>1 DEF SaidNo
  <2>3. CASE Recording
    <3>1. PICK outcome \in Outcome :
             /\ Record(outcome) /\ HasStep
             /\ cleared.decision = "require_approval" => Waiting(outcome)
      <4>1. CASE Refuse
        BY <4>1 DEF Refuse, Outcome, Waiting, HasStep
      <4>2. CASE ~Refuse
        <5>1. cleared.decision = "allow" \/ phase = "execute"
          BY <2>3, <4>2 DEF Recording, TakeAnswer, NotForTheDevice, NoChannel, DeviceReturns,
                            Acting, Resumes
        <5>2. cleared.decision = "allow"
          BY <5>1 DEF AsJudged, HasStep
        <5> QED BY <2>3, <5>2, RecordingRecords
      <4> QED BY <4>1, <4>2
    <3>2. cleared.decision = "require_approval"
      BY <2>2, <3>1 DEF NoStands, HasStep, Concluding
    <3>3. phase' = "batch" /\ halted' /\ wantsHuman'
      BY <3>1, <3>2 DEF Record
    <3> QED BY <3>3 DEF NoStands
  <2>4. CASE Skipping
    <3>1. /\ phase = "batch" /\ UNCHANGED <<phase, halted, wantsHuman>>
      BY <2>4 DEF Skipping, SkipFrozen, SkipHalted, NotAttempted, Considering
    <3> QED BY <2>2, <3>1 DEF NoStands, Concluding
  <2>5. CASE UserStop \/ UNCHANGED vars
    <3>1. UNCHANGED <<phase, halted, wantsHuman, cleared, batch>>
      BY <2>5 DEF UserStop, vars
    <3> QED BY <2>2, <3>1 DEF NoStands, Concluding, Step
  <2>6. CASE EndBatch
    <3>1. phase = "batch" /\ (wantsHuman => phase' = "assess")
      BY <2>6 DEF EndBatch, LoopHead
    <3> QED BY <2>2, <3>1 DEF NoStands, Concluding
  <2>7. CASE NoQuestion
    <3>1. phase = "cleared" /\ phase' = "act" /\ UNCHANGED <<cleared, batch>>
      BY <2>7 DEF NoQuestion
    <3> QED BY <2>2, <3>1 DEF NoStands, Concluding, Step
  <2>8. CASE Assess \/ Settle \/ Unwind \/ Reject \/ Terminated
    <3>1. phase' \in {"document", "done", "stopped", "rejected"}
      BY <2>8 DEF Assess, Settle, Unwind, Reject, Terminated, Ended, vars
    <3> QED BY <3>1 DEF NoStands, Concluding
  <2>9. ~(Probe \/ Understand \/ Diagnose \/ ProposeNothing \/ ProposeSteps \/ Judge
            \/ PutQuestion \/ UserReplies \/ Perform)
    BY <2>2 DEF NoStands, Concluding, Probe, Understand, Diagnose, ProposeNothing,
                ProposeSteps, Judge, Considering, Attempts, PutQuestion, NeedsAnswer,
                UserReplies, Perform, Resumes, Acting
  <2> QED BY <1>2, <2>3, <2>4, <2>5, <2>6, <2>7, <2>8, <2>9
          DEF Next, Progress, Recording, Skipping
<1> QED BY <1>1, <1>2

\* What the device is told to do with nobody attached can be undone.
LEMMA UnattendedStep ==
    TypeOK /\ AsJudged /\ UnattendedWorkIsReversible /\ [Next]_vars
      => UnattendedWorkIsReversible'
<1> SUFFICES ASSUME TypeOK, AsJudged, UnattendedWorkIsReversible, [Next]_vars
             PROVE  UnattendedWorkIsReversible'
  OBVIOUS
<1> USE TicketIsFixed DEF history
<1>1. CASE Perform
  <2>1. Reversible(Step) \/ ticket.gate = "browser"
    BY <1>1 DEF Perform, Acting, AsJudged, HasStep
  <2>2. PICK done : done = [step |-> Step, by |-> cleared.rule]
    OBVIOUS
  <2>3. ran' = Append(ran, done) /\ done.step = Step
    BY <1>1, <2>2 DEF Perform
  <2>4. ran \in Seq([step: Steps, by: RuleId])
    BY DEF TypeOK
  <2>6. \A i \in DOMAIN ran' : ran'[i] = done \/ (i \in DOMAIN ran /\ ran'[i] = ran[i])
    BY <2>3, <2>4, AppendSays
  <2>7. ticket.gate # "browser" => \A i \in DOMAIN ran' : Reversible(ran'[i].step)
    BY <2>1, <2>3, <2>6 DEF UnattendedWorkIsReversible, Reversible
  <2> QED BY <2>7 DEF UnattendedWorkIsReversible, Reversible
<1>2. CASE ~Perform
  <2>1. ran' = ran
    <3>1. CASE UNCHANGED history
      BY <3>1
    <3>2. CASE ~UNCHANGED history
      BY <1>2, <3>2, HistoryNeedsAStep DEF GateDecides, PutQuestion
    <3> QED BY <3>1, <3>2
  <2> QED BY <2>1 DEF UnattendedWorkIsReversible
<1> QED BY <1>1, <1>2

-----------------------------------------------------------------------------
\* more lists one number more than at, after the others.
OneLonger(more, at, n, set, last) ==
    /\ more \in [1..(n + 1) -> set \cup {last}]
    /\ Lists(more, n + 1, set \cup {last})
    /\ \A i \in 1..n : more[i] = at[i]
    /\ more[n + 1] = last

\* A list of numbers up to m goes on with m + 1.
LEMMA OneMore ==
    ASSUME NEW n \in Nat, NEW m \in Nat, NEW set, set \subseteq 1..m,
           NEW at \in [1..n -> set], Lists(at, n, set)
    PROVE  \E more : OneLonger(more, at, n, set, m + 1)
<1> USE DEF Lists
<1> DEFINE more == [i \in 1..(n + 1) |-> IF i = n + 1 THEN m + 1 ELSE at[i]]
<1>1. 1..(n + 1) = 1..n \cup {n + 1} /\ n + 1 \notin 1..n
  OBVIOUS
<1>2. more[n + 1] = m + 1 /\ \A i \in 1..n : more[i] = at[i]
  BY <1>1
<1>3. more \in [1..(n + 1) -> set \cup {m + 1}]
  BY <1>1
<1>4. \A i \in 1..n : at[i] \in set /\ at[i] \in Nat /\ at[i] < m + 1
  <2>1. \A r \in set : r \in Nat /\ r < m + 1
    OBVIOUS
  <2>2. \A i \in 1..n : at[i] \in set
    OBVIOUS
  <2> QED BY <2>1, <2>2
<1> HIDE DEF more
<1>5. ASSUME NEW i \in 1..(n + 1), NEW j \in 1..(n + 1), i < j PROVE more[i] < more[j]
  <2>1. i \in 1..n
    BY <1>5
  <2>2. CASE j = n + 1
    BY <1>2, <1>4, <2>1, <2>2
  <2>3. CASE j # n + 1
    <3>1. j \in 1..n
      BY <2>3
    <3>2. at[i] < at[j]
      BY <1>5, <2>1, <3>1
    <3> QED BY <1>2, <2>1, <3>1, <3>2
  <2> QED BY <2>2, <2>3
<1>6. \A r \in set \cup {m + 1} : \E i \in 1..(n + 1) : more[i] = r
  BY <1>1, <1>2
<1> QED BY <1>2, <1>3, <1>5, <1>6 DEF OneLonger

\* Nothing is added to the record: what it tells stands.
LEMMA TellsStands ==
    ASSUME NEW n, Tells(n), UNCHANGED <<ticket, results>>,
           \A i \in 1..n : ran'[i].step = ran[i].step
    PROVE  Tells(n)'
<1>1. Reached' = Reached
  BY DEF Reached, ReachedDevice, HasChannel
<1>2. PICK at \in [1..n -> Reached] :
        /\ Lists(at, n, Reached)
        /\ \A i \in 1..n : results[at[i]].step = ran[i].step
  BY DEF Tells
<1>3. \A i \in 1..n : results'[at[i]].step = ran'[i].step
  BY <1>2
<1> QED BY <1>1, <1>2, <1>3 DEF Tells

\* A result that did not reach the device tells nothing of it.
LEMMA TellsNoMore ==
    ASSUME NEW n, Tells(n), TypeOK, NEW result, results' = Append(results, result),
           UNCHANGED <<ticket, ran>>, ~ReachedDevice(result)
    PROVE  Tells(n)'
<1>1. /\ \A i \in DOMAIN results : results'[i] = results[i]
      /\ \A i \in DOMAIN results : i \in DOMAIN results'
      /\ \A i \in DOMAIN results' : results'[i] = result \/ i \in DOMAIN results
  BY RecordGrows
<1>2. Reached' = Reached
  BY <1>1 DEF Reached, ReachedDevice, HasChannel
<1>3. \A i \in Reached : results'[i] = results[i]
  BY <1>1 DEF Reached
<1>4. PICK at \in [1..n -> Reached] :
        /\ Lists(at, n, Reached)
        /\ \A i \in 1..n : results[at[i]].step = ran[i].step
  BY DEF Tells
<1>5. \A i \in 1..n : results'[at[i]].step = ran'[i].step
  BY <1>3, <1>4
<1> QED BY <1>2, <1>4, <1>5 DEF Tells

\* A result that reached the device tells of the action after the first n.
LEMMA TellsOneMore ==
    ASSUME NEW n \in Nat, Tells(n), TypeOK, NEW result, results' = Append(results, result),
           UNCHANGED <<ticket, ran>>, ReachedDevice(result), result.step = ran[n + 1].step
    PROVE  Tells(n + 1)'
<1>0. PICK m \in Nat : m = Len(results) /\ DOMAIN results = 1..m
  BY RecordGrows
<1>1. /\ \A i \in DOMAIN results : results'[i] = results[i]
      /\ results'[m + 1] = result
      /\ DOMAIN results' = DOMAIN results \cup {m + 1}
  BY <1>0, RecordGrows
<1>2. Reached' = Reached \cup {m + 1}
  BY <1>1 DEF Reached, ReachedDevice, HasChannel
<1>3. Reached \subseteq 1..m /\ \A i \in Reached : results'[i] = results[i]
  BY <1>0, <1>1 DEF Reached
<1>4. PICK at \in [1..n -> Reached] :
        /\ Lists(at, n, Reached)
        /\ \A i \in 1..n : results[at[i]].step = ran[i].step
  BY DEF Tells
<1>5. PICK more \in [1..(n + 1) -> Reached \cup {m + 1}] :
        /\ Lists(more, n + 1, Reached \cup {m + 1})
        /\ \A i \in 1..n : more[i] = at[i]
        /\ more[n + 1] = m + 1
  <2>1. PICK set : set = Reached
    OBVIOUS
  <2>2. m \in Nat /\ set \subseteq 1..m /\ at \in [1..n -> set] /\ Lists(at, n, set)
    BY <1>0, <1>3, <1>4, <2>1
  <2>3. PICK more : OneLonger(more, at, n, set, m + 1)
    BY <2>2, OneMore
  <2> QED BY <2>1, <2>3 DEF OneLonger
<1>6. \A i \in 1..n : results'[more[i]].step = ran'[i].step
  <2>1. \A i \in 1..n : at[i] \in Reached
    BY <1>4
  <2>2. \A i \in 1..n : results'[more[i]] = results[at[i]]
    BY <1>3, <1>5, <2>1
  <2> QED BY <1>4, <2>2
<1>7. results'[more[n + 1]].step = ran'[n + 1].step
  BY <1>1, <1>5
<1>8. \A i \in 1..(n + 1) : i \in 1..n \/ i = n + 1
  OBVIOUS
<1>9. \A i \in 1..(n + 1) : results'[more[i]].step = ran'[i].step
  BY <1>6, <1>7, <1>8
<1> QED BY <1>2, <1>5, <1>9 DEF Tells

\* Every action of the device gets its result, and a result that speaks of the
\* device had its action.
LEMMA ReportedStep ==
    TypeOK /\ InHand /\ AsJudged /\ Reported /\ [Next]_vars => Reported'
<1> SUFFICES ASSUME TypeOK, InHand, AsJudged, Reported, [Next]_vars PROVE Reported'
  OBVIOUS
<1>0. ticket' = ticket
  BY TicketIsFixed
<1>1. Len(ran) \in Nat /\ ran \in Seq([step: Steps, by: RuleId])
  BY DEF TypeOK
<1>2. CASE Recording
  <2>1. PICK outcome \in Outcome :
           /\ Record(outcome) /\ HasStep /\ phase \in {"act", "execute"}
           /\ Step.kind \in DeviceKind /\ outcome \in {"success", "failed"}
              /\ HasChannel(Step) => phase = "execute"
           /\ phase = "execute" => outcome \in {"success", "failed"}
    BY <1>2, RecordingSays
  <2>2. PICK result : result = [step |-> Step, verdict |-> cleared, outcome |-> outcome]
    OBVIOUS
  <2>3. /\ results' = Append(results, result) /\ phase' = "batch" /\ ran' = ran
        /\ result.step = Step /\ result.outcome = outcome
    BY <2>1, <2>2 DEF Record
  <2>4. CASE phase = "execute"
    <3>1. PICK n \in Nat : n + 1 = Len(ran)
      BY <1>1, <2>4 DEF Reported
    <3>2. Tells(n) /\ ran[n + 1].step = Step
      <4>1. n = Len(ran) - 1
        BY <3>1
      <4> QED BY <2>4, <3>1, <4>1 DEF Reported
    <3>3. ReachedDevice(result)
      BY <2>1, <2>3, <2>4 DEF Reported, ReachedDevice
    <3>4. Tells(n + 1)'
      BY <1>0, <2>3, <3>2, <3>3, TellsOneMore
    <3>5. Len(ran') = n + 1
      BY <2>3, <3>1
    <3> QED BY <2>3, <3>4, <3>5 DEF Reported
  <2>5. CASE phase = "act"
    <3>1. ~ReachedDevice(result)
      BY <2>1, <2>3, <2>5 DEF ReachedDevice
    <3>2. PICK n : n = Len(ran) /\ Tells(n)
      BY <2>5 DEF Reported
    <3>3. Tells(n)'
      BY <1>0, <2>3, <3>1, <3>2, TellsNoMore
    <3> QED BY <2>3, <3>2, <3>3 DEF Reported
  <2> QED BY <2>1, <2>4, <2>5
<1>3. CASE Skipping
  <2>1. PICK outcome \in {"skipped", "blocked"} : NotAttempted(outcome) /\ phase = "batch"
    BY <1>3, SkippingSays
  <2>2. PICK result : result = [step |-> Step, verdict |-> Judgment, outcome |-> outcome]
    OBVIOUS
  <2>3. /\ results' = Append(results, result) /\ phase' = "batch" /\ ran' = ran
        /\ ~ReachedDevice(result)
    BY <2>1, <2>2 DEF NotAttempted, history, ReachedDevice
  <2>4. PICK n : n = Len(ran) /\ Tells(n)
    BY <2>1 DEF Reported
  <2>5. Tells(n)'
    BY <1>0, <2>3, <2>4, TellsNoMore
  <2> QED BY <2>3, <2>4, <2>5 DEF Reported
<1>4. CASE Perform
  <2>1. /\ phase = "act" /\ phase' = "execute" /\ results' = results /\ batch' = batch
        /\ Step.kind \in DeviceKind /\ HasChannel(Step)
    BY <1>4 DEF Perform, Acting
  <2>2. PICK done : done = [step |-> Step, by |-> cleared.rule]
    OBVIOUS
  <2>3. ran' = Append(ran, done) /\ done.step = Step
    BY <1>4, <2>2 DEF Perform
  <2>4. PICK n \in Nat : n = Len(ran)
    BY <1>1
  <2>5. /\ Len(ran') = n + 1 /\ ran'[n + 1] = done
        /\ \A i \in 1..n : ran'[i] = ran[i]
    BY <1>1, <2>3, <2>4, AppendSays
  <2>6. Tells(n)
    BY <2>1, <2>4 DEF Reported
  <2>7. Tells(n)'
    BY <1>0, <2>1, <2>5, <2>6, TellsStands
  <2>8. Len(ran') # 0 /\ Tells(Len(ran) - 1)'
    <3>1. n + 1 - 1 = n /\ n + 1 # 0
      OBVIOUS
    <3>2. Len(ran') # 0 /\ Len(ran') - 1 = n
      BY <2>5, <3>1
    <3> QED BY <2>7, <3>2
  <2>9. ran'[Len(ran')].step = Step' /\ Step' = Step /\ (HasChannel(Step) => HasChannel(Step)')
    BY <1>0, <2>1, <2>3, <2>5 DEF Step, HasChannel
  <2> QED BY <2>1, <2>8, <2>9 DEF Reported
<1>5. CASE ~Recording /\ ~Skipping /\ ~Perform
  <2>1. results' = results /\ ran' = ran
    <3>1. ran' = ran
      <4>1. CASE UNCHANGED history
        BY <4>1 DEF history
      <4>2. CASE ~UNCHANGED history
        BY <1>5, <4>2, HistoryNeedsAStep DEF GateDecides, PutQuestion
      <4> QED BY <4>1, <4>2
    <3> QED BY <1>5, <3>1, RecordStands
  <2>2. /\ phase' # "stopped" => phase # "stopped"
        /\ phase' # "stopped" => (phase' = "execute" <=> phase = "execute")
        /\ phase' = "execute" => batch' = batch
    BY <1>5 DEF Next, Progress, Recording, Skipping, Unwind, Probe, Understand, Diagnose,
                ProposeNothing, ProposeSteps, EndBatch, LoopHead, Considering, Judge,
                GateDecides, PutQuestion, UserReplies, NoQuestion, Assess, Settle, UserStop,
                Reject, Terminated, vars, Resumes, Suspended
  <2>3. \A n : Tells(n) => Tells(n)'
    BY <1>0, <2>1, TellsStands
  <2>4. phase' = "execute" => Step' = Step /\ (HasChannel(Step) => HasChannel(Step)')
    BY <1>0, <2>2 DEF Step, HasChannel
  <2>5. PICK n : n = Len(ran)
    OBVIOUS
  <2>6. PICK k : k = Len(ran) - 1
    OBVIOUS
  <2>7. Len(ran') = n /\ Len(ran') - 1 = k
    BY <2>1, <2>5, <2>6
  <2> QED BY <2>1, <2>2, <2>3, <2>4, <2>5, <2>6, <2>7 DEF Reported
<1> QED BY <1>2, <1>3, <1>4, <1>5

-----------------------------------------------------------------------------
\* The account holds before anything is recorded.
LEMMA AccountStarts == Init => Account
<1> SUFFICES ASSUME Init PROVE Account
  OBVIOUS
<1>1. AsJudged /\ Books /\ ResolvedClean /\ NoStands
  BY DEF Init, AsJudged, HasStep, Books, ResolvedClean, NoStands, SaidNo
<1>2. Refusals /\ UnattendedWorkIsReversible
  BY DEF Init, Refusals, UnattendedWorkIsReversible
<1>3. Conclusion
  BY DEF Init, Conclusion, FrozenRunIsHandedOver
<1>4. Reported
  <2>1. Reached = {} /\ Len(ran) = 0 /\ phase = "capabilities"
    BY DEF Init, Reached
  <2>2. [i \in 1..0 |-> i] \in [1..0 -> {}] /\ Lists([i \in 1..0 |-> i], 0, {})
    BY DEF Lists
  <2>3. Tells(0)
    BY <2>1, <2>2 DEF Tells
  <2> QED BY <2>1, <2>3 DEF Reported
<1> QED BY <1>1, <1>2, <1>3, <1>4 DEF Account

\* The account holds in every state of every run.
THEOREM AccountIsKept == Spec => []Account
<1>1. IInv /\ Account /\ [Next]_vars => Account'
  BY JudgedStep, BooksStep, RefusalsStep, ResolvedStep, ConclusionStep, NoStep,
     UnattendedStep, ReportedStep DEF IInv, Account
<1> QED BY <1>1, AccountStarts, Invariance, PTL DEF Spec

\* No device action is lost from, added to or reordered in the record, as long
\* as no stop interrupts a call that is in flight (loop.ts:393-405).
THEOREM RecordIsTrue == Spec => []EveryActionIsReported
<1>1. IInv /\ Account => EveryActionIsReported
  <2> SUFFICES ASSUME IInv, Account, phase \notin {"execute", "stopped"}
               PROVE  RecordIsComplete
    BY DEF EveryActionIsReported
  <2>1. Tells(Len(ran))
    BY DEF Account, Reported
  <2>2. DOMAIN ran = 1..Len(ran)
    BY DEF IInv, TypeOK
  <2> QED BY <2>1, <2>2 DEF Tells, Lists, Reached, RecordIsComplete
<1> QED BY <1>1, AccountIsKept, Invariance, PTL

\* A ticket is reported resolved only if no guardrail refused a step of it and
\* nothing in it waits for an approval or an answer (loop.ts:258-260, 420-442).
THEOREM ResolvedMeansClean == Spec => []ResolvedIsClean
<1>1. Account => ResolvedIsClean
  <2> SUFFICES ASSUME Account, run.status = "resolved"
               PROVE  /\ ~Any(results, "awaiting_approval")
                      /\ ~Any(results, "awaiting_user")
                      /\ \A i \in DOMAIN results : results[i].step.hits = {}
    BY DEF ResolvedIsClean
  <2>1. phase = "done"
    BY DEF Account, Conclusion, NoRun
  <2>2. Status = "resolved"
    BY <2>1 DEF Account, Conclusion
  <2>3. resolved
    BY <2>2 DEF Status
  <2> QED BY <2>3 DEF Account, ResolvedClean, Awaiting, Any, WithOutcome
<1> QED BY <1>1, AccountIsKept, PTL

\* A run that stopped at the gate or on an unanswered question ends escalated:
\* no ticket is left waiting for a run that is over (loop.ts:501-504).
THEOREM WaitingEndsEscalated == Spec => []NoRunEndsWaiting
<1>1. Account => NoRunEndsWaiting
  <2> SUFFICES ASSUME Account, phase = "done",
                      Any(results, "awaiting_approval") \/ Any(results, "awaiting_user")
               PROVE  run.status = "escalated"
    BY DEF NoRunEndsWaiting
  <2>1. PICK i \in DOMAIN results : results[i].outcome \in Awaiting
    BY DEF Any, WithOutcome, Awaiting
  <2>2. wantsHuman /\ ~resolved
    BY <2>1 DEF Account, Books, ResolvedClean
  <2>3. escalation.triggered /\ run.status = Status
    BY <2>2 DEF Account, Conclusion
  <2> QED BY <2>2, <2>3 DEF Status
<1> QED BY <1>1, AccountIsKept, PTL

\* A run frozen by a guardrail is never resolved and reaches, at high urgency
\* or more, the team that owns the most urgent category refused, unless someone
\* must go to the machine first (loop.ts:420-427, escalation.ts:80-87, 181-194).
THEOREM FrozenIsHandedOver == Spec => []FrozenRunIsHandedOver
<1>1. Account => FrozenRunIsHandedOver
  BY DEF Account, Conclusion
<1> QED BY <1>1, AccountIsKept, PTL

\* With nobody attached, what runs is read-only by policy or a pre-authorised
\* kind of change that says how it is undone (approvals.ts:36-93).
THEOREM UnattendedIsReversible == Spec => []UnattendedWorkIsReversible
<1>1. Account => UnattendedWorkIsReversible
  BY DEF Account
<1> QED BY <1>1, AccountIsKept, PTL

\* After a technician's "no" the run does nothing on the device, asks for no
\* other approval and asks the user nothing (loop.ts:428-436).
THEOREM NoIsObeyed == Spec => NoIsFinal
<1>1. IInv /\ Account /\ [Next]_vars
        => [(\E i \in DOMAIN approvals : ~approvals[i].approved) => UNCHANGED history]_vars
  <2> SUFFICES ASSUME Account, [Next]_vars, SaidNo, ~UNCHANGED history PROVE FALSE
    BY DEF SaidNo
  <2>1. GateDecides \/ PutQuestion \/ Perform
    BY HistoryNeedsAStep
  <2> QED BY <2>1 DEF Account, NoStands, Concluding, GateDecides, PutQuestion, NeedsAnswer,
                      Perform, Resumes, Acting
<1> QED BY <1>1, AccountIsKept, Invariance, PTL DEF Spec, NoIsFinal

-----------------------------------------------------------------------------
(***************************************************************************)
(* Every run of the agent loop implements GovernedDevice, for any steps,   *)
(* tickets and budget: the device acts only on a fresh permit for that     *)
(* very step, never on a blocked one, never on a declared change after a   *)
(* hard block, and never once the user has taken it back.                  *)
(***************************************************************************)

\* The engine both modules speak of is the same one.
LEMMA SameEngine ==
    /\ \A step, posture : Governed!Evaluate(step, posture) = Evaluate(step, posture)
    /\ Governed!Posture = Posture
<1>1. ASSUME NEW step PROVE Governed!EvaluateCommand(step) = EvaluateCommand(step)
  BY DEF Governed!EvaluateCommand, EvaluateCommand, Governed!Verdict, Verdict,
         Governed!CategoryOf, CategoryOf
<1>2. ASSUME NEW step PROVE Governed!EvaluateOnDevice(step) = EvaluateOnDevice(step)
  BY <1>1 DEF Governed!EvaluateOnDevice, EvaluateOnDevice, Governed!Verdict, Verdict
<1>3. ASSUME NEW step, NEW posture
      PROVE  Governed!Evaluate(step, posture) = Evaluate(step, posture)
  BY <1>2 DEF Governed!Evaluate, Evaluate, Governed!Verdict, Verdict
<1> QED BY <1>3 DEF Governed!Posture, Posture

\* The verdict in hand is the engine's, or what an approval made of it.
Vetted ==
    /\ phase = "approval" => Judgment.decision = "require_approval"
    /\ phase \in {"cleared", "question", "act", "execute"} /\ cleared.decision = "allow"
         => Judgment.decision # "block"

\* A verdict is replaced by an approval, of a verdict that asks for one, only.
LEMMA VettedStep == InHand /\ Vetted /\ [Next]_vars => Vetted'
<1> SUFFICES ASSUME InHand, Vetted, [Next]_vars PROVE Vetted'
  OBVIOUS
<1> USE TicketIsFixed
<1>1. CASE Judge
  <2>1. Judgment' = Judgment /\ cleared' = Judgment
    BY <1>1 DEF Judge, Judgment, Step
  <2> QED BY <1>1, <2>1 DEF Judge, Vetted
<1>2. CASE GateDecides
  <2>1. Judgment' = Judgment /\ Judgment.decision = "require_approval" /\ phase' = "cleared"
    BY <1>2 DEF GateDecides, Judgment, Step, Vetted, Resumes
  <2> QED BY <2>1 DEF Vetted
<1>3. CASE PutQuestion \/ UserReplies \/ NoQuestion \/ Perform
  <2>1. Judgment' = Judgment /\ cleared' = cleared
    BY <1>3 DEF PutQuestion, UserReplies, NoQuestion, Perform, Judgment, Step
  <2>2. /\ phase \in {"cleared", "question", "act"}
        /\ phase' \in {"question", "act", "execute"}
    BY <1>3 DEF PutQuestion, UserReplies, NoQuestion, Perform, Resumes, Acting
  <2> QED BY <2>1, <2>2 DEF Vetted
<1>4. CASE UserStop \/ UNCHANGED vars
  BY <1>4 DEF UserStop, vars, Vetted, Judgment, Step
<1>5. CASE Recording
  <2>1. PICK outcome \in Outcome : Record(outcome)
    BY <1>5, RecordingRecords
  <2> QED BY <2>1 DEF Record, Vetted
<1>6. CASE \/ Unwind \/ Reject \/ Probe \/ Understand \/ Diagnose \/ ProposeNothing
           \/ ProposeSteps \/ EndBatch \/ SkipFrozen \/ SkipHalted \/ Assess \/ Settle
  <2>1. phase' \notin {"approval", "cleared", "question", "act", "execute"}
    BY <1>6 DEF Unwind, Reject, Probe, Understand, Diagnose, ProposeNothing, ProposeSteps,
                EndBatch, SkipFrozen, SkipHalted, NotAttempted, Considering, Assess, Settle,
                LoopHead
  <2> QED BY <2>1 DEF Vetted
<1> QED BY <1>1, <1>2, <1>3, <1>4, <1>5, <1>6 DEF Next, Progress, Recording, Terminated

LEMMA VettedInvariance == Spec => []Vetted
<1>1. Init => Vetted
  BY DEF Init, Vetted
<1>2. IInv /\ Vetted /\ [Next]_vars => Vetted'
  BY VettedStep DEF IInv
<1> QED BY <1>1, <1>2, Invariance, PTL DEF Spec

-----------------------------------------------------------------------------
\* What the device performed, and what Governed calls it.
Performed == [i \in DOMAIN ran |-> ran[i].step]

\* One call of the session is one action performed.
LEMMA PerformedGrows ==
    ASSUME TypeOK, NEW r \in [step: Steps, by: RuleId], ran' = Append(ran, r)
    PROVE  Performed' = Append(Performed, r.step)
<1> DEFINE n == Len(ran)
<1>1. ran \in Seq([step: Steps, by: RuleId]) /\ n \in Nat
  BY DEF TypeOK
<1>2. DOMAIN ran = 1..n
  BY <1>1
<1>3. Performed \in Seq(Steps) /\ Len(Performed) = n
  <2>1. \A i \in 1..n : ran[i] \in [step: Steps, by: RuleId]
    BY <1>1, ElementOfSeq
  <2> QED BY <1>1, <1>2, <2>1 DEF Performed
<1>4. ran' \in Seq([step: Steps, by: RuleId]) /\ Len(ran') = n + 1
  BY <1>1
<1>5. DOMAIN ran' = 1..(n + 1)
  BY <1>4
<1>6. \A i \in 1..(n + 1) : ran'[i] = IF i = n + 1 THEN r ELSE ran[i]
  BY <1>1
<1>7. Performed' = [i \in 1..(n + 1) |-> IF i = n + 1 THEN r.step ELSE ran[i].step]
  BY <1>5, <1>6 DEF Performed
<1>8. r.step \in Steps
  OBVIOUS
<1>9. /\ DOMAIN Append(Performed, r.step) = 1..(n + 1)
      /\ \A i \in 1..(n + 1) :
           Append(Performed, r.step)[i] = IF i = n + 1 THEN r.step ELSE Performed[i]
      /\ Append(Performed, r.step) = [i \in DOMAIN Append(Performed, r.step) |->
                                         Append(Performed, r.step)[i]]
  BY <1>1, <1>3, <1>8
<1>10. \A i \in 1..n : Performed[i] = ran[i].step
  BY <1>2 DEF Performed
<1> QED BY <1>1, <1>7, <1>9, <1>10

-----------------------------------------------------------------------------
\* Where the run changes nothing the owner of the device was promised.
Unseen == UNCHANGED <<ticket, Permitted, ran, frozen, stop>>

LEMMA UnseenStutters == Unseen => UNCHANGED Governed!vars
BY DEF Unseen, Governed!vars

\* Each action of the loop is an action of GovernedDevice or none of them.
LEMMA GovernedStep ==
    IInv /\ IInv' /\ Vetted /\ [Next]_vars => [Governed!Next]_(Governed!vars)
<1> SUFFICES ASSUME IInv, IInv', Vetted, [Next]_vars
             PROVE  Governed!Next \/ UNCHANGED Governed!vars
  OBVIOUS
<1> USE DEF loopVars, history
<1>0. TypeOK /\ InHand /\ StopWaits /\ ticket' = ticket
  BY TicketIsFixed DEF IInv
<1>1. CASE Judge
  <2>1. /\ Permitted = {} /\ UNCHANGED <<ran, frozen, stop, halted, batch>>
        /\ cleared' = Judgment /\ Step' = Step
    BY <1>1 DEF Judge, Considering, Permitted, Step
  <2>2. CASE Permitted' = {}
    BY <1>0, <2>1, <2>2, UnseenStutters DEF Unseen
  <2>3. CASE Permitted' # {}
    <3>1. Permitted' = {Step} /\ Judgment.decision = "allow" /\ ~stop
      BY <2>1, <2>3 DEF Permitted
    <3>2. Step \in Steps /\ ~(frozen /\ Step.mutating)
      BY <1>0, <1>1, StepTyped DEF Judge, Considering, Attempts
    <3>3. Governed!Permit(Step)
      BY <1>0, <2>1, <3>1, <3>2, SameEngine DEF Governed!Permit, Governed!DecisionOn, Judgment
    <3> QED BY <3>2, <3>3 DEF Governed!Next
  <2> QED BY <2>2, <2>3
<1>2. CASE GateDecides
  <2>1. /\ Permitted = {} /\ UNCHANGED <<ran, frozen, stop, halted, batch>>
        /\ phase = "approval" /\ Step' = Step
    BY <1>2 DEF GateDecides, Resumes, Permitted, Step
  <2>2. CASE Permitted' = {}
    BY <1>0, <2>1, <2>2, UnseenStutters DEF Unseen
  <2>3. CASE Permitted' # {}
    <3>1. Permitted' = {Step} /\ ~stop
      BY <2>1, <2>3 DEF Permitted
    <3>2. Step \in Steps /\ ~(frozen /\ Step.mutating)
      BY <1>0, <2>1, StepTyped DEF InHand, HasStep, Attempts
    <3>3. Judgment.decision = "require_approval"
      BY <2>1 DEF Vetted
    <3>4. Governed!Permit(Step)
      BY <1>0, <2>1, <3>1, <3>2, <3>3, SameEngine DEF Governed!Permit, Governed!DecisionOn, Judgment
    <3> QED BY <3>2, <3>4 DEF Governed!Next
  <2> QED BY <2>2, <2>3
<1>3. CASE PutQuestion \/ UserReplies \/ NoQuestion
  <2>1. /\ UNCHANGED <<ran, frozen, stop, cleared, batch>>
        /\ phase \in {"cleared", "question"} /\ phase' \in {"question", "act"}
    BY <1>3 DEF PutQuestion, UserReplies, NoQuestion, Resumes
  <2>2. Permitted' = Permitted
    BY <2>1 DEF Permitted, Step
  <2> QED BY <1>0, <2>1, <2>2, UnseenStutters DEF Unseen
<1>4. CASE Perform
  <2>1. /\ phase = "act" /\ phase' = "execute" /\ cleared.decision = "allow"
        /\ ran' = Append(ran, [step |-> Step, by |-> cleared.rule])
        /\ UNCHANGED <<frozen, stop>>
    BY <1>4 DEF Perform, Acting
  <2>2. ~stop
    BY <1>0, <2>1 DEF StopWaits, Suspended, Ended
  <2>3. Permitted = {Step} /\ Permitted' = {}
    BY <2>1, <2>2 DEF Permitted
  <2>4. Step \in Steps /\ [step |-> Step, by |-> cleared.rule] \in [step: Steps, by: RuleId]
    BY <1>0, <2>1, StepTyped DEF InHand, HasStep, TypeOK, PolicyVerdict
  <2>5. Performed' = Append(Performed, Step)
    BY <1>0, <2>1, <2>4, PerformedGrows
  <2>6. Governed!Perform(Step)
    BY <1>0, <2>1, <2>2, <2>3, <2>5 DEF Governed!Perform, Performed
  <2>7. Step \in Steps
    BY <2>4
  <2>8. \E step \in Steps : Governed!Perform(step)
    BY <2>6, <2>7 DEF Governed!Perform
  <2> QED BY <2>8 DEF Governed!Next
<1>5. CASE Recording
  <2>1. PICK outcome \in Outcome : Record(outcome)
    BY <1>5, RecordingRecords
  <2>2. /\ UNCHANGED <<ran, stop>> /\ phase' = "batch"
        /\ frozen' = (frozen \/ HardBlocked(outcome))
    BY <2>1 DEF Record
  <2>3. Permitted' = {}
    BY <2>2 DEF Permitted
  <2>4. CASE frozen' = frozen
    BY <1>0, <2>2, <2>3, <2>4 DEF Governed!Next, Governed!Lapse
  <2>5. CASE frozen' # frozen
    <3>1. frozen' = TRUE
      BY <1>0, <2>2, <2>5 DEF TypeOK
    <3> QED BY <1>0, <2>2, <2>3, <3>1 DEF Governed!Next, Governed!Freeze
  <2> QED BY <2>4, <2>5
<1>6. CASE UserStop
  <2>1. stop' = TRUE /\ UNCHANGED <<ran, frozen>>
    BY <1>6 DEF UserStop
  <2>2. Permitted' = {}
    BY <2>1 DEF Permitted
  <2> QED BY <1>0, <2>1, <2>2 DEF Governed!Next, Governed!Close
<1>7. CASE Unwind
  <2>1. stop /\ phase' = "stopped" /\ UNCHANGED <<ran, frozen, stop>>
    BY <1>7 DEF Unwind
  <2>2. Permitted = {} /\ Permitted' = {}
    BY <2>1 DEF Permitted
  <2> QED BY <1>0, <2>1, <2>2, UnseenStutters DEF Unseen
<1>8. CASE \/ Reject \/ Probe \/ Understand \/ Diagnose \/ ProposeNothing \/ ProposeSteps
           \/ EndBatch \/ SkipFrozen \/ SkipHalted \/ Assess \/ Settle
  <2>1. UNCHANGED <<ran, frozen, stop>>
    BY <1>8 DEF Reject, Probe, Understand, Diagnose, ProposeNothing, ProposeSteps,
                EndBatch, SkipFrozen, SkipHalted, NotAttempted, Assess, Settle
  <2>2. {phase, phase'} \cap {"cleared", "question", "act"} = {}
    BY <1>8 DEF Reject, Probe, Understand, Diagnose, ProposeNothing, ProposeSteps,
                EndBatch, SkipFrozen, SkipHalted, NotAttempted, Considering, Assess, Settle,
                LoopHead, Resumes
  <2>3. Permitted = {} /\ Permitted' = {}
    BY <2>2 DEF Permitted
  <2> QED BY <1>0, <2>1, <2>3, UnseenStutters DEF Unseen
<1>9. CASE UNCHANGED vars
  <2>1. Unseen
    BY <1>9 DEF vars, Unseen, Permitted, Step
  <2> QED BY <2>1, UnseenStutters
<1> QED BY <1>1, <1>2, <1>3, <1>4, <1>5, <1>6, <1>7, <1>8, <1>9
        DEF Next, Progress, Recording, Terminated

\* The agent loop implements the promise made to the owner of the device.
THEOREM LoopIsGoverned == Spec => DeviceIsGoverned
<1>1. Init => Governed!Init
  <2> SUFFICES ASSUME Init PROVE Governed!Init
    OBVIOUS
  <2>1. ticket.posture \in Posture
    BY TicketsAssumption DEF Init, TicketsAssumption, Ticket
  <2>2. Permitted = {} /\ ran = <<>> /\ frozen = FALSE /\ stop = FALSE
    BY DEF Init, Permitted
  <2>3. [i \in DOMAIN ran |-> ran[i].step] = <<>>
    BY <2>2
  <2> QED BY <2>1, <2>2, <2>3, SameEngine DEF Governed!Init
<1>2. IInv /\ IInv' /\ Vetted /\ [Next]_vars => [Governed!Next]_(Governed!vars)
  BY GovernedStep
<1> QED
  BY <1>1, <1>2, Invariance, VettedInvariance, PTL DEF Spec, DeviceIsGoverned, Governed!Spec
=============================================================================
