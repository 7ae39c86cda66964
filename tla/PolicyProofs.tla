---------------------------- MODULE PolicyProofs -----------------------------
(***************************************************************************)
(* What PolicyLattice checks over two categories and two rules, proved of  *)
(* every step, every posture and every set of rules: the verdicts of       *)
(* evaluate() are well formed, only the read-only list allows a command,   *)
(* and only a blocking rule, always, demands that a human take over.       *)
(***************************************************************************)
EXTENDS PolicyLattice, TLAPS

\* The four steps of evaluate() that judge a command give a whole verdict.
LEMMA CommandVerdict ==
    ASSUME NEW s \in PlanStep
    PROVE  /\ EvaluateCommand(s) \in PolicyVerdict
           /\ EvaluateCommand(s).escalate = FALSE
           /\ EvaluateCommand(s).decision = "allow" <=>
                /\ ~s.empty /\ s.rule = "none"
                /\ ~s.unknown /\ ~s.dynamic /\ ~s.mutating
BY DEF EvaluateCommand, PlanStep, PolicyVerdict, Verdict, CategoryOf, Decision,
       RuleId, ApprovalRule, RiskCategory

\* And so does the judgement of any step that reaches a device.
LEMMA DeviceVerdict ==
    ASSUME NEW s \in PlanStep, s.kind \in DeviceKind
    PROVE  /\ EvaluateOnDevice(s) \in PolicyVerdict
           /\ EvaluateOnDevice(s).escalate = FALSE
           /\ EvaluateOnDevice(s).decision = "allow" <=>
                \/ s.kind \in {"screenshot", "read_file"}
                \/ /\ s.kind = "command"
                   /\ ~s.empty /\ s.rule = "none"
                   /\ ~s.unknown /\ ~s.dynamic /\ ~s.mutating
<1>1. CASE s.kind = "command"
  BY <1>1, CommandVerdict DEF EvaluateOnDevice
<1>2. CASE s.kind # "command"
  BY <1>2 DEF EvaluateOnDevice, DeviceKind, Verdict, PolicyVerdict, Decision,
              RuleId, RiskCategory
<1> QED BY <1>1, <1>2

\* The verdict on any step on any device is well formed (engine.ts:122-304).
LEMMA EvaluateTyped ==
    ASSUME NEW s \in PlanStep, NEW p \in Posture
    PROVE  Evaluate(s, p) \in PolicyVerdict
<1>1. s.kind \in ActionKind /\ s.hits \subseteq RiskCategory
  BY DEF PlanStep
<1>2. s.kind \in DeviceKind => EvaluateOnDevice(s) \in PolicyVerdict
  BY DeviceVerdict
<1> QED
  BY <1>1, <1>2 DEF Evaluate, ActionKind, DeviceKind, Verdict, PolicyVerdict,
                    Decision, RuleId, RiskCategory

\* The read-only allowlist is the only route to an automatic allow on a
\* device, whatever the step and the rules (engine.ts:138-303).
LEMMA AllowOfAnyStep ==
    ASSUME NEW s \in PlanStep, NEW p \in Posture
    PROVE  Evaluate(s, p).decision = "allow" <=>
             s.hits = {} /\ (s.kind \in DeviceKind => OnlyLooks(s, p))
<1>1. s.kind \in ActionKind
  BY DEF PlanStep
<1>2. CASE s.kind \in DeviceKind
  BY <1>2, DeviceVerdict DEF Evaluate, DeviceKind, Verdict, OnlyLooks, Posture
<1>3. CASE s.kind \notin DeviceKind
  BY <1>1, <1>3 DEF Evaluate, ActionKind, DeviceKind, Verdict
<1> QED BY <1>2, <1>3

\* Only a blocking rule escalates, and it always does, with its categories
\* (engine.ts:126-135).
LEMMA HardStopOfAnyStep ==
    ASSUME NEW s \in PlanStep, NEW p \in Posture
    PROVE  LET verdict == Evaluate(s, p)
           IN  /\ verdict.escalate <=> s.hits # {}
               /\ verdict.escalate => /\ verdict.decision = "block"
                                      /\ verdict.categories = s.hits
<1>1. s.kind \in ActionKind
  BY DEF PlanStep
<1>2. CASE s.hits # {}
  BY <1>2 DEF Evaluate
<1>3. CASE s.hits = {} /\ s.kind \in DeviceKind
  BY <1>3, DeviceVerdict DEF Evaluate, DeviceKind, Verdict
<1>4. CASE s.hits = {} /\ s.kind \notin DeviceKind
  BY <1>1, <1>4 DEF Evaluate, ActionKind, DeviceKind, Verdict
<1> QED BY <1>2, <1>3, <1>4

\* The decision alone, without the order of the tests that reach it.
LEMMA DecisionOfAnyStep ==
    ASSUME NEW s \in PlanStep, NEW p \in Posture
    PROVE  Evaluate(s, p).decision =
             IF s.hits # {} THEN "block"
             ELSE IF s.kind \notin DeviceKind THEN "allow"
             ELSE IF p = "none" THEN "block"
             ELSE IF p = "unconsented" THEN "require_approval"
             ELSE IF OnlyLooks(s, p) THEN "allow"
             ELSE IF /\ s.kind = "command" /\ s.empty
                     /\ ~(p = "unmanaged" /\ s.mutating)
                  THEN "block"
             ELSE "require_approval"
<1>1. s.kind \in ActionKind
  BY DEF PlanStep
<1>2. CASE s.kind \notin DeviceKind
  BY <1>1, <1>2 DEF Evaluate, ActionKind, DeviceKind, Verdict
<1>3. CASE s.kind = "command"
  BY <1>3 DEF Evaluate, EvaluateOnDevice, EvaluateCommand, DeviceKind, Verdict,
              OnlyLooks, Posture
<1>4. CASE s.kind \in DeviceKind \ {"command"}
  BY <1>4 DEF Evaluate, EvaluateOnDevice, DeviceKind, Verdict, OnlyLooks, Posture
<1> QED BY <1>2, <1>3, <1>4

-----------------------------------------------------------------------------
\* Every transition keeps a step a step and a posture a posture.
LEMMA StepAndPosture == Spec => [](step \in PlanStep /\ posture \in Posture)
<1> DEFINE Inv == step \in PlanStep /\ posture \in Posture
<1>1. Init => Inv
  <2>1. \A k \in ActionKind : Harmless(k) \in PlanStep
    BY DEF Harmless, PlanStep
  <2> QED BY <2>1 DEF Init, Posture
<1>2. Inv /\ [Next]_vars => Inv'
  <2> SUFFICES ASSUME Inv, [Next]_vars PROVE Inv'
    OBVIOUS
  <2>1. CASE WorseStep
    <3>1. ASSUME NEW c \in Categories, step' = [step EXCEPT !.hits = @ \cup {c}]
          PROVE  step' \in PlanStep
      BY <3>1, CategoriesAssumption DEF PlanStep
    <3>2. ASSUME NEW r \in Rules, step' = [step EXCEPT !.rule = r]
          PROVE  step' \in PlanStep
      BY <3>2, RulesAssumption DEF PlanStep
    <3>3. ASSUME \/ step' = [step EXCEPT !.mutating = TRUE]
                 \/ step' = [step EXCEPT !.empty = TRUE]
                 \/ step' = [step EXCEPT !.unknown = TRUE]
                 \/ step' = [step EXCEPT !.dynamic = TRUE]
          PROVE  step' \in PlanStep
      BY <3>3 DEF PlanStep
    <3> QED BY <2>1, <3>1, <3>2, <3>3 DEF WorseStep
  <2>2. CASE WorseDevice
    BY <2>2 DEF WorseDevice, Posture
  <2>3. CASE UNCHANGED vars
    BY <2>3 DEF vars
  <2> QED BY <2>1, <2>2, <2>3 DEF Next
<1> QED BY <1>1, <1>2, PTL DEF Spec

\* evaluate() gives every step, on every device, a whole verdict.
THEOREM VerdictsAreTyped == Spec => []TypeOK
<1>1. step \in PlanStep /\ posture \in Posture => TypeOK
  BY EvaluateTyped DEF TypeOK
<1> QED BY <1>1, StepAndPosture, PTL

\* Nothing but a look is allowed without a person, for every set of rules.
THEOREM OnlyLooksAreAllowed == Spec => []AllowIsNarrow
<1>1. step \in PlanStep /\ posture \in Posture => AllowIsNarrow
  BY AllowOfAnyStep DEF AllowIsNarrow
<1> QED BY <1>1, StepAndPosture, PTL

\* A blocking rule decides whatever else the step or the device is.
THEOREM HardStopsDecide == Spec => []HardStopsComeFirst
<1>1. step \in PlanStep /\ posture \in Posture => HardStopsComeFirst
  BY HardStopOfAnyStep DEF HardStopsComeFirst
<1> QED BY <1>1, StepAndPosture, PTL

\* No added hazard, of any category or rule, earns a milder verdict.
THEOREM HazardsOnlyTighten == Spec => HazardNeverRelaxes
<1> DEFINE Typed == step \in PlanStep /\ posture \in Posture
           Tightens == ~step.empty =>
                         Strictness[Evaluate(step, posture)'.decision] >=
                         Strictness[Evaluate(step, posture).decision]
<1>1. Typed /\ Typed' /\ [Next]_vars => [Tightens]_vars
  <2> SUFFICES ASSUME Typed, Typed', Next, ~step.empty PROVE Tightens
    OBVIOUS
  <2>1. Evaluate(step, posture).decision \in Decision
    BY EvaluateTyped DEF PolicyVerdict
  <2>2. Evaluate(step', posture').decision \in Decision
    BY EvaluateTyped DEF PolicyVerdict
  <2>3. CASE WorseStep
    <3>1. /\ step'.kind = step.kind /\ posture' = posture
          /\ step.hits # {} => step'.hits # {}
          /\ step.mutating => step'.mutating
          /\ OnlyLooks(step', posture) => OnlyLooks(step, posture)
      BY <2>3 DEF WorseStep, PlanStep, OnlyLooks
    <3> QED BY <2>1, <2>2, <3>1, DecisionOfAnyStep DEF Decision, Strictness
  <2>4. CASE WorseDevice
    <3>1. step' = step /\ (OnlyLooks(step, posture') => OnlyLooks(step, posture))
      BY <2>4 DEF WorseDevice, OnlyLooks
    <3> QED
      BY <2>1, <2>2, <2>4, <3>1, DecisionOfAnyStep DEF WorseDevice, Decision, Strictness
  <2> QED BY <2>3, <2>4 DEF Next
<1> QED BY <1>1, StepAndPosture, PTL DEF Spec, HazardNeverRelaxes
=============================================================================
