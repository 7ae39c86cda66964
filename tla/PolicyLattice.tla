--------------------------- MODULE PolicyLattice ----------------------------
(***************************************************************************)
(* evaluate() against what the guardrail policy promises of it, over the   *)
(* order "more hazardous than": the state is one step and the posture of   *)
(* one device, and every transition adds one hazard to them.               *)
(***************************************************************************)
EXTENDS Naturals, PolicyEngine

CONSTANTS
    Categories,   \* the risk categories of the blocking rules to consider
    Rules         \* the approval rules to consider

ASSUME CategoriesAssumption == Categories \subseteq RiskCategory
ASSUME RulesAssumption      == Rules \subseteq ApprovalRule

VARIABLES step, posture

vars == <<step, posture>>

Harmless(kind) ==
    [kind |-> kind, mutating |-> FALSE, hits |-> {}, empty |-> FALSE,
     rule |-> "none", unknown |-> FALSE, dynamic |-> FALSE, rollback |-> FALSE]

Init == step \in {Harmless(k) : k \in ActionKind} /\ posture = "managed"

\* The step gets worse: it matches one rule more, or one flag more is set.
WorseStep ==
    /\ \/ \E c \in Categories : step' = [step EXCEPT !.hits = @ \cup {c}]
       \/ \E r \in Rules : step.rule = "none" /\ step' = [step EXCEPT !.rule = r]
       \/ step' \in {[step EXCEPT !.mutating = TRUE], [step EXCEPT !.empty = TRUE],
                     [step EXCEPT !.unknown = TRUE], [step EXCEPT !.dynamic = TRUE]}
    /\ UNCHANGED posture

\* The device gets worse: unmanaged, then without consent, then absent.
WorseDevice ==
    /\ \/ posture = "managed" /\ posture' = "unmanaged"
       \/ posture = "unmanaged" /\ posture' = "unconsented"
       \/ posture = "unconsented" /\ posture' = "none"
    /\ UNCHANGED step

Next == WorseStep \/ WorseDevice

Spec == Init /\ [][Next]_vars

\* The shape of the inputs, and that the engine always gives a whole verdict.
TypeOK ==
    /\ step \in PlanStep
    /\ posture \in Posture
    /\ Evaluate(step, posture) \in PolicyVerdict

-----------------------------------------------------------------------------
Strictness == [allow |-> 0, require_approval |-> 1, block |-> 2]

\* An action a device of this posture takes on policy alone: it looks.
OnlyLooks(s, p) ==
    /\ p = "managed" \/ (p = "unmanaged" /\ ~s.mutating)
    /\ \/ s.kind \in {"screenshot", "read_file"}
       \/ /\ s.kind = "command"
          /\ ~s.empty /\ s.rule = "none" /\ ~s.unknown /\ ~s.dynamic /\ ~s.mutating

(***************************************************************************)
(* The read-only allowlist is the only route to an automatic allow on a    *)
(* device (ARCHITECTURE.md:50, engine.ts:257-303): the order of the tests  *)
(* opens no other, and closes none it should not.                          *)
(***************************************************************************)
AllowIsNarrow ==
    Evaluate(step, posture).decision = "allow" <=>
        step.hits = {} /\ (step.kind \in DeviceKind => OnlyLooks(step, posture))

(***************************************************************************)
(* Only a blocking rule demands that a human take over, and it always does *)
(* whatever else the step or the device is (engine.ts:126-135).            *)
(***************************************************************************)
HardStopsComeFirst ==
    LET verdict == Evaluate(step, posture)
    IN  /\ verdict.escalate <=> step.hits # {}
        /\ verdict.escalate => /\ verdict.decision = "block"
                               /\ verdict.categories = step.hits

(***************************************************************************)
(* Adding a hazard never relaxes the verdict, so no evasion that makes a   *)
(* step look worse in one respect gets it a milder answer: first-match     *)
(* order is safe (engine.ts:122-304).  A command step with no command is   *)
(* set aside: its block gives way to the consent question.                 *)
(***************************************************************************)
HazardNeverRelaxes ==
    [][~step.empty =>
         Strictness[Evaluate(step, posture)'.decision] >=
         Strictness[Evaluate(step, posture).decision]]_vars
=============================================================================
