---------------------------- MODULE PolicyEngine ----------------------------
(***************************************************************************)
(* The guardrail policy of src/src/control-plane/policy: what a proposed   *)
(* step is, and the verdict evaluate() gives it.                           *)
(*                                                                         *)
(* The regular expressions of rules.ts are abstracted to what they find: a *)
(* step carries the risk categories of the blocking rules its intent and   *)
(* payload match (hits), the first approval rule its command matches       *)
(* (rule), whether a segment of the command is off the read-only list      *)
(* (unknown), and whether the command builds another one (dynamic).        *)
(***************************************************************************)

RiskCategory ==
    {"credentials", "finance", "identity", "destructive", "security-controls",
     "data-exfiltration", "major-system-change", "network-infrastructure",
     "compliance", "routine"}

ApprovalRule ==
    {"approve.service-restart", "approve.reboot", "approve.software-change",
     "approve.registry-and-config-write", "approve.secret-search",
     "approve.clock-and-update-changes", "approve.process-termination",
     "approve.file-mutation"}

ActionKind == {"command", "screenshot", "ui_action", "read_file",
               "ask_user", "ticket_comment", "knowledge_lookup"}

\* The kinds that reach a DeviceSession; the others never touch the machine.
DeviceKind == {"command", "screenshot", "ui_action", "read_file"}

(***************************************************************************)
(* "empty" is a command step with no command, or a desktop action with no  *)
(* action name; "rollback" says the step states how it would be undone.    *)
(* "mutating" is what the reasoning model DECLARES, which nothing checks.  *)
(***************************************************************************)
PlanStep == [kind: ActionKind, mutating: BOOLEAN, hits: SUBSET RiskCategory,
             empty: BOOLEAN, rule: ApprovalRule \cup {"none"},
             unknown: BOOLEAN, dynamic: BOOLEAN, rollback: BOOLEAN]

(***************************************************************************)
(* What evaluate() is told of the device.  Consent is tested before        *)
(* management, so an unconsented device is one class whoever manages it.   *)
(***************************************************************************)
Posture == {"none", "unconsented", "unmanaged", "managed"}

Decision == {"allow", "require_approval", "block"}

RuleId ==
    ApprovalRule \cup
    {"block.guardrail", "block.no-device", "block.malformed-step",
     "approve.consent-required", "approve.unmanaged-device",
     "approve.ui-action", "approve.unknown-command",
     "approve.dynamic-command", "approve.declared-mutating",
     "allow.non-invasive", "allow.ticket-write", "allow.screenshot",
     "allow.read-file", "allow.read-only-diagnostic"}

PolicyVerdict == [decision: Decision, rule: RuleId,
                  categories: SUBSET RiskCategory, escalate: BOOLEAN]

Verdict(decision, rule) ==
    [decision |-> decision, rule |-> rule, categories |-> {"routine"},
     escalate |-> FALSE]

\* The category an approval rule carries into its verdict.
CategoryOf(rule) ==
    IF rule = "approve.secret-search" THEN "credentials" ELSE "routine"

-----------------------------------------------------------------------------

\* Mutant: a command assembled at run time is judged by its outer words alone.
EvaluateCommandOuter(step) ==
    IF step.empty THEN Verdict("block", "block.malformed-step")
    ELSE IF step.rule # "none"
         THEN [Verdict("require_approval", step.rule)
                 EXCEPT !.categories = {CategoryOf(step.rule)}]
    ELSE IF step.unknown
         THEN Verdict("require_approval", "approve.unknown-command")
    ELSE IF step.mutating
         THEN Verdict("require_approval", "approve.declared-mutating")
    ELSE Verdict("allow", "allow.read-only-diagnostic")

\* Steps 3-5 of evaluate(): approval rules, the read-only list, deny.
EvaluateCommand(step) ==
    IF step.empty THEN Verdict("block", "block.malformed-step")
    ELSE IF step.rule # "none"
         THEN [Verdict("require_approval", step.rule)
                 EXCEPT !.categories = {CategoryOf(step.rule)}]
    ELSE IF step.unknown
         THEN Verdict("require_approval", "approve.unknown-command")
    ELSE IF step.dynamic
         THEN Verdict("require_approval", "approve.dynamic-command")
    ELSE IF step.mutating
         THEN Verdict("require_approval", "approve.declared-mutating")
    ELSE Verdict("allow", "allow.read-only-diagnostic")

\* A step of a device kind on a device whose posture lets the kind decide.
EvaluateOnDevice(step) ==
    CASE step.kind = "screenshot" -> Verdict("allow", "allow.screenshot")
      [] step.kind = "ui_action"  -> Verdict("require_approval", "approve.ui-action")
      [] step.kind = "read_file"  -> Verdict("allow", "allow.read-file")
      [] step.kind = "command"    -> EvaluateCommand(step)

\* Mutant: consent is asked for before the blocking rules are tried.
EvaluateConsentFirst(step, posture) ==
    IF posture = "unconsented" /\ step.kind \in DeviceKind
         THEN Verdict("require_approval", "approve.consent-required")
    ELSE IF step.hits # {}
         THEN [decision |-> "block", rule |-> "block.guardrail",
               categories |-> step.hits, escalate |-> TRUE]
    ELSE IF step.kind \notin DeviceKind
         THEN Verdict("allow", "allow.non-invasive")
    ELSE IF posture = "none"
         THEN Verdict("block", "block.no-device")
    ELSE IF posture = "unmanaged" /\ step.mutating
         THEN Verdict("require_approval", "approve.unmanaged-device")
    ELSE EvaluateOnDevice(step)

\* evaluate(): the first test that applies, in the order the engine makes them.
Evaluate(step, posture) ==
    IF step.hits # {}
         THEN [decision |-> "block", rule |-> "block.guardrail",
               categories |-> step.hits, escalate |-> TRUE]
    ELSE IF step.kind \in {"ask_user", "knowledge_lookup"}
         THEN Verdict("allow", "allow.non-invasive")
    ELSE IF step.kind = "ticket_comment"
         THEN Verdict("allow", "allow.ticket-write")
    ELSE IF posture = "none"
         THEN Verdict("block", "block.no-device")
    ELSE IF posture = "unconsented"
         THEN Verdict("require_approval", "approve.consent-required")
    ELSE IF posture = "unmanaged" /\ step.mutating
         THEN Verdict("require_approval", "approve.unmanaged-device")
    ELSE EvaluateOnDevice(step)

-----------------------------------------------------------------------------
(***************************************************************************)
(* The three approval gates of approvals.ts, as the answers each may give. *)
(* The browser gate (run-registry.ts) is a person, so it may say either.   *)
(***************************************************************************)
GateKind == {"auto-deny", "standing-policy", "browser"}

PreAuthorised == {"approve.registry-and-config-write", "approve.service-restart"}

\* Mutant: the standing authorisation does not ask for a way back.
GateAnswersRollbackOrNot(gate, step, verdict) ==
    CASE gate = "auto-deny"       -> {FALSE}
      [] gate = "standing-policy" -> {verdict.rule \in PreAuthorised}
      [] gate = "browser"         -> BOOLEAN

GateAnswers(gate, step, verdict) ==
    CASE gate = "auto-deny"       -> {FALSE}
      [] gate = "standing-policy" ->
            {verdict.rule \in PreAuthorised /\ step.rollback}
      [] gate = "browser"         -> BOOLEAN
=============================================================================
