--------------------------- MODULE HeuristicBrain ---------------------------
(***************************************************************************)
(* The offline technician of src/src/agent/heuristic-brain.ts at work: its *)
(* proposals over the history of a run, the loop that judges and performs  *)
(* them (agent/loop.ts, in outline: AgentLoop has the whole of it), and    *)
(* the machine they are tried on.                                          *)
(*                                                                         *)
(* The machine is the environment: it has faults, a fix may or may not     *)
(* cure them, and up to MaxMishaps commands do not come back with what the *)
(* machine knows.                                                          *)
(***************************************************************************)
EXTENDS Naturals, FiniteSets, Playbooks, PolicyEngine

\* What is reported, and what the session offers.  A session offers no tool
\* called "none": in the tables that says that there is none.
Ticket == [asked: SUBSET STRING, matches: SUBSET STRING, local: BOOLEAN,
           session: {"simulated", "local", "remote", "bridge"}, platform: Platform,
           category: STRING, tools: SUBSET (STRING \ {"none"}), dated: BOOLEAN,
           canAsk: BOOLEAN, canCapture: BOOLEAN, canControl: BOOLEAN, gate: GateKind]

CONSTANTS
    Tickets,      \* the tickets to work
    StepBudget,   \* runTicket's step budget
    MaxMishaps    \* bound: commands that fail or are cut short

ASSUME TicketsAssumption == Tickets \subseteq Ticket
ASSUME BudgetAssumption == StepBudget \in Nat \ {0} /\ MaxMishaps \in Nat

VARIABLES
    ticket,    \* what was reported, and what the session offers
    faults,    \* the commands whose output would show a fault now
    history,   \* the results so far, each [step, outcome, reading]
    batch,     \* the proposed steps not yet dealt with
    executed,  \* the steps that spent budget
    halted,    \* the rest of the batch is not attempted
    frozen,    \* a hard stop fired: nothing mutating any more
    human,     \* the run is to end with a person
    resolved,
    reply,     \* the letter to the user, once written
    mishaps

loopVars == <<batch, executed, halted, frozen, human, resolved, reply>>
vars == <<ticket, faults, history, loopVars, mishaps>>

-----------------------------------------------------------------------------
(***************************************************************************)
(* Reading the history.                                                    *)
(***************************************************************************)
Step(kind, item) == [kind |-> kind, item |-> item]
NoResult == [outcome |-> "none", reading |-> "none"]

Mutates(step) == step.kind \in {"request", "fix"}

\* The results of a command, the check and its re-run alike.
Runs(command) ==
    {i \in DOMAIN history :
       /\ history[i].step.kind \in {"check", "verify"}
       /\ CommandOf(history[i].step.item, ticket.platform) = command}

Attempted(kind, item) == \E i \in DOMAIN history : history[i].step = Step(kind, item)

Playbook  == FindPlaybook(ticket.matches)
Category  == IF Playbook.id = "none" THEN ticket.category ELSE Playbook.category
\* intake(): the detail the ticket leaves out.
Missing   == ~ticket.dated \/ ticket.platform = "unknown"
Refused   == \E i \in DOMAIN history : history[i].outcome = "blocked"
Diagnostics == Playbook.diagnostics[ticket.platform]
Fixes       == Playbook.fixes[ticket.platform]
LocalChecks == ChecksForCategory(ticket.platform, ticket.tools, Category)

Propose(steps) == [steps |-> steps, resolved |-> FALSE, human |-> FALSE]
HandOver       == [steps |-> <<>>, resolved |-> FALSE, human |-> TRUE]
Conclude       == [steps |-> <<>>, resolved |-> TRUE, human |-> FALSE]

\* The first positions of a selection that is not empty.
FirstThree(S) ==
    LET a == Min(S)
        b == Min(S \ {a})
        c == Min(S \ {a, b})
    IN  IF S = {a} THEN <<a>> ELSE IF S = {a, b} THEN <<a, b>> ELSE <<a, b, c>>

(***************************************************************************)
(* A described machine: look, fix what a check showed, look again.         *)
(***************************************************************************)
Verifiers == {i \in DOMAIN Diagnostics : Diagnostics[i].tells}

\* Mutant: a check that ran is a check that showed the fault.
FaultAssumed ==
    \E i \in Verifiers : Runs(Diagnostics[i].command) # {}
\* The first result of the check decides, however often it ran.
FaultFound ==
    \E i \in Verifiers :
       LET runs == Runs(Diagnostics[i].command)
       IN  runs # {} /\ history[Min(runs)].reading = "fault"

\* Mutant: the reading that called for the fix is not taken again.
VerifyNothing == Conclude
\* A fix is re-checked once; a result that does not show the fault confirms it.
Verify ==
    IF Verifiers = {} THEN Conclude
    ELSE LET command == Diagnostics[Min(Verifiers)].command
             runs    == Runs(command)
         IN  IF (\A i, j \in runs : i = j) /\ executed < StepBudget
                  THEN Propose(<<Step("verify", command)>>)
             ELSE IF runs # {} /\ history[Max(runs)].reading = "fault" THEN HandOver
             ELSE Conclude

ProposeFromPlaybook ==
    LET toCheck == {i \in DOMAIN Diagnostics : ~Attempted("check", Diagnostics[i].command)}
        toFix   == {i \in DOMAIN Fixes : ~Attempted("fix", Fixes[i].command)}
    IN  IF Playbook.id = "none" \/ ticket.platform = "unknown" THEN HandOver
        ELSE IF /\ Playbook.category \in VisualCategories
                /\ ticket.canCapture
                /\ ~Attempted("shot", "screen")
             THEN Propose(<<Step("shot", "screen")>>)
        ELSE IF toCheck # {}
             THEN Propose(<<Step("check", Diagnostics[Min(toCheck)].command)>>)
        ELSE IF ~FaultFound \/ Fixes = <<>> THEN HandOver
        ELSE IF toFix = {} THEN Verify
        ELSE IF Fixes[Min(toFix)].kind = "ui_action" /\ ~ticket.canControl THEN HandOver
        ELSE Propose(<<Step("fix", Fixes[Min(toFix)].command)>>)

(***************************************************************************)
(* A real machine: every check worth running, then what they found.        *)
(***************************************************************************)
Latest(check) ==
    LET runs == Runs(CommandOf(check.id, ticket.platform))
    IN  IF runs = {} THEN NoResult ELSE history[Max(runs)]

Incomplete  == {c \in LocalChecks : Latest(LOCAL_CHECKS[c]).outcome # "success"}
ReadFaults  == {c \in LocalChecks : Latest(LOCAL_CHECKS[c]).reading \in LOCAL_CHECKS[c].finds}

ProposeLocal ==
    LET toCheck  == {c \in LocalChecks : ~Attempted("check", LOCAL_CHECKS[c].id)}
        next     == FirstThree(toCheck)
        fixable  == {c \in ReadFaults :
                       HasFix(LOCAL_CHECKS[c], ticket.platform, ticket.tools)}
        toFix    == {c \in fixable : ~Attempted("fix", LOCAL_CHECKS[c].id)}
        verified == Cardinality({i \in DOMAIN history : history[i].step.kind = "verify"})
        \* fixable[verified], counted from zero, if there is one
        toVerify == {c \in fixable : Cardinality({d \in fixable : d < c}) = verified}
    IN  IF LocalChecks = {} THEN HandOver
        ELSE IF toCheck # {}
             THEN Propose([i \in DOMAIN next |-> Step("check", LOCAL_CHECKS[next[i]].id)])
        ELSE IF Incomplete # {} THEN HandOver
        ELSE IF ReadFaults = {} THEN Conclude
        ELSE IF toFix # {} THEN Propose(<<Step("fix", LOCAL_CHECKS[Min(toFix)].id)>>)
        ELSE IF toVerify # {}
             THEN Propose(<<Step("verify", LOCAL_CHECKS[Min(toVerify)].id)>>)
        ELSE HandOver

(***************************************************************************)
(* propose(): what was asked for outright comes first, then the one        *)
(* question worth asking, then the machine.                                *)
(***************************************************************************)
WorthAsking ==
    /\ ticket.canAsk /\ Missing
    /\ ~Attempted("ask", "detail")
    /\ ~Refused
    /\ Playbook.id = "none" /\ ~ticket.local

Proposal ==
    LET asked == {a \in FindRequestedActions(ticket.asked) :
                    ~Attempted("request", REQUESTED_ACTIONS[a])}
        next  == FirstThree(asked)
    IN  IF asked # {}
             THEN Propose([i \in DOMAIN next |-> Step("request", REQUESTED_ACTIONS[next[i]])])
        ELSE IF WorthAsking THEN Propose(<<Step("ask", "detail")>>)
        ELSE IF ticket.local /\ ticket.platform # "unknown" THEN ProposeLocal
        ELSE ProposeFromPlaybook

-----------------------------------------------------------------------------
(***************************************************************************)
(* The loop, judging each step as it comes (agent/loop.ts).                *)
(***************************************************************************)
Init ==
    /\ ticket \in Tickets
    /\ faults \in SUBSET (IF ticket.local
                          THEN {LOCAL_CHECKS[c].id :
                                  c \in {d \in LocalChecks : LOCAL_CHECKS[d].finds # {}}}
                          ELSE {Diagnostics[i].command : i \in Verifiers})
    /\ history = <<>> /\ batch = <<>>
    /\ executed = 0 /\ mishaps = 0
    /\ halted = FALSE /\ frozen = FALSE /\ human = FALSE /\ resolved = FALSE
    /\ reply = "none"

\* The steps as the policy sees them; one hard-stop category stands for all.
PlanStepOf(step) ==
    LET look == [kind |-> "command", mutating |-> FALSE, hits |-> {}, empty |-> FALSE,
                 rule |-> "none", unknown |-> FALSE, dynamic |-> FALSE, rollback |-> TRUE]
        fix  == IF ticket.local
                THEN [kind |-> "command",
                      rule |-> IF step.item = "printers" THEN "approve.service-restart"
                               ELSE "approve.registry-and-config-write"]
                ELSE CHOOSE f \in {Fixes[i] : i \in DOMAIN Fixes} : f.command = step.item
    IN  CASE step.kind = "request" ->
                [look EXCEPT !.mutating = TRUE, !.unknown = TRUE, !.rollback = FALSE,
                             !.hits = IF HardStop(step.item) THEN {"identity"} ELSE {}]
          [] step.kind = "ask"  -> [look EXCEPT !.kind = "ask_user"]
          [] step.kind = "shot" -> [look EXCEPT !.kind = "screenshot"]
          [] step.kind = "fix"  -> [look EXCEPT !.mutating = TRUE, !.kind = fix.kind,
                                                !.rule = fix.rule]
          [] step.kind \in {"check", "verify"} ->
                \* powershell is not on the read-only list
                [look EXCEPT !.unknown = ticket.local /\ ticket.platform = "windows"
                                           /\ step.item = "uptime"]

Judged(step) ==
    Evaluate(PlanStepOf(step), IF ticket.platform = "unknown" THEN "none" ELSE "managed")

Running == ~resolved /\ ~human /\ executed < StepBudget

Think ==
    /\ batch = <<>> /\ Running
    /\ halted' = FALSE
    /\ batch' = Proposal.steps
    /\ \/ Proposal.steps # <<>> /\ UNCHANGED <<resolved, human>>
       \/ /\ Proposal.steps = <<>>
          /\ resolved' = (Proposal.resolved /\ ~frozen)
          /\ human' = ~resolved'
    /\ UNCHANGED <<ticket, faults, history, executed, frozen, reply, mishaps>>

\* The result of the step at the head of the batch.
Record(outcome, reading) ==
    /\ history' = Append(history, [step |-> Head(batch), outcome |-> outcome,
                                   reading |-> reading])
    /\ batch' = Tail(batch)
    /\ UNCHANGED <<ticket, resolved, reply>>

SetAside == halted \/ (frozen /\ Mutates(Head(batch)))

Skip ==
    /\ batch # <<>> /\ executed < StepBudget /\ SetAside
    /\ Record(IF halted /\ Judged(Head(batch)).decision = "block"
              THEN "blocked" ELSE "skipped", "none")
    /\ UNCHANGED <<faults, executed, halted, frozen, human, mishaps>>

Attempt == batch # <<>> /\ executed < StepBudget /\ ~SetAside /\ executed' = executed + 1

Refuse ==
    /\ Attempt
    /\ Judged(Head(batch)).decision = "block"
    /\ Record("blocked", "none")
    /\ halted' = (halted \/ Judged(Head(batch)).escalate)
    /\ frozen' = (frozen \/ Judged(Head(batch)).escalate)
    /\ UNCHANGED <<faults, human, mishaps>>

\* The gate, or the user, does not say yes.
Hold(outcome) ==
    /\ Record(outcome, "none")
    /\ halted' = TRUE /\ human' = TRUE
    /\ UNCHANGED <<faults, frozen, mishaps>>

Decline ==
    /\ Attempt
    /\ Judged(Head(batch)).decision = "require_approval"
    /\ FALSE \in GateAnswers(ticket.gate, PlanStepOf(Head(batch)), Judged(Head(batch)))
    /\ Hold("awaiting_approval")

Cleared ==
    \/ Judged(Head(batch)).decision = "allow"
    \/ /\ Judged(Head(batch)).decision = "require_approval"
       /\ TRUE \in GateAnswers(ticket.gate, PlanStepOf(Head(batch)), Judged(Head(batch)))

GoesOn == UNCHANGED <<halted, frozen, human>>

\* How a command can fail to bring back what the machine knows, per session:
\* a non-zero exit, a throw, or a kill whose missing exit code is read as 0.
Mishap(session) ==
    CASE session = "simulated" -> {}
      [] session = "local" -> {"error", "cut"}
      [] session \in {"remote", "bridge"} -> {"error", "threw"}

\* Some tools tell of the fault by their exit code.
FaultReading(item) ==
    IF ticket.local /\ (item = "reachability" \/ (item = "dns" /\ ticket.platform = "linux"))
    THEN "error" ELSE "fault"

Observe ==
    /\ Attempt /\ Cleared /\ Head(batch).kind \in {"check", "verify"}
    /\ \E reading \in Mishap(ticket.session) \cup {"seen"} :
         LET known == IF Head(batch).item \in faults THEN FaultReading(Head(batch).item)
                      ELSE "clean"
             result == IF reading = "seen" THEN known ELSE reading
         IN  /\ reading # "seen" => mishaps < MaxMishaps
             /\ mishaps' = mishaps + (IF reading = "seen" THEN 0 ELSE 1)
             /\ Record(IF result \in {"error", "threw"} THEN "failed" ELSE "success", result)
    /\ GoesOn /\ UNCHANGED faults

\* A fix, or an approved request, that works may still leave the fault there.
Change ==
    /\ Attempt /\ Cleared /\ Mutates(Head(batch))
    /\ \/ /\ Record("success", "none")
          /\ \E cured \in {{}, {Head(batch).item} \cup
                                (IF ticket.local THEN {} ELSE faults)} :
                faults' = faults \ cured
          /\ UNCHANGED mishaps
       \/ /\ Mishap(ticket.session) # {} /\ mishaps < MaxMishaps
          /\ mishaps' = mishaps + 1
          /\ Record("failed", "none")
          /\ UNCHANGED faults
    /\ GoesOn

Capture ==
    /\ Attempt /\ Cleared /\ Head(batch).kind = "shot"
    /\ Record("success", "none")
    /\ GoesOn /\ UNCHANGED <<faults, mishaps>>

Ask ==
    /\ Attempt /\ Head(batch).kind = "ask"
    /\ \/ Record("success", "none") /\ GoesOn /\ UNCHANGED <<faults, mishaps>>
       \/ Hold("awaiting_user")

(***************************************************************************)
(* document(): which letter the user gets.                                 *)
(***************************************************************************)
Succeeded == {i \in DOMAIN history : history[i].outcome = "success"}
ChangedAnything == \E i \in Succeeded : Mutates(history[i].step)
RefusedOutright ==
    \E i \in DOMAIN history :
       /\ history[i].outcome \in {"blocked", "awaiting_approval"}
       /\ Judged(history[i].step).categories \ {"routine"} # {}

\* Mutant: every letter about an unresolved ticket without findings is the same.
ReplyByOutcome ==
    IF resolved THEN "fixed"
    ELSE IF RefusedOutright THEN "refused"
    ELSE IF Succeeded # {} THEN "findings" ELSE "handed over"
UserReply ==
    IF resolved THEN IF ChangedAnything THEN "fixed" ELSE "clean bill"
    ELSE IF RefusedOutright THEN "refused"
    ELSE IF Succeeded # {} THEN "findings" ELSE "handed over"

Document ==
    /\ reply = "none"
    /\ batch = <<>> \/ executed >= StepBudget
    /\ ~Running
    /\ reply' = UserReply
    /\ batch' = <<>>
    /\ UNCHANGED <<ticket, faults, history, executed, halted, frozen, human, resolved, mishaps>>

Next == Think \/ Skip \/ Refuse \/ Decline \/ Observe \/ Change \/ Capture \/ Ask \/ Document
Spec == Init /\ [][Next]_vars

-----------------------------------------------------------------------------
(***************************************************************************)
(* Properties.                                                             *)
(***************************************************************************)
StepKinds == {"request", "ask", "shot", "check", "verify", "fix"}
Outcomes  == {"success", "failed", "blocked", "skipped", "awaiting_approval", "awaiting_user"}
Readings  == {"none", "clean", "fault", "error", "cut", "threw"}
Letters   == {"none", "fixed", "clean bill", "refused", "findings", "handed over"}
Items ==
    {"detail", "screen"}
      \cup {REQUESTED_ACTIONS[a] : a \in DOMAIN REQUESTED_ACTIONS}
      \cup {LOCAL_CHECKS[c].id : c \in DOMAIN LOCAL_CHECKS}
      \cup {Diagnostics[d].command : d \in DOMAIN Diagnostics}
      \cup {Fixes[f].command : f \in DOMAIN Fixes}
BrainStep == [kind: StepKinds, item: Items]

\* Types, and a batch of three steps at most.
TypeOK ==
    /\ ticket \in Tickets /\ faults \subseteq Items
    /\ history \in Seq([step: BrainStep, outcome: Outcomes, reading: Readings])
    /\ batch \in Seq(BrainStep) /\ Len(batch) <= 3
    /\ executed \in 0..StepBudget /\ mishaps \in 0..MaxMishaps
    /\ {halted, frozen, human, resolved} \subseteq BOOLEAN
    /\ ~(resolved /\ human)
    /\ reply \in Letters

StepAt(i) == IF i <= Len(history) THEN history[i].step ELSE batch[i - Len(history)]
Steps == 1..(Len(history) + Len(batch))

\* The readings that make a fix of this item called for.
Calls(i, item) ==
    IF ticket.local
    THEN /\ history[i].step.item = item
         /\ \E c \in LocalChecks : /\ LOCAL_CHECKS[c].id = item
                                   /\ history[i].reading \in LOCAL_CHECKS[c].finds
    ELSE history[i].reading = "fault"

(***************************************************************************)
(* "It does not invent faults": nothing is changed, or put up for approval *)
(* to be changed, unless an earlier check read the fault it is meant for.  *)
(***************************************************************************)
FixFollowsItsFault ==
    \A i \in Steps : StepAt(i).kind = "fix" =>
       \E j \in DOMAIN history : /\ j < i
                                 /\ history[j].step.kind = "check"
                                 /\ Calls(j, StepAt(i).item)

\* The checks that can show whether a fix of this item held.
Confirming(item) ==
    IF ticket.local THEN {item} ELSE {Diagnostics[v].command : v \in Verifiers}

(***************************************************************************)
(* A run is called resolved only when, after every change it tried, the    *)
(* failing check was run again, on the machine, and its latest result      *)
(* showed no fault.                                                        *)
(***************************************************************************)
FixIsRechecked ==
    resolved =>
       \A i \in DOMAIN history : history[i].step.kind = "fix" =>
          \E j \in DOMAIN history :
             /\ j > i /\ history[j].step.kind = "verify"
             /\ history[j].step.item \in Confirming(history[i].step.item)
             /\ history[j].outcome \in {"success", "failed"}
             /\ \A k \in Runs(CommandOf(history[j].step.item, ticket.platform)) : k <= j
             /\ ~Calls(j, history[i].step.item)

(***************************************************************************)
(* The letters that say nothing was changed go out only when nothing was:  *)
(* a clean bill of health, a hand-over before anything was reached, and a  *)
(* refusal.  What a refusal leaves out is a message it released from       *)
(* quarantine, which somebody approved before another request was refused. *)
(***************************************************************************)
LettersOwnUp ==
    /\ reply \in {"clean bill", "handed over"} => ~ChangedAnything
    /\ reply = "fixed" => ChangedAnything
    /\ reply = "refused" =>
          \A i \in Succeeded : Mutates(history[i].step) =>
             history[i].step = Step("request", "quarantine-release")

(***************************************************************************)
(* Said of the program, and refuted: a fix is a resolution only when       *)
(* something CONFIRMS it, that is, when the check came back and was clean. *)
(***************************************************************************)
ResolvedIsConfirmed ==
    resolved /\ ~ticket.local =>
       \A i \in Verifiers :
          LET runs == Runs(Diagnostics[i].command)
          IN  history[Max(runs)].reading = "clean"
=============================================================================
