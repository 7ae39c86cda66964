----------------------------- MODULE MCAgentLoop ----------------------------
(***************************************************************************)
(* Instances of AgentLoop for TLC: the steps a brain may propose, and the  *)
(* tickets, intakes and diagnoses a run may meet, by theme.                *)
(***************************************************************************)
EXTENDS AgentLoopRefinement

\* A read-only command on the allowlist; the other steps vary it.
Inspect == [kind |-> "command", mutating |-> FALSE, hits |-> {}, empty |-> FALSE,
            rule |-> "none", unknown |-> FALSE, dynamic |-> FALSE, rollback |-> FALSE]

\* `rm -rf` of the user's files, and a colleague's mailbox.
Wipe      == [Inspect EXCEPT !.hits = {"destructive", "identity"}, !.mutating = TRUE]
MailGrant == [Inspect EXCEPT !.hits = {"compliance"}, !.unknown = TRUE]
\* A service restart that says how to undo itself, declared and undeclared.
Restart   == [Inspect EXCEPT !.rule = "approve.service-restart", !.mutating = TRUE,
                             !.rollback = TRUE]
SlyRestart == [Restart EXCEPT !.mutating = FALSE]
Reboot    == [Inspect EXCEPT !.rule = "approve.reboot", !.mutating = TRUE]
\* A registry write that does not say how it would be undone.
Tweak     == [Reboot EXCEPT !.rule = "approve.registry-and-config-write"]
Click     == [Inspect EXCEPT !.kind = "ui_action"]
NoCommand == [Inspect EXCEPT !.empty = TRUE]
Unlisted  == [Inspect EXCEPT !.unknown = TRUE, !.dynamic = TRUE]
Shot      == [Inspect EXCEPT !.kind = "screenshot"]
ReadLog   == [Inspect EXCEPT !.kind = "read_file"]
Ask       == [Inspect EXCEPT !.kind = "ask_user"]
AskSecret == [Ask EXCEPT !.hits = {"credentials"}]
Note      == [Inspect EXCEPT !.kind = "ticket_comment"]

FreezeSteps   == {Inspect, Wipe, MailGrant, SlyRestart, Restart}
QuestionSteps == {Inspect, Ask, AskSecret, Reboot}
PostureSteps  == {Inspect, Restart, Reboot, Click, NoCommand, Shot, Note, Ask}
AllSteps      == FreezeSteps \cup QuestionSteps \cup PostureSteps
                   \cup {ReadLog, Unlisted, Tweak}

Console == [posture |-> "managed", session |-> "desktop", gate |-> "browser",
            canAsk |-> TRUE, onFile |-> FALSE, asksPerson |-> FALSE,
            handsOn |-> FALSE, vip |-> FALSE, priority |-> 2]

FreezeTickets == {Console,
                  [Console EXCEPT !.handsOn = TRUE, !.priority = Urgent]}
\* Every posture under every gate, with and without a channel or an answer.
PostureTickets ==
    {[Console EXCEPT !.posture = p, !.gate = g, !.session = s, !.canAsk = FALSE,
                     !.onFile = f, !.vip = f] :
       p \in Posture, g \in GateKind, s \in {"none", "terminal", "desktop"},
       f \in BOOLEAN}
\* A person at every wait, and nobody at any.
WaitTickets == {Console, [Console EXCEPT !.gate = "standing-policy", !.canAsk = FALSE]}

InScope  == [outOfScope |-> FALSE, blockedUser |-> FALSE, security |-> FALSE,
             recalled |-> TRUE]
InScopeOnly == {InScope}
SomeIntakes == {InScope, [InScope EXCEPT !.outOfScope = TRUE, !.recalled = FALSE],
                [InScope EXCEPT !.security = TRUE, !.blockedUser = TRUE]}

Sure        == [low |-> FALSE, rootCause |-> FALSE]
SureOnly    == {Sure}
SomeDiagnoses == {Sure, [Sure EXCEPT !.low = TRUE]}
=============================================================================
