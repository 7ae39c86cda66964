---------------------------- MODULE DesktopBridge ----------------------------
(***************************************************************************)
(* Moving someone's mouse over the wire: the governed session and the      *)
(* client of src/src/integrations/openclaw*.ts, the authority for each     *)
(* action (demo/desktop-authority.ts), the gateway and the desktop bridge  *)
(* (sim/), and the terminal of the same machine (demo/bridge-device.ts).   *)
(*                                                                         *)
(* A request that was sent goes on by itself: the client may give up on it *)
(* at any time, and the gateway on the bridge.  Up to MaxFaults requests   *)
(* or answers are lost or garbled, or the bridge goes down.                *)
(***************************************************************************)
EXTENDS Naturals, Sequences, FiniteSets

CONSTANTS
    Setups,        \* the deployments to try
    Instructions,  \* what the steps ask for
    MaxSteps,      \* bound: desktop actions of the run
    MaxFaults      \* bound: losses, garbled answers, refusals and outages

ASSUME BridgeAssumption ==
    /\ MaxSteps \in Nat /\ MaxFaults \in Nat
    /\ Setups \subseteq [configured: BOOLEAN, drivable: BOOLEAN, token: BOOLEAN,
                         authority: {"none", "simulated", "issuer"},
                         pinned: {"unknown", "ait", "aillium"},
                         serves: SUBSET {"ait", "aillium"}]

VARIABLES
    setup,       \* the deployment
    bridgeUp,    \* the desktop bridge answers
    dialect,     \* the client's #dialect, or "unknown"
    ready,       \* the session's cached capabilities
    phase,       \* which await of control() the run is at
    wanted,      \* the instruction of each step so far
    grant,       \* the authority given last, [step, shape, fence]
    posts,       \* the actions on their way, each [step, grant, path, at, reply]
    results,     \* what came of each finished step, [code, posted]
    desktop,     \* the machine's own state
    applied,     \* the instructions the desktop carried out, [step, grant], in order
    shown,       \* the terminal's last word on the Wi-Fi, [after, wifi]
    card,        \* the Operations card, [phase, state]
    faults

clientVars  == <<dialect, ready, phase, wanted, grant, results>>
desktopVars == <<bridgeUp, posts, desktop, applied>>
vars == <<setup, clientVars, desktopVars, shown, card, faults>>

-----------------------------------------------------------------------------
OPENCLAW_DIALECT_ORDER == <<"ait", "aillium">>

(***************************************************************************)
(* withGovernedDesktop: only a configured client, with an authority, over  *)
(* a machine that was to be driven anyway.                                 *)
(***************************************************************************)
Governed(s) == s.configured /\ s.authority # "none" /\ s.drivable

Init ==
    /\ setup \in Setups
    /\ bridgeUp = TRUE
    /\ dialect = setup.pinned /\ ready = "unknown"
    /\ phase = "idle" /\ wanted = <<>>
    /\ grant = [step |-> 0, shape |-> "whole", fence |-> 0]
    /\ posts = {} /\ results = <<>>
    /\ desktop = [wifi |-> "off", foreground |-> "desktop"]
    /\ applied = <<>>
    /\ shown = [after |-> 0, wifi |-> "unread"]
    /\ card = [phase |-> "idle", state |-> "unknown"]
    /\ faults = 0

Fault == faults < MaxFaults /\ faults' = faults + 1

Step == Len(wanted)

Settle(code, posted) ==
    /\ results' = Append(results, [code |-> code, posted |-> posted])
    /\ phase' = "idle"

-----------------------------------------------------------------------------
(***************************************************************************)
(* #post of a capabilities request on one prefix.  The gateway answers for *)
(* a bridge that is down; only a 404 says the path is wrong.               *)
(***************************************************************************)
Reply(path) ==
    IF path \notin setup.serves THEN "404"
    ELSE IF ~setup.token THEN "401"
    ELSE IF bridgeUp THEN "ready"
    ELSE "not ready"

\* What a request comes back with, and what it costs in faults.
Answers(path, answer) ==
    \/ answer = Reply(path) /\ UNCHANGED faults
    \/ answer \in {"TIMEOUT", "NETWORK_ERROR", "INVALID_RESPONSE"} /\ Fault

\* The prefixes in the order discovery tries them, after each answer.
Discovering(path) == IF path = "ait" THEN "discover ait" ELSE "discover aillium"

TriesNext(path, answer) == path = "ait" /\ answer = "404"

-----------------------------------------------------------------------------
(***************************************************************************)
(* The session: capabilities(), once, whatever it was told.                *)
(***************************************************************************)
\* Where a capabilities request ends up: the known path, or discovery's last.
Tried == CASE dialect # "unknown" -> {dialect}
           [] dialect = "unknown" -> IF TriesNext("ait", Reply("ait")) THEN {"ait", "aillium"}
                                     ELSE {"ait"}

Capabilities ==
    /\ Governed(setup) /\ phase = "idle" /\ ready = "unknown"
    /\ \E path \in Tried : \E answer \in {Reply(path), "NETWORK_ERROR"} :
          /\ Answers(path, answer)
          /\ ready' = IF answer = "ready" THEN "ready" ELSE "not ready"
          /\ dialect' = IF answer \in {"ready", "not ready"} THEN path ELSE dialect
    /\ UNCHANGED <<setup, phase, wanted, grant, results, desktopVars, shown, card>>

-----------------------------------------------------------------------------
(***************************************************************************)
(* control(): authority for this action, its validation, the path if it is *)
(* not known, and one post.                                                *)
(***************************************************************************)
RequestAction(instruction) ==
    /\ phase = "idle" /\ Step < MaxSteps
    /\ wanted' = Append(wanted, instruction)
    /\ IF Governed(setup)
       THEN phase' = "authority" /\ UNCHANGED results
       ELSE Settle("NO_BACKEND", FALSE)
    /\ UNCHANGED <<setup, dialect, ready, grant, desktopVars, shown, card, faults>>

\* validateActionAuthority(): every field, and the tenant and session of both
\* halves the same.
Validates(g) == g.shape = "whole"

\* Mutant: an action that met no answer is posted on the other path too.
PostOnEveryPath(path) ==
    /\ posts' = posts \cup {[step |-> Step, grant |-> grant', path |-> p, at |-> "gateway",
                             reply |-> "none"] : p \in {"ait", "aillium"}}
    /\ phase' = "invoked"
Post(path) ==
    /\ posts' = posts \cup {[step |-> Step, grant |-> grant', path |-> path, at |-> "gateway",
                             reply |-> "none"]}
    /\ phase' = "invoked"

\* Mutant: the run asks for authority once and keeps what it was given.
GrantedForRun(shape) ==
    IF grant.fence > 0 THEN grant ELSE [step |-> Step, shape |-> shape, fence |-> 1]
\* Authority is asked for per action; a fence is never given twice.
Granted(shape) == [step |-> Step, shape |-> shape, fence |-> grant.fence + 1]

\* What the authority may answer; the simulated one's grants are always whole.
Shapes == IF setup.authority = "issuer" THEN {"whole", "partial", "mismatched"} ELSE {"whole"}

\* The issuer refuses, or answers without a token or a context.
Refused ==
    /\ phase = "authority" /\ setup.authority = "issuer" /\ Fault
    /\ Settle("NO_GRANT", FALSE)
    /\ UNCHANGED <<setup, dialect, ready, wanted, grant, desktopVars, shown, card>>

\* With the path known the action is posted at once.
Authorised ==
    /\ phase = "authority"
    /\ \E shape \in Shapes :
          /\ grant' = Granted(shape)
          /\ IF ~Validates(grant')
             THEN Settle("INVALID_AUTHORITY", FALSE) /\ UNCHANGED posts
             ELSE IF dialect = "unknown"
                  THEN phase' = "discover ait" /\ UNCHANGED <<results, posts>>
                  ELSE Post(dialect) /\ UNCHANGED results
    /\ UNCHANGED <<setup, dialect, ready, wanted, bridgeUp, desktop, applied, shown, card, faults>>

\* invokeAction looks for the path with capabilities requests only.
Discover(path) ==
    /\ phase = Discovering(path) /\ UNCHANGED grant
    /\ \E answer \in {Reply(path), "TIMEOUT", "NETWORK_ERROR", "INVALID_RESPONSE"} :
          /\ Answers(path, answer)
          /\ IF answer \in {"ready", "not ready"}
             THEN dialect' = path /\ Post(path) /\ UNCHANGED results
             ELSE /\ UNCHANGED <<dialect, posts>>
                  /\ IF TriesNext(path, answer)
                     THEN phase' = "discover aillium" /\ UNCHANGED results
                     ELSE Settle(answer, FALSE)
    /\ UNCHANGED <<setup, ready, wanted, bridgeUp, desktop, applied, shown, card>>

\* Mutant: the receipt is a success whatever it says.
CompletesAnyway(reply) == reply \in {"ok", "declined"}
Completes(reply) == reply = "ok"

\* The answer to the post, unless the client has given up on it.
Answered(p) ==
    /\ phase = "invoked" /\ p.at = "back" /\ p.step = Step
    /\ posts' = posts \ {p}
    /\ \/ /\ Settle(IF Completes(p.reply) THEN "ok" ELSE p.reply, TRUE)
          /\ UNCHANGED faults
       \/ p.reply \in {"ok", "declined"} /\ Settle("INVALID_RESPONSE", TRUE) /\ Fault
    /\ UNCHANGED <<setup, dialect, ready, wanted, grant, bridgeUp, desktop, applied, shown, card>>

\* The client's timer, or its connection; what it sent is not taken back.
GivesUp ==
    /\ phase = "invoked"
    /\ Settle("TIMEOUT", TRUE)
    /\ UNCHANGED <<setup, dialect, ready, wanted, grant, desktopVars, shown, card, faults>>

-----------------------------------------------------------------------------
(***************************************************************************)
(* The gateway and the desktop bridge.                                     *)
(***************************************************************************)
Replace(p, q) == posts' = (posts \ {p}) \cup {q}
Back(p, reply) == Replace(p, [p EXCEPT !.at = "back", !.reply = reply])

\* Authority is carried and checked for its shape.
GatewayHandles(p) ==
    /\ p.at = "gateway"
    /\ CASE p.path \notin setup.serves -> Back(p, "404")
         [] p.path \in setup.serves /\ ~setup.token -> Back(p, "401")
         [] p.path \in setup.serves /\ setup.token /\ p.grant.shape = "partial" -> Back(p, "403")
         [] p.path \in setup.serves /\ setup.token /\ p.grant.shape # "partial" ->
               IF bridgeUp THEN Replace(p, [p EXCEPT !.at = "bridge"]) ELSE Back(p, "502")
    /\ UNCHANGED <<setup, clientVars, bridgeUp, desktop, applied, shown, card, faults>>

\* Mutant: the mouse moves in a world of its own.
ApplyElsewhere(instruction, state) == [state EXCEPT !.foreground = "settings"]
\* applyInstruction(): the instructions the desktop knows.
ApplyInstruction(instruction, state) ==
    CASE instruction = "wifi on"  -> [state EXCEPT !.wifi = "on"]
      [] instruction = "wifi off" -> [state EXCEPT !.wifi = "off"]
      [] instruction = "open settings" -> [state EXCEPT !.foreground = "settings"]

Known == {"wifi on", "wifi off", "open settings"}

\* An unsupported RPC is a 400, which the gateway passes on as a 502.
BridgeHandles(p) ==
    /\ p.at = "bridge"
    /\ IF wanted[p.step] \in Known
       THEN /\ desktop' = ApplyInstruction(wanted[p.step], desktop)
            /\ applied' = Append(applied, [step |-> p.step, grant |-> p.grant])
            /\ Back(p, "ok")
       ELSE /\ Back(p, IF wanted[p.step] = "unsupported" THEN "502" ELSE "declined")
            /\ UNCHANGED <<desktop, applied>>
    /\ UNCHANGED <<setup, clientVars, bridgeUp, shown, card, faults>>

\* The gateway's own timer: the answer is a 502, and the bridge goes on.
GatewayGivesUp(p) ==
    /\ p.at = "bridge" /\ Fault
    /\ posts' = posts \cup {[p EXCEPT !.at = "back", !.reply = "502"]}
    /\ UNCHANGED <<setup, clientVars, bridgeUp, desktop, applied, shown, card>>

\* A request or an answer is lost; nobody tells the client.
Lost ==
    /\ Fault
    /\ \E p \in posts : posts' = posts \ {p}
    /\ UNCHANGED <<setup, clientVars, bridgeUp, desktop, applied, shown, card>>

BridgeGoes ==
    /\ \/ bridgeUp /\ Fault /\ bridgeUp' = FALSE
       \/ ~bridgeUp /\ bridgeUp' = TRUE /\ UNCHANGED faults
    /\ UNCHANGED <<setup, clientVars, posts, desktop, applied, shown, card>>

-----------------------------------------------------------------------------
(***************************************************************************)
(* The terminal reads the state the desktop actions write.                 *)
(***************************************************************************)
ReadTerminal ==
    /\ phase = "idle" /\ shown.after # Step
    /\ \/ bridgeUp /\ shown' = [after |-> Step, wifi |-> desktop.wifi] /\ UNCHANGED faults
       \/ shown' = [after |-> Step, wifi |-> "unread"] /\ Fault
    /\ UNCHANGED <<setup, clientVars, desktopVars, card>>

(***************************************************************************)
(* The Operations card (probeOpenClawIntegration), with a client of its    *)
(* own.                                                                    *)
(***************************************************************************)
CardShows(state) == card' = [phase |-> "idle", state |-> state]

\* Mutant: a gateway that answers is a desktop that is ready.
LiveOnAnswer(answer) == answer \in {"ready", "not ready"}
Live(answer) == answer = "ready"

Probe ==
    /\ card.phase = "idle" /\ card.state = "unknown"
    /\ IF ~setup.configured THEN CardShows("unconfigured")
       ELSE card' = [card EXCEPT !.phase = IF setup.pinned = "unknown" THEN "ait"
                                           ELSE setup.pinned]
    /\ UNCHANGED <<setup, clientVars, desktopVars, shown, faults>>

ProbeAnswered(path) ==
    /\ card.phase = path
    /\ \E answer \in {Reply(path), "NETWORK_ERROR"} :
          /\ Answers(path, answer)
          /\ IF setup.pinned = "unknown" /\ TriesNext(path, answer)
             THEN card' = [card EXCEPT !.phase = "aillium"]
             ELSE CardShows(IF Live(answer) THEN "live" ELSE "configured")
    /\ UNCHANGED <<setup, clientVars, desktopVars, shown>>

-----------------------------------------------------------------------------
Client ==
    \/ Refused \/ Authorised
    \/ \E path \in {"ait", "aillium"} : Discover(path)
    \/ \E p \in posts : Answered(p)

Next ==
    \/ Capabilities \/ Client \/ GivesUp
    \/ \E instruction \in Instructions : RequestAction(instruction)
    \/ \E p \in posts : GatewayHandles(p) \/ BridgeHandles(p) \/ GatewayGivesUp(p)
    \/ Lost \/ BridgeGoes \/ ReadTerminal
    \/ Probe \/ \E path \in {"ait", "aillium"} : ProbeAnswered(path)

Spec == Init /\ [][Next]_vars

-----------------------------------------------------------------------------
Phases == {"idle", "authority", "discover ait", "discover aillium", "invoked"}

\* One action at a time is under way, and every fence is used once.
TypeOK ==
    /\ dialect \in {"unknown", "ait", "aillium"} /\ ready \in {"unknown", "ready", "not ready"}
    /\ phase \in Phases
    /\ Len(wanted) = Len(results) + (IF phase = "idle" THEN 0 ELSE 1)
    /\ \A p \in posts : p.step \in DOMAIN wanted /\ p.grant.fence <= grant.fence
    /\ card.state \in {"unknown", "unconfigured", "configured", "live"}

(***************************************************************************)
(* "An action is never replayed": whatever path the gateway has, and       *)
(* whoever gives up on whom, a step moves the mouse once at most.          *)
(***************************************************************************)
ActedOnce == \A i, j \in DOMAIN applied : applied[i].step = applied[j].step => i = j

Applied(step) == \E i \in DOMAIN applied : applied[i].step = step

\* A step reported as done was done; one refused, declined or never sent was
\* not, and will not be.
ReceiptIsTrue ==
    \A s \in DOMAIN results :
       /\ results[s].code = "ok" => Applied(s)
       /\ ~results[s].posted \/ results[s].code \in {"401", "403", "404", "declined"}
             => ~Applied(s)

(***************************************************************************)
(* "A token that outlives the step it was issued for is a token that can   *)
(* be replayed against the next one": the desktop moves only under a whole *)
(* grant that was asked for for that very step, however late it moves.     *)
(***************************************************************************)
ActsUnderItsGrant ==
    \A i \in DOMAIN applied :
       applied[i].grant.shape = "whole" /\ applied[i].grant.step = applied[i].step

(***************************************************************************)
(* The two channels are one machine: unless an earlier action was given up *)
(* on while it was under way, what a step did shows in the terminal.       *)
(***************************************************************************)
Uncertain(s) == results[s].posted /\ results[s].code \in {"TIMEOUT", "502", "INVALID_RESPONSE"}
FixShowsInTerminal ==
    LET s == shown.after
    IN  s > 0 /\ s = Len(results) /\ results[s].code = "ok" /\ shown.wifi # "unread"
          /\ wanted[s] = "wifi on" /\ (\A r \in 1..(s - 1) : ~Uncertain(r))
            => shown.wifi = "on"

\* "A live state means both the gateway and its bridge answered": the card says
\* so only in the step in which the bridge did.
LiveIsEarned ==
    [][card'.state = "live" /\ card.state # "live" => bridgeUp /\ setup.token]_vars

=============================================================================
