------------------------------- MODULE DeskRun -------------------------------
(***************************************************************************)
(* One report from the portal and the run that works it: the RunSession of *)
(* src/src/server/run-registry.ts, the DeskTicket of tickets.ts, and the   *)
(* driver, gate, question and routes of server/index.ts that share them.   *)
(*                                                                         *)
(* Everything runs on one event loop.  An action is what runs between two  *)
(* awaits; the humans' requests, the timers and the device's replies may   *)
(* be served at any of them.  The agent loop is abstracted to what it does *)
(* to the session: it asks for approvals and answers, throws once a stop   *)
(* was requested, and returns or fails (see AgentLoop).                    *)
(***************************************************************************)
EXTENDS Naturals, Sequences

CONSTANTS
    MaxRequests   \* bound: approvals and questions in one run

ASSUME MaxRequestsAssumption == MaxRequests \in Nat

VARIABLES
    target,      \* whether the report names a device to open
    driver,      \* where startRun stands
    status,      \* RunSession.status
    stopped,     \* RunSession.userStopRequestedAt is set
    requests,    \* the approvals and questions, each [kind, outcome, meant]
    pending,     \* the requests still in #pending or #questions
    timers,      \* the requests whose timeout is armed
    announced,   \* the requests whose outcome was emitted to the browsers
    attached,    \* RunSession.device is set
    held,        \* startRun's own `device` is set
    channel,     \* the connection to the machine
    window,      \* the undo window's close timer is armed
    registered,  \* the registry still knows the session
    desk,        \* the DeskTicket
    typing       \* the question the portal user is sending an answer to, or 0

runVars    == <<target, driver, status, stopped>>
waitVars   == <<requests, pending, timers, announced>>
deviceVars == <<attached, held, channel, window, registered>>
vars == <<runVars, waitVars, deviceVars, desk, typing>>

Init ==
    /\ target \in BOOLEAN
    /\ driver = "selecting"
    /\ status = "running"
    /\ stopped = FALSE
    /\ requests = <<>>
    /\ pending = {} /\ timers = {} /\ announced = {}
    /\ attached = FALSE /\ held = FALSE
    /\ channel = "none"
    /\ window = FALSE
    /\ registered = TRUE
    /\ desk = [status |-> "working", question |-> 0, handedOver |-> FALSE]
    /\ typing = 0

-----------------------------------------------------------------------------

(***************************************************************************)
(* closeDevice: the close timer is cleared, the handle dropped, and the    *)
(* channel it stood for starts to end.                                     *)
(***************************************************************************)
CloseDevice ==
    /\ window' = FALSE
    /\ attached' = FALSE
    /\ channel' = IF attached /\ channel = "open" THEN "ending" ELSE channel

\* end() of the device session returned.
ChannelEnds ==
    /\ channel = "ending"
    /\ channel' = "closed"
    /\ UNCHANGED <<runVars, waitVars, attached, held, window, registered, desk, typing>>

\* Mutant: the timers of released requests go on.
ReleaseUntimed(outcome) ==
    /\ requests' = [i \in DOMAIN requests |->
                      IF i \in pending THEN [requests[i] EXCEPT !.outcome = outcome]
                                       ELSE requests[i]]
    /\ pending' = {}
    /\ UNCHANGED timers

\* The outcomes requestUserStop and finish give whatever is still pending.
Release(outcome) ==
    /\ requests' = [i \in DOMAIN requests |->
                      IF i \in pending THEN [requests[i] EXCEPT !.outcome = outcome]
                                       ELSE requests[i]]
    /\ pending' = {}
    /\ timers' = timers \ pending

\* finish(): nothing is left waiting, and no browser is told.
Finish(how) ==
    /\ status' = how
    /\ driver' = "ended"
    /\ Release("ended")
    /\ UNCHANGED <<target, stopped, announced>>

-----------------------------------------------------------------------------
(***************************************************************************)
(* startRun.  Nothing before runTicket looks at the user's stop.           *)
(***************************************************************************)
Select ==
    /\ driver = "selecting"
    /\ driver' = IF target THEN "opening" ELSE "working"
    /\ UNCHANGED <<target, status, stopped, waitVars, deviceVars, desk, typing>>

Open ==
    /\ driver = "opening"
    /\ channel' = "open"
    /\ held' = TRUE
    /\ attached' = TRUE
    /\ driver' = "probing"
    /\ UNCHANGED <<target, status, stopped, waitVars, window, registered, desk, typing>>

\* capabilities() returned, and runTicket starts.
ProbeDevice ==
    /\ driver = "probing"
    /\ driver' = "working"
    /\ UNCHANGED <<target, status, stopped, waitVars, deviceVars, desk, typing>>

\* runTicket sees the stop at the end of an await, or anything throws after it.
Unwind ==
    /\ stopped
    /\ driver \in {"selecting", "opening", "probing", "working"}
    /\ CloseDevice
    /\ driver' = "closing"
    /\ UNCHANGED <<target, status, stopped, waitVars, held, registered, desk, typing>>

\* The await of closeDevice is over, whether or not there was one to close.
Unwound ==
    /\ driver = "closing"
    /\ Finish("finished")
    /\ held' = FALSE
    /\ UNCHANGED <<attached, channel, window, registered, desk, typing>>

\* Mutant: a run that fails keeps its device.
FailAttached ==
    /\ ~stopped
    /\ driver \in {"selecting", "opening", "probing", "working"}
    /\ Finish("failed")
    /\ held' = FALSE
    /\ desk' = [desk EXCEPT !.status = "failed", !.question = 0]
    /\ UNCHANGED <<attached, channel, window, registered, typing>>

\* Anything throws with no stop requested: the device is ended, not detached.
Fail ==
    /\ ~stopped
    /\ driver \in {"selecting", "opening", "probing", "working"}
    /\ Finish("failed")
    /\ channel' = IF held THEN "ending" ELSE channel
    /\ held' = FALSE
    /\ desk' = [desk EXCEPT !.status = "failed", !.question = 0]
    /\ UNCHANGED <<attached, window, registered, typing>>

\* Where a run leaves the ticket; a requested handover stands.
Settled(outcome) ==
    IF desk.handedOver THEN desk
    ELSE [desk EXCEPT !.status = outcome, !.question = 0]

\* runTicket returned: the device is kept for the undo window.
Complete ==
    /\ ~stopped
    /\ driver = "working"
    /\ Finish("finished")
    /\ attached' = held
    /\ held' = FALSE
    /\ window' = TRUE
    /\ \E outcome \in {"resolved", "escalated", "failed"} : desk' = Settled(outcome)
    /\ UNCHANGED <<channel, registered, typing>>

-----------------------------------------------------------------------------
(***************************************************************************)
(* The two human waits.  runTicket is suspended in one at a time: a        *)
(* request is registered, its timeout armed and the browsers told, then    *)
(* the first of an answer, the timeout, a stop or the end of the run       *)
(* settles it.  A refused or unanswered request is the last one of a run   *)
(* (AgentLoop's NoIsFinal).  The continuation (WaitReturns) is a           *)
(* microtask; the model lets other callbacks run before it, which the      *)
(* event loop does not.                                                    *)
(***************************************************************************)
Waits == [approval |-> "gate", question |-> "asking"]

\* Mutant: a run asks again after a wait that nobody answered.
RegisterAgain(kind) ==
    /\ driver = "working"
    /\ ~stopped
    /\ Len(requests) < MaxRequests
    /\ requests' = Append(requests, [kind |-> kind, outcome |-> "open", meant |-> 0])
    /\ pending' = pending \cup {Len(requests')}
    /\ timers' = timers \cup {Len(requests')}
    /\ driver' = Waits[kind]
    /\ UNCHANGED <<target, status, stopped, announced, deviceVars, typing>>

Register(kind) ==
    /\ driver = "working"
    /\ ~stopped
    /\ Len(requests) < MaxRequests
    /\ \A i \in DOMAIN requests : requests[i].outcome \in {"approved", "answered"}
    /\ requests' = Append(requests, [kind |-> kind, outcome |-> "open", meant |-> 0])
    /\ pending' = pending \cup {Len(requests')}
    /\ timers' = timers \cup {Len(requests')}
    /\ driver' = Waits[kind]
    /\ UNCHANGED <<target, status, stopped, announced, deviceVars, typing>>

RequestApproval ==
    /\ Register("approval")
    /\ desk' = [desk EXCEPT !.status = "waiting-on-technician"]

\* The session emits question-asked, which is mirrored onto the ticket.
Ask ==
    /\ Register("question")
    /\ desk' = [desk EXCEPT !.status = "waiting-on-you", !.question = Len(requests')]

\* An entry is taken off the map and its timer cleared.
Settle(i, outcome, meant) ==
    /\ requests' = [requests EXCEPT ![i].outcome = outcome, ![i].meant = meant]
    /\ pending' = pending \ {i}
    /\ timers' = timers \ {i}

\* decide(): a technician answers at the console.
Decide ==
    /\ registered
    /\ \E i \in pending, outcome \in {"approved", "declined"} :
         /\ requests[i].kind = "approval"
         /\ Settle(i, outcome, i)
         /\ announced' = announced \cup {i}
    /\ UNCHANGED <<runVars, deviceVars, desk, typing>>

\* answer(): the ticket follows the question-answered event.
Answer(i, meant) ==
    /\ Settle(i, "answered", meant)
    /\ announced' = announced \cup {i}
    /\ desk' = [desk EXCEPT !.status = "working", !.question = 0]
    /\ UNCHANGED <<runVars, deviceVars>>

ConsoleAnswers ==
    /\ registered
    /\ \E i \in pending : requests[i].kind = "question" /\ Answer(i, i)
    /\ UNCHANGED typing

\* The portal's answer names no question: the route checks that the ticket has
\* one, awaits the body, and answers the one the ticket then has.
PortalAnswerArrives ==
    /\ typing = 0
    /\ desk.question # 0
    /\ typing' = desk.question
    /\ UNCHANGED <<runVars, waitVars, deviceVars, desk>>

PortalAnswerIsRead ==
    /\ typing # 0
    /\ typing' = 0
    /\ IF registered /\ desk.question \in pending
       THEN Answer(desk.question, typing)
       ELSE UNCHANGED <<runVars, waitVars, deviceVars, desk>>

\* Mutant: a timeout tells the browsers nothing.
TimeOutSilently ==
    /\ \E i \in timers : Settle(i, "timeout", 0)
    /\ UNCHANGED <<runVars, announced, deviceVars, desk, typing>>

\* Mutant: only approvals time out.
TimeOutApprovals ==
    /\ \E i \in timers :
         /\ requests[i].kind = "approval"
         /\ Settle(i, "timeout", 0)
         /\ announced' = announced \cup {i}
    /\ UNCHANGED <<runVars, deviceVars, desk, typing>>

\* A timeout denies an approval, and leaves a question unanswered: the first
\* tells the browsers, the second neither them nor the ticket.
TimeOut ==
    /\ \E i \in timers :
         /\ Settle(i, "timeout", 0)
         /\ announced' = IF requests[i].kind = "approval"
                         THEN announced \cup {i} ELSE announced
    /\ UNCHANGED <<runVars, deviceVars, desk, typing>>

\* Mutant: the gate moves the ticket back to work whatever settled the wait.
WaitReturnsToWork ==
    /\ \/ /\ driver = "gate"
          /\ desk' = [desk EXCEPT !.status = "working"]
       \/ /\ driver = "asking"
          /\ UNCHANGED desk
    /\ pending = {}
    /\ driver' = "working"
    /\ UNCHANGED <<target, status, stopped, waitVars, deviceVars, typing>>

\* The awaited promise is settled; after a stop the ticket is left alone.
WaitReturns ==
    /\ \/ /\ driver = "gate"
          /\ desk' = IF stopped THEN desk ELSE [desk EXCEPT !.status = "working"]
       \/ /\ driver = "asking"
          /\ UNCHANGED desk
    /\ pending = {}
    /\ driver' = "working"
    /\ UNCHANGED <<target, status, stopped, waitVars, deviceVars, typing>>

-----------------------------------------------------------------------------
(***************************************************************************)
(* The user's stop: every wait is released, the device closed, and the     *)
(* ticket handed over, in one handler.                                     *)
(***************************************************************************)
UserStop ==
    /\ ~desk.handedOver
    /\ desk.status \notin {"resolved", "escalated", "failed"}
    /\ registered
    /\ status = "running" /\ ~stopped
    /\ stopped' = TRUE
    /\ Release("stopped")
    /\ announced' = announced \cup pending
    /\ CloseDevice
    /\ desk' = [status |-> "escalated", question |-> 0, handedOver |-> TRUE]
    /\ UNCHANGED <<target, driver, status, held, registered, typing>>

\* The undo window is over.
WindowCloses ==
    /\ window
    /\ CloseDevice
    /\ UNCHANGED <<runVars, waitVars, held, registered, desk, typing>>

\* Another run is created while the registry is full of settled ones.
Evict ==
    /\ registered
    /\ status # "running"
    /\ registered' = FALSE
    /\ CloseDevice
    /\ UNCHANGED <<runVars, waitVars, held, desk, typing>>

Progress ==
    \/ Select \/ Open \/ ProbeDevice \/ Unwind \/ Unwound \/ Fail \/ Complete
    \/ TimeOut \/ WaitReturns \/ ChannelEnds \/ WindowCloses
    \/ PortalAnswerIsRead

Humans == RequestApproval \/ Ask \/ Decide \/ ConsoleAnswers
            \/ PortalAnswerArrives \/ UserStop \/ Evict

\* Nothing is left to do: the machine is released and no request is in flight.
Quiet ==
    /\ driver = "ended" /\ ~window /\ channel # "ending" /\ typing = 0
    /\ UNCHANGED vars

Next == Progress \/ Humans \/ Quiet

Spec == Init /\ [][Next]_vars

(***************************************************************************)
(* The event loop serves every timer, settled promise, device reply and    *)
(* request that is due.  Each of them keeps its own turn: a human who      *)
(* never answers does not keep a timer from firing.                        *)
(***************************************************************************)
FairSpec ==
    /\ Spec
    /\ WF_vars(Select \/ Open \/ ProbeDevice \/ Unwind \/ Unwound \/ Fail \/ Complete)
    /\ WF_vars(TimeOut) /\ WF_vars(WaitReturns)
    /\ WF_vars(ChannelEnds) /\ WF_vars(WindowCloses)
    /\ WF_vars(PortalAnswerIsRead)

-----------------------------------------------------------------------------
Request == [kind: {"approval", "question"},
            outcome: {"open", "approved", "declined", "answered", "timeout",
                      "stopped", "ended"},
            meant: 0..MaxRequests]

\* The shape of the state.
TypeOK ==
    /\ target \in BOOLEAN
    /\ driver \in {"selecting", "opening", "probing", "working", "gate", "asking",
                   "closing", "ended"}
    /\ status \in {"running", "finished", "failed"}
    /\ stopped \in BOOLEAN
    /\ requests \in Seq(Request) /\ Len(requests) <= MaxRequests
    /\ pending \subseteq DOMAIN requests
    /\ timers \subseteq DOMAIN requests
    /\ announced \subseteq DOMAIN requests
    /\ attached \in BOOLEAN /\ held \in BOOLEAN
    /\ channel \in {"none", "open", "ending", "closed"}
    /\ window \in BOOLEAN /\ registered \in BOOLEAN
    /\ desk \in [status: {"working", "waiting-on-you", "waiting-on-technician",
                          "resolved", "escalated", "failed"},
                 question: 0..MaxRequests, handedOver: BOOLEAN]
    /\ typing \in 0..MaxRequests

(***************************************************************************)
(* A request is pending exactly while its timer is armed, and then it is   *)
(* the one the run is suspended on: no promise waits without a way out,    *)
(* and no timer is left to fire on a settled one or a finished run         *)
(* (run-registry.ts:124-157 and 217-308).                                  *)
(***************************************************************************)
PendingIsTimed ==
    /\ pending = timers
    /\ pending = {i \in DOMAIN requests : requests[i].outcome = "open"}
    /\ \A i \in pending : i = Len(requests) /\ driver = Waits[requests[i].kind]

(***************************************************************************)
(* Every browser that saw an approval asked for is told how it was         *)
(* settled, whichever of the technician, the timeout and the user's stop   *)
(* came first: the console keeps no card nobody can answer                 *)
(* (run-registry.ts:187-196, 231-248 and 262-269; index.ts:1346-1350).     *)
(***************************************************************************)
ApprovalsAreAnnounced ==
    \A i \in DOMAIN requests :
        requests[i].kind = "approval" /\ requests[i].outcome # "open" => i \in announced

(***************************************************************************)
(* The user's handover stands: whatever was in flight when they pressed    *)
(* stop, the ticket stays with a technician and asks them nothing          *)
(* (index.ts:291-293, 514-522 and 831-842).                                *)
(***************************************************************************)
HandoverStands == stopped => desk = [status |-> "escalated", question |-> 0, handedOver |-> TRUE]

(***************************************************************************)
(* An open connection to someone's machine always has an owner who will    *)
(* end it: the driver, or the undo window of a session the registry still  *)
(* knows (index.ts:499-513 and 552-554, run-registry.ts:277-290, 347-364). *)
(***************************************************************************)
ChannelHasAnOwner ==
    channel = "open" => \/ held /\ driver # "ended"
                        \/ attached /\ window /\ registered

(***************************************************************************)
(* The portal's answer names no question, so it may resolve another than   *)
(* the one it was written for; but only when the other surface answered    *)
(* that one in the meantime, never because a wait ran out or was stopped   *)
(* (index.ts:792-809; "either can resolve it", index.ts:313-314).          *)
(***************************************************************************)
StrayAnswerWasOvertaken ==
    \A i \in DOMAIN requests :
       LET meant == requests[i].meant
       IN  requests[i].outcome = "answered" /\ meant # i =>
              meant \in 1..(i - 1) /\ requests[meant].outcome = "answered"

\* Under FairSpec every run settles, whatever the humans do or leave undone, and
\* the machine is given back for good (index.ts:503-558, run-registry.ts:271-308).
RunSettles ==
    <>[](driver = "ended" /\ status # "running" /\ channel \in {"none", "closed"})
=============================================================================
