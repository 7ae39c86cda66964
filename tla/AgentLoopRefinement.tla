------------------------ MODULE AgentLoopRefinement -------------------------
(***************************************************************************)
(* A run of the agent loop implements GovernedDevice.  A step holds a      *)
(* permit from the moment its verdict, after the gate, is "allow" until    *)
(* the session is called or the step is recorded; the device has performed *)
(* what the session was told to do; the user's stop closes it.             *)
(***************************************************************************)
EXTENDS AgentLoop

\* A stop can only arrive at an await, where no permit is held except that
\* of a question waiting for its answer.
Permitted ==
    IF /\ phase \in {"cleared", "question", "act"}
       /\ cleared.decision = "allow"
       /\ ~stop
    THEN {Step} ELSE {}

Governed == INSTANCE GovernedDevice WITH
    posture   <- ticket.posture,
    permits   <- Permitted,
    performed <- [i \in DOMAIN ran |-> ran[i].step],
    frozen    <- frozen,
    closed    <- stop

\* Every behaviour of the loop is one the control plane promises: nothing
\* reaches the device without its own, unused permit (loop.ts:286-405).
DeviceIsGoverned == Governed!Spec
=============================================================================
