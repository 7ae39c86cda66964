----------------------------- MODULE RemoteShell -----------------------------
(***************************************************************************)
(* MeshCentralSession of src/src/execution-plane/remote.ts: a machine      *)
(* reached through a control channel, a relay and one interactive shell.   *)
(* Commands queue for the shell; a sentinel echoed after each marks the    *)
(* end of its output, and says nothing of which command it ended.          *)
(*                                                                         *)
(* The server, the agent and the shell are the environment.  A relay is    *)
(* one socket to the agent, with its own shell behind it.  Up to MaxFaults *)
(* times a socket, a login, an agent or a shell does not answer in time.   *)
(***************************************************************************)
EXTENDS Naturals, Sequences, FiniteSets

CONSTANTS
    MaxCommands,  \* bound: commands given to exec()
    MaxRelays,    \* bound: relays opened
    MaxFaults     \* bound: faults of the network, the agent and the shell

ASSUME ShellAssumption ==
    MaxCommands \in Nat /\ MaxRelays \in Nat \ {0} /\ MaxFaults \in Nat

Commands == 1..MaxCommands
Relays   == 1..MaxRelays

VARIABLES
    status,    \* the session's status
    control,   \* #control
    cookies,   \* #cookies is set
    relay,     \* #relay, or 0
    queue,     \* the commands not settled yet; the first is being served
    phase,     \* which await of #execNow the first command is at
    at,        \* the relay that command waits on or writes to
    given,     \* how many commands exec() was given
    results,   \* what exec() returned for each
    line,      \* the relay each command was typed on, or 0
    sockets,   \* the relays' own state
    typed,     \* what each shell has still to run
    frames,    \* what each shell sent that has not arrived
    ran,       \* the commands the machine has run, in order
    faults

sessionVars == <<status, control, cookies, relay>>
servingVars == <<queue, phase, at, given, results, line>>
remoteVars  == <<sockets, typed, frames, ran>>
shellVars   == <<sessionVars, servingVars, remoteVars, faults>>

Frame(of, kind) == [of |-> of, kind |-> kind]
Pending == [outcome |-> "pending", of |-> 0]
Failed  == [outcome |-> "failed", of |-> 0]
Output(of) == [outcome |-> "returned", of |-> of]

ShellInit ==
    /\ status = "requested" /\ control = "none" /\ cookies = FALSE /\ relay = 0
    /\ queue = <<>> /\ phase = "idle" /\ at = 0 /\ given = 0
    /\ results = [c \in Commands |-> Pending]
    /\ line = [c \in Commands |-> 0]
    /\ sockets = [r \in Relays |-> "unused"]
    /\ typed = [r \in Relays |-> <<>>]
    /\ frames = [r \in Relays |-> <<>>]
    /\ ran = <<>>
    /\ faults = 0

Fault == faults < MaxFaults /\ faults' = faults + 1

-----------------------------------------------------------------------------
(***************************************************************************)
(* exec(): the command joins the queue.                                    *)
(***************************************************************************)
Exec ==
    /\ given < MaxCommands
    /\ given' = given + 1
    /\ queue' = Append(queue, given + 1)
    /\ UNCHANGED <<sessionVars, phase, at, results, line, remoteVars, faults>>

\* Mutant: a command that failed is put back to be tried again.
FailAndRetry ==
    /\ queue' = IF results[Head(queue)] = Pending THEN queue ELSE Tail(queue)
    /\ results' = [results EXCEPT ![Head(queue)] = Failed]
    /\ phase' = "idle" /\ at' = 0
    /\ status' = IF status = "ended" THEN "ended" ELSE "failed"

\* The command's promise rejects; the chain goes on with the next.
Fail ==
    /\ queue' = Tail(queue)
    /\ results' = [results EXCEPT ![Head(queue)] = Failed]
    /\ phase' = "idle" /\ at' = 0
    /\ status' = IF status = "ended" THEN "ended" ELSE "failed"

\* The line is written to the relay, which echoes it.  A closed one says nothing.
Type(r) ==
    /\ phase' = "output" /\ at' = r
    /\ line' = [line EXCEPT ![Head(queue)] = r]
    /\ IF sockets[r] = "joined"
       THEN /\ typed' = [typed EXCEPT ![r] = Append(@, Head(queue))]
            /\ frames' = [frames EXCEPT ![r] = Append(@, Frame(Head(queue), "echo"))]
       ELSE UNCHANGED <<typed, frames>>

\* The agent is told over #control which relay to dial; without one send() throws.
Tunnel ==
    IF control = "none"
    THEN Fail /\ UNCHANGED <<given, line>>
    ELSE /\ phase' = "socket"
         /\ UNCHANGED <<status, queue, at, given, results, line>>

-----------------------------------------------------------------------------
(***************************************************************************)
(* #execNow and #openTerminal for the first command of the queue.          *)
(***************************************************************************)
Connected == relay # 0 /\ sockets[relay] = "joined"
Serving(p) == queue # <<>> /\ phase = p

Start ==
    /\ Serving("idle")
    /\ \/ /\ Connected
          /\ Type(relay)
          /\ UNCHANGED <<sessionVars, queue, given, results, sockets, ran>>
       \/ /\ ~Connected
          /\ cookies
          /\ Tunnel
          /\ UNCHANGED <<control, cookies, relay, remoteVars>>
       \/ /\ ~Connected
          /\ ~cookies
          /\ status' = "establishing" /\ phase' = "connect"
          /\ UNCHANGED <<control, cookies, relay, queue, at, given, results, line, remoteVars>>
    /\ UNCHANGED faults

\* The control socket opens; end() in the meantime had nothing to close.
ControlOpens ==
    /\ Serving("connect")
    /\ control' = "open" /\ phase' = "login"
    /\ UNCHANGED <<status, cookies, relay, queue, at, given, results, line, remoteVars, faults>>

\* The cookies arrive, if need be on a control channel end() is closing.
LoginAnswered ==
    /\ Serving("login") /\ control # "closed"
    /\ cookies' = TRUE
    /\ Tunnel
    /\ UNCHANGED <<control, relay, remoteVars, faults>>

RelayOpens ==
    /\ Serving("socket")
    /\ \E r \in Relays :
          /\ sockets[r] = "unused"
          /\ \A q \in 1..(r - 1) : sockets[q] # "unused"
          /\ sockets' = [sockets EXCEPT ![r] = "open"]
          /\ at' = r
    /\ phase' = "join"
    /\ UNCHANGED <<sessionVars, queue, given, results, line, typed, frames, ran, faults>>

(***************************************************************************)
(* Both ends are present.  The listener outlives its timeout: a late agent *)
(* is given a shell that nobody will use.                                  *)
(***************************************************************************)
AgentJoins(r) ==
    /\ sockets[r] = "open"
    /\ IF Serving("join") /\ at = r
       THEN /\ sockets' = [sockets EXCEPT ![r] = "joined"]
            /\ relay' = r /\ status' = "active"
            /\ phase' = "output" /\ at' = r
            /\ line' = [line EXCEPT ![Head(queue)] = r]
            /\ typed' = [typed EXCEPT ![r] = Append(@, Head(queue))]
            /\ frames' = [frames EXCEPT ![r] = Append(@, Frame(Head(queue), "echo"))]
       ELSE /\ sockets' = [sockets EXCEPT ![r] = "joined"]
            /\ UNCHANGED <<relay, status, phase, at, line, typed, frames>>
    /\ UNCHANGED <<control, cookies, queue, given, results, ran, faults>>

\* A socket errors, a login is turned down, or something does not come in time.
ConnectionFails ==
    /\ \E p \in {"connect", "login", "socket", "join"} : Serving(p)
    /\ \/ Fault
       \* end() closed the channel the login waits on
       \/ phase = "login" /\ control \in {"none", "closed"} /\ UNCHANGED faults
       \* the tunnel message, or the relay, is lost for good
       \/ phase = "join" /\ sockets[at] = "closed" /\ UNCHANGED faults
       \/ phase = "socket" /\ sockets[MaxRelays] # "unused" /\ UNCHANGED faults
    /\ Fail
    /\ UNCHANGED <<control, cookies, relay, given, line, remoteVars>>

\* Mutant: the sentinel in the echo of the line counts.
EndsAtEcho(frame) == TRUE
\* Only the sentinel followed by digits, the shell's expansion of it, counts.
EndsCommand(frame) == frame.kind = "done"

\* A frame reaches the listener of the command being served, or nobody.
FrameArrives(r) ==
    /\ frames[r] # <<>>
    /\ frames' = [frames EXCEPT ![r] = Tail(@)]
    /\ LET frame == Head(frames[r])
       IN  IF Serving("output") /\ at = r /\ EndsCommand(frame)
           THEN /\ results' = [results EXCEPT ![Head(queue)] = Output(frame.of)]
                /\ queue' = Tail(queue) /\ phase' = "idle" /\ at' = 0
           ELSE UNCHANGED <<results, queue, phase, at>>
    /\ UNCHANGED <<sessionVars, given, line, sockets, typed, ran, faults>>

\* Mutant: only the sentinel ends a command.
NeverTimesOut == FALSE
\* The command's own timer; on a relay that closed nothing else ends it.
CommandTimesOut ==
    /\ Serving("output")
    /\ Fault \/ (sockets[at] = "closed" /\ UNCHANGED faults)
    /\ Fail
    /\ UNCHANGED <<control, cookies, relay, given, line, remoteVars>>

(***************************************************************************)
(* end(): closes what the session holds.  A command being served goes on.  *)
(***************************************************************************)
End ==
    /\ sockets' = IF relay # 0 THEN [sockets EXCEPT ![relay] = "closed"] ELSE sockets
    /\ frames' = IF relay # 0 THEN [frames EXCEPT ![relay] = <<>>] ELSE frames
    /\ relay' = 0 /\ control' = "none" /\ cookies' = FALSE
    /\ status' = "ended"
    /\ UNCHANGED <<servingVars, typed, ran, faults>>

-----------------------------------------------------------------------------
(***************************************************************************)
(* The environment: the shell runs what was typed, line by line, and a     *)
(* connection may drop.                                                    *)
(***************************************************************************)
ShellRuns(r) ==
    /\ sockets[r] = "joined" /\ typed[r] # <<>>
    /\ typed' = [typed EXCEPT ![r] = Tail(@)]
    /\ ran' = Append(ran, Head(typed[r]))
    /\ frames' = [frames EXCEPT ![r] = Append(@, Frame(Head(typed[r]), "done"))]
    /\ UNCHANGED <<sessionVars, servingVars, sockets, faults>>

Drops ==
    /\ Fault
    /\ \/ \E r \in Relays :
             /\ sockets[r] \in {"open", "joined"}
             /\ sockets' = [sockets EXCEPT ![r] = "closed"]
             /\ frames' = [frames EXCEPT ![r] = <<>>]
             /\ UNCHANGED control
       \/ /\ control = "open" /\ control' = "closed"
          /\ UNCHANGED <<sockets, frames>>
    /\ UNCHANGED <<status, cookies, relay, servingVars, typed, ran>>

ShellStep ==
    \/ Start \/ ControlOpens \/ LoginAnswered \/ RelayOpens
    \/ ConnectionFails \/ CommandTimesOut \/ Drops
    \/ \E r \in Relays : AgentJoins(r) \/ FrameArrives(r) \/ ShellRuns(r)

-----------------------------------------------------------------------------
Statuses == {"requested", "establishing", "active", "ended", "failed"}
Phases   == {"idle", "connect", "login", "socket", "join", "output"}
Outcomes == {"pending", "failed", "returned"}

\* The session serves only commands that wait, and each of them once.
ShellTypeOK ==
    /\ status \in Statuses /\ control \in {"none", "open", "closed"} /\ cookies \in BOOLEAN
    /\ relay \in 0..MaxRelays /\ at \in 0..MaxRelays /\ phase \in Phases
    /\ queue \in Seq(1..given) /\ \A i, j \in DOMAIN queue : i < j => queue[i] < queue[j]
    /\ \A c \in 1..given : results[c] = Pending <=> \E i \in DOMAIN queue : queue[i] = c
    /\ phase \in {"join", "output"} <=> at # 0
    /\ faults \in 0..MaxFaults

(***************************************************************************)
(* "Two concurrent commands would interleave their output and neither      *)
(* result would be trustworthy": a command's result is its own, unless a   *)
(* command before it on the same shell was given up while it still ran.    *)
(***************************************************************************)
GivenUpBefore(c) == \E d \in 1..(c - 1) : results[d] = Failed /\ line[d] = line[c]
ResultIsItsOwn ==
    \A c \in Commands :
       results[c].outcome = "returned" /\ ~GivenUpBefore(c)
          => results[c].of = c /\ \E i \in DOMAIN ran : ran[i] = c

\* Whatever connects, drops or is late, the machine runs each command at most
\* once, in the order of the calls.
RunsInOrder == \A i, j \in DOMAIN ran : i < j => ran[i] < ran[j]

=============================================================================
