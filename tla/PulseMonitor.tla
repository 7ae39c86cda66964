---------------------------- MODULE PulseMonitor -----------------------------
(***************************************************************************)
(* PulseMonitor of src/src/pulse/monitor.ts with the routes of the console *)
(* that drive it (server/index.ts): a timer and people start checks of a   *)
(* fleet, a check in flight is shared, its probes go one after the other   *)
(* through the policy, and a finding may become a ticket.                  *)
(*                                                                         *)
(* Sessions, commands and listeners are the environment: each may fail.    *)
(***************************************************************************)
EXTENDS Naturals, Sequences, FiniteSets, PolicyEngine

CONSTANTS
    Fleets,        \* the fleets to watch, each a sequence of targets
    HistoryLimit,  \* historyLimit
    Callers,       \* the people who ask for a check
    MaxRuns,       \* bound: checks begun
    MaxStarts      \* bound: start() called

PulseHealth == {"healthy", "warning", "unavailable", "critical"}

\* The step a probe becomes: a command, declared to change nothing.
ProbeStep == {s \in PlanStep : s.kind = "command" /\ ~s.mutating /\ ~s.rollback}

\* What interpret() can make of the command's output; "throws" is output the
\* probe cannot read.
PulseProbe == [step: ProbeStep, finds: SUBSET (PulseHealth \cup {"throws"})]

PulseTarget == [device: Posture, probes: Seq(PulseProbe)]

ASSUME PulseAssumption ==
    /\ \A f \in Fleets : f \in Seq(PulseTarget) /\ Len(f) > 0
    /\ HistoryLimit \in Nat \ {0} /\ MaxRuns \in Nat /\ MaxStarts \in Nat

VARIABLES
    fleet,     \* #targets
    timer,     \* #timer is set
    intervals, \* the intervals that tick
    starts,    \* how often start() was called
    inFlight,  \* the run #inFlight stands for, or 0
    sequence,  \* #sequence
    work,      \* the runs being executed: [run -> where it is and what it found]
    sessions,  \* the open device sessions, each [run, target]
    history,   \* #history, newest first
    lastError, \* #lastError is set
    callers,   \* the run each person waits for, or 0
    desk       \* how many tickets the desk has of each finding

schedVars == <<fleet, timer, intervals, starts>>
checkVars == <<inFlight, sequence, work, sessions, history, lastError>>
vars == <<schedVars, checkVars, callers, desk>>

-----------------------------------------------------------------------------
(***************************************************************************)
(* The fleet of the demonstration (pulse/demo-fleet.ts): its probes, and   *)
(* what each can make of its command's output.                             *)
(***************************************************************************)
Look == [kind |-> "command", mutating |-> FALSE, hits |-> {}, empty |-> FALSE,
         rule |-> "none", unknown |-> FALSE, dynamic |-> FALSE, rollback |-> FALSE]

Reachability == [step |-> Look, finds |-> {"healthy", "warning", "critical"}]
Dns          == [step |-> Look, finds |-> {"healthy", "critical"}]
Spooler      == [step |-> Look, finds |-> {"healthy", "critical", "unavailable"}]
Printer      == [step |-> Look, finds |-> {"healthy", "warning", "unavailable"}]
Mdm          == [step |-> Look,
                 finds |-> {"healthy", "warning", "critical", "unavailable", "throws"}]

demoPulseTargets ==
    <<[device |-> "managed", probes |-> <<Reachability, Dns>>],
      [device |-> "managed", probes |-> <<Spooler, Printer>>],
      [device |-> "managed", probes |-> <<Mdm>>]>>

-----------------------------------------------------------------------------
HEALTH_RANK == [healthy |-> 0, warning |-> 1, unavailable |-> 2, critical |-> 3]

HealthsOf(seq) == {seq[i] : i \in DOMAIN seq}

worstHealth(healths) ==
    IF healths = <<>> THEN "unavailable"
    ELSE CHOOSE h \in HealthsOf(healths) :
            \A g \in HealthsOf(healths) : HEALTH_RANK[g] <= HEALTH_RANK[h]

\* countTargets() and statusFor(), from the worst probe of each target.
statusFor(targets) ==
    LET worst == {worstHealth(targets[t]) : t \in DOMAIN targets}
    IN  IF "critical" \in worst THEN "critical"
        ELSE IF worst \cap {"warning", "unavailable"} # {} THEN "degraded"
        ELSE "healthy"

\* The targets a run raised an alert for.
Alerting(run) == {t \in DOMAIN run.targets : HealthsOf(run.targets[t]) # {"healthy"}}

Init ==
    /\ fleet \in Fleets
    /\ timer = FALSE /\ intervals = 0 /\ starts = 0
    /\ inFlight = 0 /\ sequence = 0
    /\ work = <<>> /\ sessions = {}
    /\ history = <<>> /\ lastError = FALSE
    /\ callers = [c \in Callers |-> 0]
    /\ desk = [finding \in (1..MaxRuns) \X DOMAIN fleet |-> 0]

-----------------------------------------------------------------------------
(***************************************************************************)
(* #begin: a run in flight is everybody's.                                 *)
(***************************************************************************)
\* Mutant: every request begins a run of its own.
JoinsNothing == FALSE
Joins == inFlight # 0

Begin ==
    IF Joins
    THEN UNCHANGED checkVars
    ELSE /\ sequence < MaxRuns
         /\ sequence' = sequence + 1
         /\ inFlight' = sequence'
         /\ lastError' = FALSE
         /\ work' = Append(work, [state |-> "checking", targets |-> <<>>, probes |-> <<>>])
         /\ UNCHANGED <<sessions, history>>

\* runNow(), by a person who then waits for that run.
RunNow(c) ==
    /\ callers[c] = 0
    /\ Begin
    /\ callers' = [callers EXCEPT ![c] = inFlight']
    /\ UNCHANGED <<schedVars, desk>>

Tick ==
    /\ intervals > 0
    /\ Begin
    /\ UNCHANGED <<schedVars, callers, desk>>

\* Mutant: the interval before is left ticking.
StartAnother == intervals' = intervals + 1
StartInterval == intervals' = intervals + 1 - (IF timer THEN 1 ELSE 0)

\* start() with a valid interval; calling it again changes the interval.
Start ==
    /\ starts < MaxStarts
    /\ starts' = starts + 1
    /\ timer' = TRUE
    /\ StartInterval
    /\ UNCHANGED <<fleet, checkVars, callers, desk>>

Stop ==
    /\ timer' = FALSE
    /\ intervals' = intervals - (IF timer THEN 1 ELSE 0)
    /\ UNCHANGED <<fleet, starts, checkVars, callers, desk>>

-----------------------------------------------------------------------------
(***************************************************************************)
(* #execute and #checkTarget: one target after the other, one probe after  *)
(* the other, and whatever goes wrong is a finding.                        *)
(***************************************************************************)
Checking(r) == work[r].state = "checking"
Current(r)  == Len(work[r].targets) + 1
TargetOf(r) == fleet[Current(r)]
Probed(r)   == Len(work[r].probes)
Opened(r)   == [run |-> r, target |-> Current(r)] \in sessions

OpenSession(r) ==
    /\ Checking(r) /\ Current(r) <= Len(fleet) /\ ~Opened(r)
    /\ \/ sessions' = sessions \cup {[run |-> r, target |-> Current(r)]}
          /\ UNCHANGED work
       \/ work' = [work EXCEPT ![r].targets =
                      Append(@, [p \in DOMAIN TargetOf(r).probes |-> "unavailable"])]
          /\ UNCHANGED sessions
    /\ UNCHANGED <<schedVars, inFlight, sequence, history, lastError, callers, desk>>

Runs(probe, device) == Evaluate(probe.step, device).decision = "allow"

\* Mutant: output that cannot be read ends the target, and its probes are reported again.
RecordProbeOrThrow(r, finding) ==
    work' = [work EXCEPT ![r].probes =
               IF finding # "throws" THEN Append(@, finding)
               ELSE @ \o [p \in DOMAIN TargetOf(r).probes |-> "unavailable"]]
RecordProbe(r, finding) ==
    work' = [work EXCEPT ![r].probes =
               Append(@, IF finding = "throws" THEN "unavailable" ELSE finding)]

CheckProbe(r) ==
    /\ Checking(r) /\ Opened(r) /\ Probed(r) < Len(TargetOf(r).probes)
    /\ LET probe == TargetOf(r).probes[Probed(r) + 1]
       IN  IF Runs(probe, TargetOf(r).device)
           THEN \* the command comes back and is read, or does not come back
                \E finding \in probe.finds \cup {"unavailable"} : RecordProbe(r, finding)
           ELSE RecordProbe(r, "unavailable")
    /\ UNCHANGED <<schedVars, inFlight, sequence, sessions, history, lastError,
                   callers, desk>>

\* The session is ended, however that goes, and the target is reported.
EndSession(r) ==
    /\ Checking(r) /\ Opened(r) /\ Probed(r) >= Len(TargetOf(r).probes)
    /\ sessions' = sessions \ {[run |-> r, target |-> Current(r)]}
    /\ work' = [work EXCEPT ![r].targets = Append(@, work[r].probes), ![r].probes = <<>>]
    /\ UNCHANGED <<schedVars, inFlight, sequence, history, lastError, callers, desk>>

FirstOf(seq, n) == SubSeq(seq, 1, IF Len(seq) > n THEN n ELSE Len(seq))

\* Whoever waits for the run gets it, or its error.
Answer(r) == callers' = [c \in Callers |-> IF callers[c] = r THEN 0 ELSE callers[c]]

\* Mutant: a run that failed is still the one in flight.
KeepInFlight(r, how) == IF how = "rejected" THEN inFlight ELSE 0
ClearInFlight(r, how) == 0

(***************************************************************************)
(* The run enters the history, then the listeners are told; a listener     *)
(* that throws rejects the run all the same.                               *)
(***************************************************************************)
Complete(r) ==
    /\ Checking(r) /\ Current(r) > Len(fleet)
    /\ history' = FirstOf(<<[id |-> r, targets |-> work[r].targets,
                             status |-> statusFor(work[r].targets)]>> \o history, HistoryLimit)
    /\ work' = [work EXCEPT ![r] = [state |-> "settled", targets |-> <<>>, probes |-> <<>>]]
    /\ \E how \in {"told", "rejected"} :
          /\ Answer(r)
          /\ lastError' = (lastError \/ how = "rejected")
          /\ inFlight' = ClearInFlight(r, how)
    /\ UNCHANGED <<schedVars, sequence, sessions, desk>>

\* There is nowhere to keep the evidence: the run rejects before its first target.
Reject(r) ==
    /\ Checking(r) /\ Current(r) = 1 /\ ~Opened(r)
    /\ work' = [work EXCEPT ![r] = [state |-> "settled", targets |-> <<>>, probes |-> <<>>]]
    /\ Answer(r)
    /\ lastError' = TRUE
    /\ inFlight' = ClearInFlight(r, "rejected")
    /\ UNCHANGED <<schedVars, sequence, sessions, history, desk>>

-----------------------------------------------------------------------------
(***************************************************************************)
(* POST /api/pulse/ticket: one ticket for a finding, while the desk has it.*)
(***************************************************************************)
InHistory(r) == \E i \in DOMAIN history : history[i].id = r
RunOf(r) == history[CHOOSE i \in DOMAIN history : history[i].id = r]

Actionable(r, t) == InHistory(r) /\ t \in Alerting(RunOf(r))

\* Mutant: what was opened before is not looked up.
NoTicketFor(finding) == FALSE
HasTicket(finding) == desk[finding] > 0

\* The body is read before any of this is looked at.
FileTicket ==
    /\ \E finding \in (1..sequence) \X DOMAIN fleet :
          /\ Actionable(finding[1], finding[2]) /\ ~HasTicket(finding)
          /\ desk' = [desk EXCEPT ![finding] = @ + 1]
    /\ UNCHANGED <<schedVars, checkVars, callers>>

\* The desk evicts a ticket that is settled.
DeskForgets ==
    /\ \E finding \in DOMAIN desk :
          desk[finding] > 0 /\ desk' = [desk EXCEPT ![finding] = @ - 1]
    /\ UNCHANGED <<schedVars, checkVars, callers>>

-----------------------------------------------------------------------------
Execute ==
    \E r \in DOMAIN work :
       OpenSession(r) \/ CheckProbe(r) \/ EndSession(r) \/ Complete(r) \/ Reject(r)

People ==
    \/ \E c \in Callers : RunNow(c)
    \/ FileTicket

Next == Execute \/ People \/ Tick \/ Start \/ Stop \/ DeskForgets

Spec == Init /\ [][Next]_vars

\* Sessions and commands come back or throw: the executor's own timers see to it.
FairSpec == Spec /\ WF_vars(Execute)

-----------------------------------------------------------------------------
\* Types, newest run first, and one interval at most.
TypeOK ==
    /\ timer \in BOOLEAN /\ starts \in 0..MaxStarts
    /\ intervals = IF timer THEN 1 ELSE 0
    /\ inFlight \in 0..sequence /\ sequence \in 0..MaxRuns /\ DOMAIN work = 1..sequence
    /\ Len(history) <= HistoryLimit
    /\ \A i, j \in DOMAIN history : i < j => history[i].id > history[j].id
    /\ \A c \in Callers : callers[c] \in 0..sequence

\* Whoever asks, and whatever ticks, one machine is visited at a time, and none
\* is left connected once the check is over.
OneMachineAtATime ==
    /\ \A s, u \in sessions : s = u
    /\ inFlight = 0 => sessions = {}

(***************************************************************************)
(* A run that is reported accounts for every probe of every target once;   *)
(* what could not be seen is never part of a healthy fleet; and nothing    *)
(* but a look at a machine that consented to it was seen: a probe is no    *)
(* "hidden remote-control path".                                           *)
(***************************************************************************)
ReportIsWhole ==
    \A i \in DOMAIN history :
       /\ \A t \in DOMAIN fleet :
             /\ Len(history[i].targets[t]) = Len(fleet[t].probes)
             /\ \A p \in DOMAIN fleet[t].probes :
                   history[i].targets[t][p] # "unavailable" =>
                      /\ fleet[t].probes[p].step = Look
                      /\ fleet[t].device \in {"managed", "unmanaged"}
       /\ history[i].status = "healthy" =>
             \A t \in DOMAIN fleet : HealthsOf(history[i].targets[t]) = {"healthy"}

\* A finding has one ticket on the desk at most, and every ticket a finding.
OneTicketPerFinding ==
    \A finding \in DOMAIN desk :
       /\ desk[finding] <= 1
       /\ desk[finding] = 1 /\ InHistory(finding[1]) =>
             HealthsOf(RunOf(finding[1]).targets[finding[2]]) # {"healthy"}

\* After stop() nothing begins by itself, however often start() was called.
StoppedIsQuiet ==
    [][~timer /\ sequence' # sequence => callers' # callers]_vars

\* Whoever waits for a check is answered, and the monitor is free again.
CheckIsAnswered ==
    \A c \in Callers, r \in 1..MaxRuns : callers[c] = r ~> callers[c] # r
=============================================================================
