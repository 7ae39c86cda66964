------------------------- MODULE PulseMonitorProofs -------------------------
(***************************************************************************)
(* PulseMonitor proved for every fleet, any number of callers, checks and  *)
(* restarts of the timer, and any length of history.                       *)
(*                                                                         *)
(* IInv says what the properties rest on: the run in flight is the last    *)
(* that began and the only one being executed (OneCheck); what it has      *)
(* reported so far, and every run in the history, accounts for each target *)
(* (ReportsHold); the runs of the history, and the runs that tickets were  *)
(* opened about, are settled (RunsAreSettled, TicketsHold).                *)
(***************************************************************************)
EXTENDS PulseMonitor, TLAPS, SequenceTheorems

Reports == Seq(Seq(PulseHealth))
Work    == [state: {"checking", "settled"}, targets: Reports, probes: Seq(PulseHealth)]
Run     == [id: Nat, targets: Reports, status: {"healthy", "degraded", "critical"}]
Findings == (1..MaxRuns) \X DOMAIN fleet

Shape ==
    /\ fleet \in Fleets
    /\ timer \in BOOLEAN /\ starts \in 0..MaxStarts
    /\ intervals = IF timer THEN 1 ELSE 0
    /\ sequence \in 0..MaxRuns
    /\ inFlight \in {0, sequence}
    /\ work \in Seq(Work) /\ Len(work) = sequence
    /\ history \in Seq(Run) /\ Len(history) <= HistoryLimit
    /\ callers \in [Callers -> 0..sequence]
    /\ desk \in [Findings -> Nat]

\* The run in flight is the one that is checking, and the machine it is at is
\* the only one connected.
OneCheck ==
    /\ \A r \in DOMAIN work : Checking(r) <=> r = inFlight
    /\ \A s \in sessions : inFlight # 0 /\ s = [run |-> inFlight, target |-> Current(inFlight)]

\* What was seen of a probe of the t-th target, if anything, the policy allowed.
Allowed(t, p) ==
    /\ fleet[t].probes[p].step = Look
    /\ fleet[t].device \in {"managed", "unmanaged"}

SeenAllowed(t, report) ==
    \A p \in 1..Len(report) : report[p] # "unavailable" => Allowed(t, p)

\* One finding for each probe of the target.
Accounts(t, report) ==
    /\ Len(report) = Len(fleet[t].probes)
    /\ SeenAllowed(t, report)

\* What the run in flight has found so far, and what each run in the history did.
SoFar ==
    inFlight # 0 =>
       /\ Len(work[inFlight].targets) <= Len(fleet)
       /\ \A t \in 1..Len(work[inFlight].targets) : Accounts(t, work[inFlight].targets[t])
       /\ SeenAllowed(Current(inFlight), work[inFlight].probes)
       /\ Opened(inFlight) =>
             /\ Current(inFlight) <= Len(fleet)
             /\ Probed(inFlight) <= Len(TargetOf(inFlight).probes)
       /\ ~Opened(inFlight) => Probed(inFlight) = 0

Whole(run) ==
    /\ Len(run.targets) = Len(fleet)
    /\ \A t \in 1..Len(fleet) : Accounts(t, run.targets[t])
    /\ run.status = "healthy" =>
          \A t \in 1..Len(fleet) : HealthsOf(run.targets[t]) = {"healthy"}

ReportsHold == SoFar /\ \A i \in 1..Len(history) : Whole(history[i])

Settled(r) == r \in 1..sequence /\ r # inFlight

RunsAreSettled ==
    /\ \A i \in 1..Len(history) : Settled(history[i].id)
    /\ \A i, j \in 1..Len(history) : i < j => history[i].id > history[j].id

TicketsHold ==
    \A finding \in Findings :
       /\ desk[finding] <= 1
       /\ desk[finding] = 1 => Settled(finding[1])

IInv == Shape /\ OneCheck /\ ReportsHold /\ RunsAreSettled /\ TicketsHold /\ OneTicketPerFinding

-----------------------------------------------------------------------------
(***************************************************************************)
(* What the steps below need of evaluate(), worstHealth(), statusFor() and *)
(* the bounded history.                                                    *)
(***************************************************************************)
\* The policy clears a probe of nothing but a look, on a machine that
\* consented (engine.ts:126-304, monitor.ts:313-321).
LEMMA OnlyLooksAreCleared ==
    ASSUME NEW s \in ProbeStep, NEW d \in Posture, Evaluate(s, d).decision = "allow"
    PROVE  s = Look /\ d \in {"managed", "unmanaged"}
<1>1. s \in PlanStep /\ s.kind = "command" /\ ~s.mutating /\ ~s.rollback
  BY DEF ProbeStep
<1>2. s.hits = {} /\ d \notin {"none", "unconsented"}
  BY <1>1 DEF Evaluate, Verdict
<1>3. EvaluateOnDevice(s).decision = "allow"
  BY <1>1, <1>2 DEF Evaluate, Verdict
<1>4. ~s.empty /\ s.rule = "none" /\ ~s.unknown /\ ~s.dynamic
  BY <1>1, <1>3 DEF EvaluateOnDevice, EvaluateCommand, Verdict
<1>5. s = Look
  BY <1>1, <1>2, <1>4 DEF PlanStep, Look
<1> QED BY <1>2, <1>5 DEF Posture

\* The worst of some findings is one of them and ranks above them all; of
\* none it is "unavailable" (monitor.ts:52-57).
LEMMA WorstIsWorst ==
    ASSUME NEW h \in Seq(PulseHealth)
    PROVE  /\ worstHealth(h) \in PulseHealth
           /\ worstHealth(h) = "healthy" => HealthsOf(h) = {"healthy"}
<1>1. CASE h = <<>>
  BY <1>1 DEF worstHealth, PulseHealth
<1>2. CASE h # <<>>
  <2> DEFINE found == HealthsOf(h)
             Worst(x) == \A g \in found : HEALTH_RANK[g] <= HEALTH_RANK[x]
  <2>1. found \subseteq PulseHealth /\ found # {}
    <3>1. DOMAIN h = 1..Len(h) /\ Len(h) \in Nat \ {0}
      BY <1>2, EmptySeq, LenProperties
    <3>2. 1 \in DOMAIN h
      BY <3>1
    <3> QED BY <3>1, <3>2, ElementOfSeq DEF HealthsOf
  <2>2. \E x \in found : Worst(x)
    <3>1. CASE "critical" \in found
      BY <2>1, <3>1 DEF PulseHealth, HEALTH_RANK
    <3>2. CASE "critical" \notin found /\ "unavailable" \in found
      BY <2>1, <3>2 DEF PulseHealth, HEALTH_RANK
    <3>3. CASE found \subseteq {"healthy", "warning"} /\ "warning" \in found
      BY <3>3 DEF HEALTH_RANK
    <3>4. CASE found = {"healthy"}
      BY <3>4 DEF HEALTH_RANK
    <3> QED BY <2>1, <3>1, <3>2, <3>3, <3>4 DEF PulseHealth
  <2> DEFINE worst == CHOOSE x \in found : Worst(x)
  <2>3. worst \in found /\ Worst(worst)
    BY <2>2
  <2>4. worstHealth(h) = worst
    BY <1>2 DEF worstHealth
  <2> HIDE DEF worst
  <2>5. ASSUME worst = "healthy" PROVE found = {"healthy"}
    <3>1. \A g \in found : HEALTH_RANK[g] <= 0
      BY <2>3, <2>5 DEF HEALTH_RANK
    <3>2. \A g \in PulseHealth \ {"healthy"} : ~(HEALTH_RANK[g] <= 0)
      BY DEF PulseHealth, HEALTH_RANK
    <3> QED BY <2>1, <2>3, <2>5, <3>1, <3>2
  <2> QED BY <2>1, <2>3, <2>4, <2>5
<1> QED BY <1>1, <1>2

\* A fleet is called healthy when every finding is (monitor.ts:59-82).
LEMMA HealthyFleetIs ==
    ASSUME NEW targets \in Reports
    PROVE  /\ statusFor(targets) \in {"healthy", "degraded", "critical"}
           /\ statusFor(targets) = "healthy" =>
                 \A t \in 1..Len(targets) : HealthsOf(targets[t]) = {"healthy"}
<1>1. statusFor(targets) \in {"healthy", "degraded", "critical"}
  BY DEF statusFor
<1>2. ASSUME statusFor(targets) = "healthy", NEW t \in 1..Len(targets)
      PROVE  HealthsOf(targets[t]) = {"healthy"}
  <2>1. targets[t] \in Seq(PulseHealth) /\ t \in DOMAIN targets
    BY ElementOfSeq, LenProperties DEF Reports
  <2> DEFINE worst == {worstHealth(targets[u]) : u \in DOMAIN targets}
  <2>2. "critical" \notin worst /\ worst \cap {"warning", "unavailable"} = {}
    BY <1>2 DEF statusFor
  <2>3. worstHealth(targets[t]) \in worst
    BY <2>1
  <2> QED BY <2>1, <2>2, <2>3, WorstIsWorst DEF PulseHealth
<1> QED BY <1>1, <1>2

Newest(x, s, n) == FirstOf(<<x>> \o s, n)

\* The bounded history begins with the run that was added to it; those that
\* follow are the ones before it, in their order (monitor.ts:209-210).
LEMMA FirstOfFacts ==
    ASSUME NEW S, NEW x \in S, NEW s \in Seq(S), NEW n \in Nat \ {0},
           NEW h, h = Newest(x, s, n)
    PROVE  /\ h \in Seq(S) /\ Len(h) <= n /\ Len(h) \in 1..(Len(s) + 1)
           /\ h[1] = x
           /\ \A i \in 2..Len(h) : i - 1 \in 1..Len(s) /\ h[i] = s[i - 1]
<1> DEFINE whole == <<x>> \o s
           m == IF Len(whole) > n THEN n ELSE Len(whole)
<1>0. h = SubSeq(whole, 1, m)
  BY DEF Newest, FirstOf
<1>1. <<x>> \in Seq(S) /\ Len(<<x>>) = 1 /\ <<x>>[1] = x
  OBVIOUS
<1>2. Len(s) \in Nat
  BY LenProperties
<1>3. /\ whole \in Seq(S) /\ Len(whole) = Len(s) + 1
      /\ \A i \in 1..(Len(s) + 1) : whole[i] = IF i <= 1 THEN <<x>>[i] ELSE s[i - 1]
  <2>1. /\ whole \in Seq(S) /\ Len(whole) = 1 + Len(s)
        /\ \A i \in 1..(1 + Len(s)) : whole[i] = IF i <= 1 THEN <<x>>[i] ELSE s[i - 1]
    BY <1>1, ConcatProperties
  <2> HIDE DEF whole
  <2> QED BY <1>2, <2>1
<1> HIDE DEF whole
<1>4. m \in 1..(Len(s) + 1) /\ m <= n
  BY <1>2, <1>3
<1> HIDE DEF m
<1>5. \A i \in 1..m : whole[i] \in S
  BY <1>2, <1>3, <1>4, ElementOfSeq
<1>6. /\ h \in Seq(S) /\ Len(h) = m
      /\ \A i \in 1..m : h[i] = whole[i]
  <2>1. /\ h \in Seq(S) /\ Len(h) = (IF 1 <= m THEN m - 1 + 1 ELSE 0)
        /\ \A i \in 1..(m - 1 + 1) : h[i] = whole[1 + i - 1]
    BY <1>0, <1>4, <1>5, SubSeqProperties
  <2>2. m \in Int /\ 1 <= m
    BY <1>2, <1>4
  <2>3. m - 1 + 1 = m /\ \A i \in 1..m : 1 + i - 1 = i
    BY <2>2
  <2> QED BY <2>1, <2>2, <2>3
<1>7. h[1] = x /\ \A i \in 2..Len(h) : i - 1 \in 1..Len(s) /\ h[i] = s[i - 1]
  BY <1>1, <1>2, <1>3, <1>4, <1>6
<1> QED BY <1>4, <1>6, <1>7

\* A run is found in a history by its id: ids only fall.
LEMMA FoundById ==
    ASSUME NEW h \in Seq(Run), NEW k \in 1..Len(h),
           \A i, j \in 1..Len(h) : i < j => h[i].id > h[j].id
    PROVE  (CHOOSE i \in DOMAIN h : h[i].id = h[k].id) = k
<1> DEFINE Is(i) == h[i].id = h[k].id
           c == CHOOSE i \in DOMAIN h : Is(i)
<1>1. DOMAIN h = 1..Len(h) /\ Len(h) \in Nat
  BY LenProperties
<1>2. c \in 1..Len(h) /\ h[c].id = h[k].id
  BY <1>1
<1> HIDE DEF c
<1>3. h[c].id \in Nat /\ h[k].id \in Nat
  <2>1. h[c] \in Run /\ h[k] \in Run
    BY <1>2, ElementOfSeq
  <2> QED BY <2>1 DEF Run
<1>4. ~(c < k) /\ ~(k < c)
  BY <1>2, <1>3
<1>5. c = k
  BY <1>1, <1>2, <1>4
<1> QED BY <1>5 DEF c

-----------------------------------------------------------------------------
(***************************************************************************)
(* The fleet, and a step of the run in flight.                             *)
(***************************************************************************)
\* Every target of the fleet has a posture and a list of probes (types.ts:32-49).
LEMMA FleetTyped ==
    ASSUME Shape
    PROVE  /\ Len(fleet) \in Nat \ {0} /\ DOMAIN fleet = 1..Len(fleet)
           /\ \A t \in 1..Len(fleet) :
                 /\ fleet[t].device \in Posture
                 /\ Len(fleet[t].probes) \in Nat
                 /\ DOMAIN fleet[t].probes = 1..Len(fleet[t].probes)
                 /\ \A p \in 1..Len(fleet[t].probes) :
                       /\ fleet[t].probes[p].step \in ProbeStep
                       /\ fleet[t].probes[p].finds \subseteq PulseHealth \cup {"throws"}
<1>1. fleet \in Seq(PulseTarget) /\ Len(fleet) > 0
  BY PulseAssumption DEF Shape
<1>2. Len(fleet) \in Nat \ {0} /\ DOMAIN fleet = 1..Len(fleet)
  <2>1. Len(fleet) \in Nat /\ DOMAIN fleet = 1..Len(fleet)
    BY <1>1, LenProperties
  <2> QED BY <1>1, <2>1
<1>3. ASSUME NEW t \in 1..Len(fleet)
      PROVE  /\ fleet[t].device \in Posture
             /\ Len(fleet[t].probes) \in Nat
             /\ DOMAIN fleet[t].probes = 1..Len(fleet[t].probes)
             /\ \A p \in 1..Len(fleet[t].probes) :
                   /\ fleet[t].probes[p].step \in ProbeStep
                   /\ fleet[t].probes[p].finds \subseteq PulseHealth \cup {"throws"}
  <2>1. fleet[t] \in PulseTarget
    BY <1>1, ElementOfSeq
  <2>2. fleet[t].device \in Posture /\ fleet[t].probes \in Seq(PulseProbe)
    BY <2>1 DEF PulseTarget
  <2>3. /\ Len(fleet[t].probes) \in Nat
        /\ DOMAIN fleet[t].probes = 1..Len(fleet[t].probes)
    BY <2>2, LenProperties
  <2>4. ASSUME NEW p \in 1..Len(fleet[t].probes)
        PROVE  /\ fleet[t].probes[p].step \in ProbeStep
               /\ fleet[t].probes[p].finds \subseteq PulseHealth \cup {"throws"}
    <3>1. fleet[t].probes[p] \in PulseProbe
      BY <2>2, ElementOfSeq
    <3> QED BY <3>1 DEF PulseProbe
  <2> QED BY <2>2, <2>3, <2>4
<1> QED BY <1>2, <1>3

\* The account of a target is one of the fleet, which never changes.
LEMMA SameFleet ==
    ASSUME fleet' = fleet, NEW t, NEW report
    PROVE  /\ SeenAllowed(t, report)' <=> SeenAllowed(t, report)
           /\ Accounts(t, report)' <=> Accounts(t, report)
BY DEF Accounts, SeenAllowed, Allowed

\* A history that stands still accounts for what it did.
LEMMA HistoryStands ==
    ASSUME IInv, UNCHANGED <<fleet, history>>, SoFar'
    PROVE  ReportsHold'
<1>1. ASSUME NEW i \in 1..Len(history) PROVE Whole(history[i])'
  <2>1. PICK run : run = history[i]
    OBVIOUS
  <2>2. Whole(run)
    BY <2>1 DEF IInv, ReportsHold
  <2>3. Whole(run)' /\ history' = history
    BY <2>2, SameFleet DEF Whole
  <2> QED BY <2>1, <2>3
<1> QED BY <1>1 DEF ReportsHold

\* Tickets and a history that stand still are about the same findings.
LEMMA FindingsStand ==
    ASSUME IInv, UNCHANGED <<history, desk>>
    PROVE  OneTicketPerFinding'
<1> SUFFICES ASSUME NEW finding \in DOMAIN desk
             PROVE  /\ desk[finding] <= 1
                    /\ desk[finding] = 1 /\ InHistory(finding[1])' =>
                          HealthsOf(RunOf(finding[1])'.targets[finding[2]]) # {"healthy"}
  BY DEF OneTicketPerFinding
<1>1. /\ InHistory(finding[1])' <=> InHistory(finding[1])
      /\ RunOf(finding[1])' = RunOf(finding[1])
  BY DEF InHistory, RunOf
<1> QED BY <1>1 DEF IInv, OneTicketPerFinding

\* The run that is executed is the last that began, and the one in flight.
LEMMA InHand ==
    ASSUME Shape, OneCheck, NEW r \in DOMAIN work, Checking(r)
    PROVE  /\ r = inFlight /\ inFlight = sequence /\ inFlight # 0
           /\ sequence \in Nat /\ DOMAIN work = 1..sequence
           /\ work[r] \in Work
           /\ work[r].targets \in Reports /\ work[r].probes \in Seq(PulseHealth)
           /\ Len(work[r].targets) \in Nat /\ Len(work[r].probes) \in Nat
<1>1. DOMAIN work = 1..sequence /\ sequence \in Nat
  BY PulseAssumption, LenProperties DEF Shape
<1>2. r = inFlight /\ inFlight = sequence /\ inFlight # 0
  BY <1>1 DEF Shape, OneCheck
<1>3. work[r] \in Work
  BY <1>1, ElementOfSeq DEF Shape
<1>4. work[r].targets \in Reports /\ work[r].probes \in Seq(PulseHealth)
  BY <1>3 DEF Work
<1>5. Len(work[r].targets) \in Nat /\ Len(work[r].probes) \in Nat
  BY <1>4, LenProperties DEF Reports
<1> QED BY <1>1, <1>2, <1>3, <1>4, <1>5

\* What a step of one run leaves of the others.
LEMMA WorkMoves ==
    ASSUME Shape, NEW r \in DOMAIN work, NEW w \in Work, work' = [work EXCEPT ![r] = w]
    PROVE  /\ work' \in Seq(Work) /\ Len(work') = sequence
           /\ DOMAIN work' = DOMAIN work
           /\ work'[r] = w
           /\ \A q \in DOMAIN work : q # r => work'[q] = work[q]
<1>1. DOMAIN work = 1..Len(work)
  BY LenProperties DEF Shape
<1>2. /\ [work EXCEPT ![r] = w] \in Seq(Work)
      /\ Len([work EXCEPT ![r] = w]) = Len(work)
  BY <1>1, ExceptSeq DEF Shape
<1> QED BY <1>1, <1>2 DEF Shape

\* While a run goes on, the history, the tickets and the timer stand, and what
\* is left to show is where it is connected and what it has found.
LEMMA GoingOn ==
    ASSUME IInv, NEW r \in DOMAIN work, Checking(r),
           NEW w \in Work, w.state = "checking", work' = [work EXCEPT ![r] = w],
           UNCHANGED <<schedVars, inFlight, sequence, history, lastError, callers, desk>>,
           \A s \in sessions' : s = [run |-> r, target |-> Len(w.targets) + 1],
           SoFar'
    PROVE  IInv'
<1>1. /\ r = inFlight /\ inFlight # 0 /\ DOMAIN work' = DOMAIN work
      /\ work' \in Seq(Work) /\ Len(work') = sequence
      /\ work'[r] = w
      /\ \A q \in DOMAIN work : q # r => work'[q] = work[q]
  BY InHand, WorkMoves DEF IInv
<1>2. Shape'
  BY <1>1 DEF IInv, Shape, schedVars, Findings
<1>3. OneCheck'
  <2>1. \A q \in DOMAIN work : Checking(q)' <=> q = inFlight
    BY <1>1 DEF IInv, OneCheck, Checking
  <2> QED BY <1>1, <2>1 DEF OneCheck, Current
<1>4. ReportsHold'
  BY HistoryStands DEF schedVars
<1>5. RunsAreSettled' /\ TicketsHold'
  BY DEF IInv, RunsAreSettled, TicketsHold, Settled, Findings, schedVars
<1>6. OneTicketPerFinding'
  BY FindingsStand
<1> QED BY <1>2, <1>3, <1>4, <1>5, <1>6 DEF IInv

\* A machine is connected, or its probes are reported unavailable.
LEMMA OpenKeeps ==
    ASSUME IInv, NEW r \in DOMAIN work, OpenSession(r)
    PROVE  IInv'
<1>1. /\ r = inFlight /\ inFlight = sequence /\ inFlight # 0 /\ sequence \in Nat
      /\ work[r] \in Work
      /\ work[r].targets \in Reports /\ work[r].probes \in Seq(PulseHealth)
      /\ Len(work[r].targets) \in Nat /\ Len(work[r].probes) \in Nat
  BY InHand DEF IInv, OpenSession
<1>2. Checking(r) /\ Current(r) <= Len(fleet) /\ ~Opened(r)
  BY DEF OpenSession
<1>3. Probed(r) = 0 /\ sessions = {}
  <2>1. Probed(r) = 0
    BY <1>1, <1>2 DEF IInv, ReportsHold, SoFar
  <2>2. \A s \in sessions : s = [run |-> r, target |-> Current(r)]
    BY <1>1 DEF IInv, OneCheck
  <2> QED BY <1>2, <2>1, <2>2 DEF Opened
<1>4. Len(fleet) \in Nat /\ Current(r) \in 1..Len(fleet)
  BY <1>1, <1>2, FleetTyped DEF IInv, Current
<1>5. UNCHANGED <<schedVars, inFlight, sequence, history, lastError, callers, desk>>
  BY DEF OpenSession
<1>6. CASE /\ sessions' = sessions \cup {[run |-> r, target |-> Current(r)]}
           /\ UNCHANGED work
  <2>1. work' = [work EXCEPT ![r] = work[r]]
    BY <1>1, <1>6, LenProperties DEF IInv, Shape
  <2>2. \A s \in sessions' : s = [run |-> r, target |-> Len(work[r].targets) + 1]
    BY <1>3, <1>6 DEF Current
  <2>3. SoFar'
    <3>1. Opened(r)' /\ Probed(r)' = 0 /\ Current(r)' = Current(r) /\ TargetOf(r)' = TargetOf(r)
      BY <1>3, <1>5, <1>6 DEF Opened, Probed, Current, TargetOf, schedVars
    <3>2. Len(TargetOf(r).probes) \in Nat
      BY <1>4, FleetTyped DEF IInv, TargetOf
    <3>3. inFlight' = r /\ work' = work /\ fleet' = fleet
      BY <1>1, <1>5, <1>6 DEF schedVars
    <3>4. /\ Len(work[r].targets) <= Len(fleet)
          /\ \A t \in 1..Len(work[r].targets) : Accounts(t, work[r].targets[t])
          /\ SeenAllowed(Current(r), work[r].probes)
      BY <1>1 DEF IInv, ReportsHold, SoFar
    <3>5. /\ \A t \in 1..Len(work[r].targets) : Accounts(t, work[r].targets[t])'
          /\ SeenAllowed(Current(r), work[r].probes)'
      BY <3>3, <3>4 DEF Accounts, SeenAllowed, Allowed, Current
    <3>6. Probed(r)' <= Len(TargetOf(r)'.probes)
      BY <3>1, <3>2
    <3> QED BY <1>2, <3>1, <3>3, <3>4, <3>5, <3>6 DEF SoFar
  <2> QED BY <1>1, <1>2, <1>5, <2>1, <2>2, <2>3, GoingOn DEF Checking
<1>7. CASE /\ work' = [work EXCEPT ![r].targets =
                         Append(@, [p \in DOMAIN TargetOf(r).probes |-> "unavailable"])]
           /\ UNCHANGED sessions
  <2> PICK report : report = [p \in DOMAIN TargetOf(r).probes |-> "unavailable"]
    OBVIOUS
  <2> PICK w : w = [work[r] EXCEPT !.targets = Append(@, report)]
    OBVIOUS
  <2>1. /\ report \in Seq(PulseHealth) /\ Len(report) = Len(TargetOf(r).probes)
        /\ \A p \in 1..Len(report) : report[p] = "unavailable"
    <3>1. /\ DOMAIN TargetOf(r).probes = 1..Len(TargetOf(r).probes)
          /\ Len(TargetOf(r).probes) \in Nat
      BY <1>4, FleetTyped DEF IInv, TargetOf
    <3> QED BY <3>1 DEF PulseHealth
  <2>2. Accounts(Current(r), report)
    BY <2>1 DEF Accounts, SeenAllowed, TargetOf
  <2>3. /\ w \in Work /\ w.state = "checking" /\ work' = [work EXCEPT ![r] = w]
        /\ w.targets = Append(work[r].targets, report) /\ w.probes = work[r].probes
    <3>1. Append(work[r].targets, report) \in Reports
      BY <1>1, <2>1, AppendProperties DEF Reports
    <3> QED BY <1>1, <1>2, <1>7, <3>1 DEF Work, Checking
  <2>4. /\ Len(w.targets) = Current(r)
        /\ w.targets[Current(r)] = report
        /\ \A t \in 1..Len(work[r].targets) : w.targets[t] = work[r].targets[t]
    BY <1>1, <2>1, <2>3, AppendProperties DEF Reports, Current
  <2>5. SoFar'
    <3>1. work'[r] = w /\ inFlight' = r /\ sessions' = {} /\ fleet' = fleet
      BY <1>1, <1>3, <1>5, <1>7, <2>3, WorkMoves DEF IInv, schedVars
    <3>2. ~Opened(r)' /\ Probed(r)' = 0 /\ Current(r)' = Current(r) + 1
      <4>1. Current(r)' = Len(w.targets) + 1
        BY <3>1 DEF Current
      <4>2. ~Opened(r)'
        BY <3>1 DEF Opened
      <4>3. Probed(r)' = Probed(r)
        BY <2>3, <3>1 DEF Probed
      <4> QED BY <1>3, <2>4, <4>1, <4>2, <4>3
    <3>3. \A t \in 1..Len(work[r].targets) : Accounts(t, work[r].targets[t])
      BY <1>1 DEF IInv, ReportsHold, SoFar
    <3>4. \A t \in 1..Len(w.targets) : Accounts(t, w.targets[t])
      <4>1. 1..Len(w.targets) = 1..Len(work[r].targets) \cup {Current(r)}
        BY <1>1, <2>4 DEF Current
      <4> QED BY <2>2, <2>4, <3>3, <4>1
    <3>5. \A t \in 1..Len(w.targets) : Accounts(t, w.targets[t])'
      BY <3>1, <3>4, SameFleet
    <3>6. SeenAllowed(Current(r), work[r].probes)'
      BY <1>1, <1>3, <2>3, <3>1 DEF SeenAllowed, Probed
    <3>7. Len(w.targets) <= Len(fleet)
      BY <1>2, <2>4
    <3> QED BY <3>1, <3>2, <3>5, <3>6, <3>7 DEF SoFar
  <2>6. \A s \in sessions' : s = [run |-> r, target |-> Len(w.targets) + 1]
    BY <1>3, <1>7
  <2> QED BY <1>2, <1>5, <2>3, <2>5, <2>6, GoingOn
<1> QED BY <1>6, <1>7 DEF OpenSession

\* What is found of a probe: it was read after the policy cleared it, or it is
\* unavailable.
LEMMA Found ==
    ASSUME IInv, NEW r \in DOMAIN work, CheckProbe(r)
    PROVE  \E found \in PulseHealth :
              /\ work' = [work EXCEPT ![r].probes = Append(@, found)]
              /\ found # "unavailable" => Allowed(Current(r), Probed(r) + 1)
<1> DEFINE p == Probed(r) + 1
           probe == TargetOf(r).probes[p]
<1>1. r = inFlight /\ inFlight # 0 /\ Len(work[r].targets) \in Nat /\ Probed(r) \in Nat
  BY InHand DEF IInv, CheckProbe, Probed
<1>2. Current(r) \in 1..Len(fleet) /\ p \in 1..Len(TargetOf(r).probes)
  <2>1. Current(r) <= Len(fleet) /\ Probed(r) < Len(TargetOf(r).probes)
    BY <1>1 DEF IInv, ReportsHold, SoFar, CheckProbe
  <2>2. Len(fleet) \in Nat
    BY FleetTyped DEF IInv
  <2>3. Current(r) \in 1..Len(fleet)
    BY <1>1, <2>1, <2>2 DEF Current
  <2>4. Len(TargetOf(r).probes) \in Nat
    BY <2>3, FleetTyped DEF IInv, TargetOf
  <2> QED BY <1>1, <2>1, <2>3, <2>4
<1>3. /\ probe.step \in ProbeStep /\ probe.finds \subseteq PulseHealth \cup {"throws"}
      /\ TargetOf(r).device \in Posture
  BY <1>2, FleetTyped DEF IInv, TargetOf
<1>4. CASE Runs(probe, TargetOf(r).device)
  <2>1. PICK finding \in probe.finds \cup {"unavailable"} : RecordProbe(r, finding)
    BY <1>4 DEF CheckProbe
  <2>2. Allowed(Current(r), p)
    BY <1>3, <1>4, OnlyLooksAreCleared DEF Runs, Allowed, TargetOf
  <2> QED BY <1>3, <2>1, <2>2 DEF RecordProbe, PulseHealth
<1>5. CASE ~Runs(probe, TargetOf(r).device)
  BY <1>5 DEF CheckProbe, RecordProbe, PulseHealth
<1> QED BY <1>4, <1>5

\* One more probe of the machine is accounted for.
LEMMA CheckKeeps ==
    ASSUME IInv, NEW r \in DOMAIN work, CheckProbe(r)
    PROVE  IInv'
<1>1. /\ r = inFlight /\ inFlight # 0
      /\ work[r] \in Work /\ work[r].probes \in Seq(PulseHealth)
      /\ Len(work[r].targets) \in Nat /\ Len(work[r].probes) \in Nat
  BY InHand DEF IInv, CheckProbe
<1>2. Checking(r) /\ Opened(r) /\ Probed(r) < Len(TargetOf(r).probes)
  BY DEF CheckProbe
<1>3. PICK found \in PulseHealth :
         /\ work' = [work EXCEPT ![r].probes = Append(@, found)]
         /\ found # "unavailable" => Allowed(Current(r), Probed(r) + 1)
  BY Found
<1>4. UNCHANGED <<schedVars, inFlight, sequence, sessions, history, lastError, callers, desk>>
  BY DEF CheckProbe
<1> PICK probes : probes = Append(work[r].probes, found)
  OBVIOUS
<1> PICK w : w = [work[r] EXCEPT !.probes = probes]
  OBVIOUS
<1>5. /\ probes \in Seq(PulseHealth) /\ Len(probes) = Probed(r) + 1
      /\ \A p \in 1..Probed(r) : probes[p] = work[r].probes[p]
      /\ probes[Probed(r) + 1] = found
  BY <1>1, <1>3, AppendProperties DEF Probed
<1>6. /\ w \in Work /\ w.state = "checking" /\ work' = [work EXCEPT ![r] = w]
      /\ w.targets = work[r].targets /\ w.probes = probes
  BY <1>1, <1>2, <1>3, <1>5 DEF Work, Checking
<1>7. \A s \in sessions' : s = [run |-> r, target |-> Len(w.targets) + 1]
  BY <1>1, <1>4, <1>6 DEF IInv, OneCheck, Current
<1>8. SoFar'
  <2>1. work'[r] = w /\ inFlight' = r /\ sessions' = sessions /\ fleet' = fleet
    BY <1>1, <1>4, <1>6, WorkMoves DEF IInv, schedVars
  <2>2. PICK c : c = Current(r)
    OBVIOUS
  <2>3. c = Current(r)' /\ Opened(r)' /\ Probed(r)' = Len(probes) /\ TargetOf(r)' = TargetOf(r)
    <3>1. c = Current(r)'
      BY <1>6, <2>1, <2>2 DEF Current
    <3>2. Probed(r)' = Len(probes)
      BY <1>6, <2>1 DEF Probed
    <3> QED BY <1>2, <2>1, <2>2, <3>1, <3>2 DEF Opened, TargetOf
  <2>4. /\ Len(work[r].targets) <= Len(fleet)
        /\ \A t \in 1..Len(work[r].targets) : Accounts(t, work[r].targets[t])
        /\ SeenAllowed(c, work[r].probes)
        /\ c <= Len(fleet)
    BY <1>1, <1>2, <2>2 DEF IInv, ReportsHold, SoFar
  <2>5. SeenAllowed(c, probes)
    <3>1. 1..Len(probes) = 1..Probed(r) \cup {Probed(r) + 1}
      BY <1>1, <1>5 DEF Probed
    <3>2. \A p \in 1..Probed(r) : probes[p] # "unavailable" => Allowed(c, p)
      BY <1>5, <2>4 DEF SeenAllowed, Probed
    <3> QED BY <1>3, <1>5, <2>2, <3>1, <3>2 DEF SeenAllowed
  <2>6. Len(probes) <= Len(TargetOf(r).probes)
    <3>1. Len(TargetOf(r).probes) \in Nat
      <4>1. c \in 1..Len(fleet)
        BY <1>1, <2>2, <2>4, FleetTyped DEF IInv, Current
      <4> QED BY <2>2, <4>1, FleetTyped DEF IInv, TargetOf
    <3>2. Probed(r) \in Nat
      BY <1>1 DEF Probed
    <3> QED BY <1>2, <1>5, <3>1, <3>2
  <2>7. \A t \in 1..Len(w.targets) : Accounts(t, w.targets[t])'
    BY <1>6, <2>1, <2>4, SameFleet
  <2>8. SeenAllowed(c, probes)'
    BY <2>1, <2>5, SameFleet
  <2> QED BY <1>6, <2>1, <2>3, <2>4, <2>6, <2>7, <2>8 DEF SoFar
<1> QED BY <1>2, <1>4, <1>6, <1>7, <1>8, GoingOn

\* The findings of a target move to the report.
LEMMA TargetReported ==
    ASSUME NEW w \in Work, NEW v \in Work, v.state = w.state
    PROVE  [w EXCEPT !.targets = v.targets, !.probes = v.probes] = v
BY DEF Work

\* The machine is let go of and its target is reported whole.
LEMMA EndKeeps ==
    ASSUME IInv, NEW r \in DOMAIN work, EndSession(r)
    PROVE  IInv'
<1>1. /\ r = inFlight /\ inFlight # 0
      /\ work[r] \in Work
      /\ work[r].targets \in Reports /\ work[r].probes \in Seq(PulseHealth)
      /\ Len(work[r].targets) \in Nat /\ Len(work[r].probes) \in Nat
  BY InHand DEF IInv, EndSession
<1>2. Checking(r) /\ Opened(r) /\ Probed(r) >= Len(TargetOf(r).probes)
  BY DEF EndSession
<1>3. UNCHANGED <<schedVars, inFlight, sequence, history, lastError, callers, desk>>
  BY DEF EndSession
<1> PICK c : c = Current(r)
  OBVIOUS
<1> PICK targets : targets = Append(work[r].targets, work[r].probes)
  OBVIOUS
<1>0. PICK w : w = [state |-> "checking", targets |-> targets, probes |-> <<>>]
  OBVIOUS
<1>4. /\ targets \in Reports /\ Len(targets) = c
      /\ \A t \in 1..Len(work[r].targets) : targets[t] = work[r].targets[t]
      /\ targets[c] = work[r].probes
  BY <1>1, AppendProperties DEF Reports, Current
<1>5. /\ w \in Work /\ w.state = "checking" /\ work' = [work EXCEPT ![r] = w]
      /\ w.targets = targets /\ w.probes = <<>>
  <2>1. w \in Work /\ w.state = "checking" /\ w.targets = targets /\ w.probes = <<>>
    BY <1>0, <1>4 DEF Work
  <2>2. [work[r] EXCEPT !.targets = w.targets, !.probes = w.probes] = w
    <3>1. w.state = work[r].state
      BY <1>2, <2>1 DEF Checking
    <3> QED BY <1>1, <2>1, <3>1, TargetReported
  <2>3. work' = [work EXCEPT ![r].targets = w.targets, ![r].probes = w.probes]
    BY <2>1 DEF EndSession
  <2>4. work' = [work EXCEPT ![r] = w]
    BY <2>2, <2>3
  <2> QED BY <2>1, <2>4
<1>6. sessions' = {}
  <2>1. sessions' = sessions \ {[run |-> r, target |-> c]}
    BY DEF EndSession
  <2>2. \A s \in sessions : s = [run |-> r, target |-> c]
    BY <1>1 DEF IInv, OneCheck
  <2> QED BY <2>1, <2>2
<1>7. /\ c <= Len(fleet) /\ Probed(r) <= Len(TargetOf(r).probes)
      /\ \A t \in 1..Len(work[r].targets) : Accounts(t, work[r].targets[t])
      /\ SeenAllowed(c, work[r].probes)
  BY <1>1, <1>2 DEF IInv, ReportsHold, SoFar
<1>8. Accounts(c, work[r].probes)
  <2>1. c \in 1..Len(fleet)
    BY <1>1, <1>7, FleetTyped DEF IInv, Current
  <2>2. Len(TargetOf(r).probes) \in Nat /\ TargetOf(r) = fleet[c]
    BY <2>1, FleetTyped DEF IInv, TargetOf
  <2>3. Probed(r) \in Nat
    BY <1>1 DEF Probed
  <2>4. Probed(r) = Len(TargetOf(r).probes)
    BY <1>2, <1>7, <2>2, <2>3
  <2> QED BY <1>7, <2>2, <2>4 DEF Accounts, Probed
<1>9. SoFar'
  <2>1. work'[r] = w /\ inFlight' = r /\ fleet' = fleet
    BY <1>1, <1>3, <1>5, WorkMoves DEF IInv, schedVars
  <2>2. ~Opened(r)' /\ Probed(r)' = 0
    BY <1>5, <1>6, <2>1 DEF Opened, Probed
  <2>3. \A t \in 1..Len(targets) : Accounts(t, targets[t])
    <3>1. 1..Len(targets) = 1..Len(work[r].targets) \cup {c}
      BY <1>1, <1>4 DEF Current
    <3> QED BY <1>4, <1>7, <1>8, <3>1
  <2>4. \A t \in 1..Len(targets) : Accounts(t, targets[t])'
    BY <2>1, <2>3, SameFleet
  <2>5. SeenAllowed(Current(r), work[r].probes)'
    <3>1. work'[r].probes = <<>> /\ Len(<<>>) = 0 /\ 1..0 = {}
      BY <1>5, <2>1
    <3> QED BY <3>1 DEF SeenAllowed
  <2> QED BY <1>4, <1>5, <1>7, <2>1, <2>2, <2>4, <2>5 DEF SoFar
<1>10. \A s \in sessions' : s = [run |-> r, target |-> Len(w.targets) + 1]
  BY <1>6
<1> QED BY <1>2, <1>3, <1>5, <1>9, <1>10, GoingOn

-----------------------------------------------------------------------------
(***************************************************************************)
(* A run ends, another begins, and what happens beside it.                 *)
(***************************************************************************)
\* When the run in flight is over nothing is, and nobody waits for anything
\* that was not begun.
LEMMA OverKeeps ==
    ASSUME IInv, NEW r \in DOMAIN work, Checking(r), Answer(r),
           work' = [work EXCEPT ![r] = [state |-> "settled", targets |-> <<>>, probes |-> <<>>]],
           inFlight' = 0, UNCHANGED <<schedVars, sequence, desk>>,
           sessions' = {},
           history' \in Seq(Run), Len(history') <= HistoryLimit
    PROVE  /\ Shape' /\ OneCheck' /\ SoFar' /\ TicketsHold'
           /\ \A q \in 1..sequence : Settled(q)'
<1>1. /\ r = inFlight /\ inFlight # 0 /\ sequence \in Nat /\ DOMAIN work = 1..sequence
      /\ work[r] \in Work
  BY InHand DEF IInv
<1>2. PICK w : w = [state |-> "settled", targets |-> <<>>, probes |-> <<>>]
  OBVIOUS
<1>3. w \in Work /\ w.state = "settled"
  <2>1. <<>> \in Reports /\ <<>> \in Seq(PulseHealth)
    BY DEF Reports
  <2> QED BY <1>2, <2>1 DEF Work
<1>4. work' = [work EXCEPT ![r] = w]
  BY <1>2
<1>5. /\ work' \in Seq(Work) /\ Len(work') = sequence /\ DOMAIN work' = DOMAIN work
      /\ work'[r] = w
      /\ \A q \in DOMAIN work : q # r => work'[q] = work[q]
  BY <1>3, <1>4, WorkMoves DEF IInv
<1>6. callers' \in [Callers -> 0..sequence]
  BY <1>1 DEF IInv, Shape, Answer
<1>7. Shape'
  BY <1>5, <1>6 DEF IInv, Shape, schedVars, Findings
<1>8. OneCheck'
  BY <1>1, <1>3, <1>5 DEF IInv, OneCheck, Checking
<1>9. TicketsHold' /\ \A q \in 1..sequence : Settled(q)'
  BY <1>1 DEF IInv, TicketsHold, Settled, Findings, schedVars
<1> QED BY <1>7, <1>8, <1>9 DEF SoFar

\* The last target is reported, and the run enters the history whole.
LEMMA CompleteKeeps ==
    ASSUME IInv, NEW r \in DOMAIN work, Complete(r)
    PROVE  IInv'
<1>1. /\ r = inFlight /\ inFlight = sequence /\ inFlight # 0 /\ sequence \in Nat
      /\ DOMAIN work = 1..sequence
      /\ work[r].targets \in Reports /\ Len(work[r].targets) \in Nat
  BY InHand DEF IInv, Complete
<1>2. Checking(r) /\ Current(r) > Len(fleet) /\ Answer(r)
  BY DEF Complete
<1>3. UNCHANGED <<schedVars, sequence, sessions, desk>> /\ inFlight' = 0
  BY DEF Complete, ClearInFlight
<1>4. PICK targets : targets = work[r].targets
  OBVIOUS
<1>5. PICK run : run = [id |-> r, targets |-> targets, status |-> statusFor(targets)]
  OBVIOUS
<1>6. Len(targets) = Len(fleet) /\ \A t \in 1..Len(fleet) : Accounts(t, targets[t])
  <2>1. /\ Len(targets) <= Len(fleet) /\ Len(fleet) \in Nat
        /\ \A t \in 1..Len(targets) : Accounts(t, targets[t])
    BY <1>1, <1>4, FleetTyped DEF IInv, ReportsHold, SoFar
  <2>2. Len(targets) = Len(fleet)
    BY <1>1, <1>2, <1>4, <2>1 DEF Current
  <2> QED BY <2>1, <2>2
<1>7. run \in Run /\ run.id = r /\ run.targets = targets /\ Whole(run)
  <2>1. /\ statusFor(targets) \in {"healthy", "degraded", "critical"}
        /\ statusFor(targets) = "healthy" =>
              \A t \in 1..Len(fleet) : HealthsOf(targets[t]) = {"healthy"}
    BY <1>1, <1>4, <1>6, HealthyFleetIs
  <2>2. run \in Run /\ run.id = r /\ run.targets = targets /\ run.status = statusFor(targets)
    BY <1>1, <1>4, <1>5, <2>1 DEF Run
  <2> QED BY <1>6, <2>1, <2>2 DEF Whole
<1>8. PICK h : h = history'
  OBVIOUS
<1>9. /\ h \in Seq(Run) /\ Len(h) <= HistoryLimit /\ Len(h) \in 1..(Len(history) + 1)
      /\ h[1] = run
      /\ \A i \in 2..Len(h) : i - 1 \in 1..Len(history) /\ h[i] = history[i - 1]
  <2>1. h = Newest(run, history, HistoryLimit)
    BY <1>4, <1>5, <1>8 DEF Complete, Newest
  <2>2. history \in Seq(Run) /\ HistoryLimit \in Nat \ {0}
    BY PulseAssumption DEF IInv, Shape
  <2> QED BY <1>7, <2>1, <2>2, FirstOfFacts
<1>10. sessions' = {}
  <2>1. Current(r) > Len(fleet) /\ Current(r) \in Nat /\ Len(fleet) \in Nat
    BY <1>1, <1>2, FleetTyped DEF IInv, Current
  <2>2. ~Opened(r)
    BY <1>1, <2>1 DEF IInv, ReportsHold, SoFar
  <2>3. \A s \in sessions : s = [run |-> r, target |-> Current(r)]
    BY <1>1 DEF IInv, OneCheck
  <2> QED BY <1>3, <2>2, <2>3 DEF Opened
<1>11. /\ Shape' /\ OneCheck' /\ SoFar' /\ TicketsHold'
       /\ \A q \in 1..sequence : Settled(q)'
  <2>1. work' = [work EXCEPT ![r] = [state |-> "settled", targets |-> <<>>, probes |-> <<>>]]
    BY DEF Complete
  <2> QED BY <1>2, <1>3, <1>8, <1>9, <1>10, <2>1, OverKeeps
<1>12. ReportsHold'
  <2>1. \A i \in 1..Len(h) : Whole(h[i])
    <3>1. \A i \in 1..Len(history) : Whole(history[i])
      BY DEF IInv, ReportsHold
    <3>2. \A i \in 1..Len(h) : i = 1 \/ i \in 2..Len(h)
      BY <1>9
    <3> QED BY <1>7, <1>9, <3>1, <3>2
  <2>2. \A i \in 1..Len(h) : Whole(h[i])'
    BY <1>3, <2>1, SameFleet DEF Whole, schedVars
  <2> QED BY <1>8, <1>11, <2>2 DEF ReportsHold
<1>13. /\ \A i \in 1..Len(h) : h[i].id \in 1..sequence
       /\ \A i, j \in 1..Len(h) : i < j => h[i].id > h[j].id
  <2>1. /\ \A i \in 1..Len(history) : history[i].id \in 1..sequence /\ history[i].id # r
        /\ \A i, j \in 1..Len(history) : i < j => history[i].id > history[j].id
    BY <1>1 DEF IInv, RunsAreSettled, Settled
  <2>2. h[1].id = r /\ r \in 1..sequence /\ r = sequence
    BY <1>1, <1>7, <1>9
  <2>3. ASSUME NEW i \in 2..Len(h)
        PROVE  h[i].id = history[i - 1].id /\ h[i].id \in 1..sequence /\ h[i].id # r
    BY <1>9, <2>1, <2>3
  <2>4. \A i \in 1..Len(h) : i = 1 \/ i \in 2..Len(h)
    BY <1>9
  <2>5. ASSUME NEW i \in 1..Len(h), NEW j \in 1..Len(h), i < j
        PROVE  h[i].id > h[j].id
    <3>1. j \in 2..Len(h)
      BY <2>4, <2>5
    <3>2. CASE i = 1
      BY <1>1, <2>2, <2>3, <3>1, <3>2
    <3>3. CASE i \in 2..Len(h)
      <4>1. i - 1 \in 1..Len(history) /\ j - 1 \in 1..Len(history) /\ i - 1 < j - 1
        BY <1>9, <2>5, <3>1, <3>3
      <4> QED BY <2>1, <2>3, <3>1, <3>3, <4>1
    <3> QED BY <2>4, <3>2, <3>3
  <2> QED BY <2>2, <2>3, <2>4, <2>5
<1>14. RunsAreSettled'
  BY <1>8, <1>11, <1>13 DEF RunsAreSettled
<1>15. OneTicketPerFinding'
  <2> SUFFICES ASSUME NEW finding \in Findings,
                      desk[finding] = 1, InHistory(finding[1])'
               PROVE  HealthsOf(RunOf(finding[1])'.targets[finding[2]]) # {"healthy"}
    <3>1. desk' = desk /\ DOMAIN desk = Findings /\ \A finding \in Findings : desk[finding] <= 1
      BY <1>3 DEF IInv, Shape, TicketsHold
    <3> QED BY <3>1 DEF OneTicketPerFinding
  <2>1. finding[1] # r
    BY <1>1 DEF IInv, TicketsHold, Settled
  <2>2. PICK i \in DOMAIN h : h[i].id = finding[1]
    BY <1>8 DEF InHistory
  <2>3. i \in 2..Len(h)
    <3>1. i \in 1..Len(h)
      BY <1>9, LenProperties
    <3>2. i # 1
      BY <1>7, <1>9, <2>1, <2>2
    <3> QED BY <1>9, <3>1, <3>2
  <2>4. i - 1 \in 1..Len(history) /\ history[i - 1] = h[i]
    BY <1>9, <2>3
  <2>5. RunOf(finding[1])' = h[i]
    <3>1. (CHOOSE k \in DOMAIN h : h[k].id = h[i].id) = i
      BY <1>9, <1>13, <2>3, FoundById
    <3> QED BY <1>8, <2>2, <3>1 DEF RunOf
  <2>6. RunOf(finding[1]) = history[i - 1] /\ InHistory(finding[1])
    <3>1. (CHOOSE k \in DOMAIN history : history[k].id = history[i - 1].id) = i - 1
      BY <2>4, FoundById DEF IInv, Shape, RunsAreSettled
    <3>2. DOMAIN history = 1..Len(history)
      BY LenProperties DEF IInv, Shape
    <3> QED BY <2>2, <2>4, <3>1, <3>2 DEF RunOf, InHistory
  <2>7. HealthsOf(RunOf(finding[1]).targets[finding[2]]) # {"healthy"}
    BY <2>6 DEF IInv, OneTicketPerFinding, Shape
  <2> QED BY <2>4, <2>5, <2>6, <2>7
<1> QED BY <1>11, <1>12, <1>14, <1>15 DEF IInv

\* What leaves the checks, the fleet and the desk alone leaves all of this.
LEMMA StandsStill ==
    ASSUME IInv, UNCHANGED <<fleet, checkVars, desk>>, Shape'
    PROVE  IInv'
<1>1. UNCHANGED <<fleet, inFlight, sequence, work, sessions, history, lastError, desk>>
  BY DEF checkVars
<1>2. OneCheck'
  BY <1>1 DEF IInv, OneCheck, Checking, Current
<1>3. SoFar'
  BY <1>1 DEF IInv, ReportsHold, SoFar, Accounts, SeenAllowed, Allowed, Current, Opened,
              Probed, TargetOf
<1>4. ReportsHold'
  BY <1>1, <1>3, HistoryStands
<1>5. RunsAreSettled' /\ TicketsHold'
  BY <1>1 DEF IInv, RunsAreSettled, TicketsHold, Settled, Findings
<1>6. OneTicketPerFinding'
  BY <1>1, FindingsStand
<1> QED BY <1>2, <1>4, <1>5, <1>6 DEF IInv

\* There was nowhere to keep the evidence.
LEMMA RejectKeeps ==
    ASSUME IInv, NEW r \in DOMAIN work, Reject(r)
    PROVE  IInv'
<1>1. /\ Checking(r) /\ Answer(r) /\ inFlight' = 0
      /\ work' = [work EXCEPT ![r] = [state |-> "settled", targets |-> <<>>, probes |-> <<>>]]
      /\ UNCHANGED <<schedVars, sequence, sessions, history, desk>>
  BY DEF Reject, ClearInFlight
<1>2. sessions' = {}
  <2>1. \A s \in sessions : s = [run |-> r, target |-> Current(r)]
    BY <1>1, InHand DEF IInv, OneCheck
  <2> QED BY <1>1, <2>1 DEF Reject, Opened
<1>3. history' \in Seq(Run) /\ Len(history') <= HistoryLimit
  BY <1>1 DEF IInv, Shape
<1>4. /\ Shape' /\ OneCheck' /\ SoFar' /\ TicketsHold'
      /\ \A q \in 1..sequence : Settled(q)'
  BY <1>1, <1>2, <1>3, OverKeeps
<1>5. ReportsHold'
  BY <1>1, <1>4, HistoryStands DEF schedVars
<1>6. RunsAreSettled'
  BY <1>1, <1>4 DEF IInv, RunsAreSettled, Settled
<1>7. OneTicketPerFinding'
  BY <1>1, FindingsStand
<1> QED BY <1>4, <1>5, <1>6, <1>7 DEF IInv

\* A check begins only when none is in flight, and is the newest.
LEMMA BeginKeeps ==
    ASSUME IInv, Begin, UNCHANGED <<schedVars, desk>>,
           callers' \in [Callers -> 0..sequence']
    PROVE  IInv'
<1>1. CASE inFlight # 0
  <2>1. UNCHANGED <<schedVars, checkVars, desk>>
    BY <1>1 DEF Begin, Joins
  <2>2. Shape'
    BY <2>1 DEF IInv, Shape, schedVars, checkVars, Findings
  <2> QED BY <2>1, <2>2, StandsStill DEF schedVars
<1>2. CASE inFlight = 0
  <2>1. PICK w : w = [state |-> "checking", targets |-> <<>>, probes |-> <<>>]
    OBVIOUS
  <2>2. w \in Work /\ w.state = "checking" /\ w.targets = <<>> /\ w.probes = <<>>
    <3>1. <<>> \in Reports /\ <<>> \in Seq(PulseHealth)
      BY DEF Reports
    <3> QED BY <2>1, <3>1 DEF Work
  <2>3. /\ sequence < MaxRuns /\ sequence' = sequence + 1 /\ inFlight' = sequence'
        /\ work' = Append(work, w)
        /\ UNCHANGED <<sessions, history>>
    BY <1>2, <2>1 DEF Begin, Joins
  <2>4. sequence \in Nat /\ MaxRuns \in Nat /\ DOMAIN work = 1..sequence
    BY PulseAssumption, LenProperties DEF IInv, Shape
  <2>5. sequence' \in 0..MaxRuns /\ sequence' # 0
    BY <2>3, <2>4
  <2>6. /\ work' \in Seq(Work) /\ Len(work') = sequence' /\ DOMAIN work' = 1..sequence'
        /\ work'[sequence'] = w
        /\ \A q \in 1..sequence : work'[q] = work[q]
    <3>1. /\ Append(work, w) \in Seq(Work) /\ Len(Append(work, w)) = Len(work) + 1
          /\ \A q \in 1..Len(work) : Append(work, w)[q] = work[q]
          /\ Append(work, w)[Len(work) + 1] = w
      BY <2>2, AppendProperties DEF IInv, Shape
    <3>2. DOMAIN Append(work, w) = 1..Len(Append(work, w))
      BY <3>1, LenProperties
    <3>3. Len(work) = sequence
      BY DEF IInv, Shape
    <3> QED BY <2>3, <3>1, <3>2, <3>3
  <2>7. Shape'
    BY <2>3, <2>5, <2>6 DEF IInv, Shape, schedVars, Findings
  <2>8. sessions' = {}
    BY <1>2, <2>3 DEF IInv, OneCheck
  <2>9. OneCheck'
    <3>1. \A q \in 1..sequence : work'[q].state # "checking"
      BY <1>2, <2>4, <2>6 DEF IInv, OneCheck, Checking
    <3>2. \A q \in 1..sequence' : q \in 1..sequence \/ q = sequence'
      BY <2>3, <2>4
    <3>3. sequence' \notin 1..sequence
      BY <2>3, <2>4
    <3>4. \A q \in 1..sequence' : Checking(q)' <=> q = inFlight'
      BY <2>2, <2>3, <2>6, <3>1, <3>2, <3>3 DEF Checking
    <3> QED BY <2>6, <2>8, <3>4 DEF OneCheck
  <2>10. SoFar'
    <3>1. work'[inFlight'].targets = <<>> /\ work'[inFlight'].probes = <<>>
      BY <2>2, <2>3, <2>6
    <3>2. Len(<<>>) = 0 /\ 1..0 = {}
      OBVIOUS
    <3>3. 0 <= Len(fleet')
      BY <2>7, FleetTyped DEF IInv, schedVars
    <3> QED BY <2>8, <3>1, <3>2, <3>3 DEF SoFar, SeenAllowed, Opened, Probed
  <2>11. ReportsHold'
    BY <2>3, <2>10, HistoryStands DEF schedVars
  <2>12. \A q \in 1..sequence : Settled(q)'
    BY <2>3, <2>4 DEF Settled
  <2>13. RunsAreSettled' /\ TicketsHold'
    BY <2>3, <2>12 DEF IInv, RunsAreSettled, TicketsHold, Settled, Findings, schedVars
  <2>14. OneTicketPerFinding'
    BY <2>3, FindingsStand
  <2> QED BY <2>7, <2>9, <2>11, <2>13, <2>14 DEF IInv
<1> QED BY <1>1, <1>2

\* Tickets that are opened about what a settled run found wrong leave the rest.
LEMMA DeskChanges ==
    ASSUME IInv, UNCHANGED <<schedVars, checkVars, callers>>,
           NEW finding \in Findings, NEW n \in {0, 1},
           desk' \in [Findings -> Nat],
           \A f \in Findings : desk'[f] = IF f = finding THEN n ELSE desk[f],
           n = 1 => /\ Settled(finding[1])
                    /\ HealthsOf(RunOf(finding[1]).targets[finding[2]]) # {"healthy"}
    PROVE  IInv'
<1>1. UNCHANGED <<fleet, timer, intervals, starts, inFlight, sequence, work, sessions, history>>
  BY DEF schedVars, checkVars
<1>2. Shape'
  BY <1>1 DEF IInv, Shape, Findings
<1>3. OneCheck'
  BY <1>1 DEF IInv, OneCheck, Checking, Current
<1>4. SoFar'
  BY <1>1 DEF IInv, ReportsHold, SoFar, Accounts, SeenAllowed, Allowed, Current, Opened,
              Probed, TargetOf
<1>5. ReportsHold'
  BY <1>1, <1>4, HistoryStands
<1>6. RunsAreSettled'
  BY <1>1 DEF IInv, RunsAreSettled, Settled
<1>7. DOMAIN desk = Findings /\ DOMAIN desk' = Findings /\ Findings' = Findings
  BY <1>1 DEF IInv, Shape, Findings
<1>8. TicketsHold'
  BY <1>1, <1>7 DEF IInv, TicketsHold, Settled
<1>9. OneTicketPerFinding'
  <2> SUFFICES ASSUME NEW f \in Findings, desk'[f] = 1, InHistory(f[1])'
               PROVE  HealthsOf(RunOf(f[1])'.targets[f[2]]) # {"healthy"}
    BY <1>7, <1>8 DEF OneTicketPerFinding, TicketsHold
  <2>1. InHistory(f[1]) /\ RunOf(f[1])' = RunOf(f[1])
    BY <1>1 DEF InHistory, RunOf
  <2>2. CASE f = finding
    BY <2>1, <2>2
  <2>3. CASE f # finding
    BY <1>7, <2>1, <2>3 DEF IInv, OneTicketPerFinding
  <2> QED BY <2>2, <2>3
<1> QED BY <1>2, <1>3, <1>5, <1>6, <1>8, <1>9 DEF IInv

\* Somebody asks for a check, or an interval elapses; both join the check in
\* flight or begin one.
LEMMA AskKeeps ==
    ASSUME IInv, (\E c \in Callers : RunNow(c)) \/ Tick
    PROVE  IInv'
<1>1. Begin /\ UNCHANGED <<schedVars, desk>>
  BY DEF RunNow, Tick
<1>2. sequence \in Nat /\ sequence' \in Nat /\ sequence <= sequence' /\ inFlight' \in 0..sequence'
  <2>1. sequence \in Nat /\ inFlight \in 0..sequence
    BY PulseAssumption DEF IInv, Shape
  <2>2. CASE inFlight # 0
    BY <1>1, <2>1, <2>2 DEF Begin, Joins, checkVars
  <2>3. CASE inFlight = 0
    BY <1>1, <2>1, <2>3 DEF Begin, Joins
  <2> QED BY <2>2, <2>3
<1>3. \A n \in 0..sequence : n \in 0..sequence'
  BY <1>2
<1>4. callers \in [Callers -> 0..sequence]
  BY DEF IInv, Shape
<1>5. callers' \in [Callers -> 0..sequence']
  <2>1. CASE Tick
    BY <1>3, <1>4, <2>1 DEF Tick
  <2>2. ASSUME NEW c \in Callers, RunNow(c)
        PROVE  callers' \in [Callers -> 0..sequence']
    BY <1>2, <1>3, <1>4, <2>2 DEF RunNow
  <2> QED BY <2>1, <2>2
<1> QED BY <1>1, <1>5, BeginKeeps

\* The timer is started again or stopped: one interval ticks, or none.
LEMMA TimerKeeps ==
    ASSUME IInv, Start \/ Stop
    PROVE  IInv'
<1>1. UNCHANGED <<fleet, checkVars, callers, desk>>
  BY DEF Start, Stop
<1>2. timer' \in BOOLEAN /\ intervals' = IF timer' THEN 1 ELSE 0
  <2>1. PICK ticking \in {0, 1} : ticking = (IF timer THEN 1 ELSE 0) /\ intervals = ticking
    BY DEF IInv, Shape
  <2>2. CASE Start
    <3>1. timer' = TRUE /\ intervals' = intervals + 1 - (IF timer THEN 1 ELSE 0)
      BY <2>2 DEF Start, StartInterval
    <3>2. intervals' = 1
      BY <2>1, <3>1
    <3> QED BY <3>1, <3>2
  <2>3. CASE Stop
    <3>1. timer' = FALSE /\ intervals' = intervals - (IF timer THEN 1 ELSE 0)
      BY <2>3 DEF Stop
    <3>2. intervals' = 0
      BY <2>1, <3>1
    <3> QED BY <3>1, <3>2
  <2> QED BY <2>2, <2>3
<1>3. starts' \in 0..MaxStarts
  BY PulseAssumption DEF IInv, Shape, Start, Stop
<1>4. Shape'
  BY <1>1, <1>2, <1>3 DEF IInv, Shape, checkVars, Findings
<1> QED BY <1>1, <1>4, StandsStill

\* The desk opens its one ticket of a finding, or forgets one.
LEMMA DeskKeeps ==
    ASSUME IInv, FileTicket \/ DeskForgets
    PROVE  IInv'
<1>1. /\ UNCHANGED <<schedVars, checkVars, callers>>
      /\ UNCHANGED <<fleet, inFlight, sequence, work, sessions, history, lastError>>
  BY DEF FileTicket, DeskForgets, schedVars, checkVars
<1>2. desk \in [Findings -> Nat] /\ DOMAIN desk = Findings
  BY DEF IInv, Shape
<1>3. PICK finding \in Findings :
         \/ /\ desk[finding] > 0
            /\ desk' = [desk EXCEPT ![finding] = @ - 1]
         \/ /\ Actionable(finding[1], finding[2]) /\ ~HasTicket(finding)
            /\ desk' = [desk EXCEPT ![finding] = @ + 1]
  <2>1. CASE DeskForgets
    BY <1>2, <2>1 DEF DeskForgets
  <2>2. CASE FileTicket
    <3>1. \A n \in 1..sequence : n \in 1..MaxRuns
      BY PulseAssumption DEF IInv, Shape
    <3>2. \A f \in (1..sequence) \X DOMAIN fleet : f \in Findings
      BY <3>1 DEF Findings
    <3> QED BY <2>2, <3>2 DEF FileTicket
  <2> QED BY <2>1, <2>2
<1>4. desk[finding] \in Nat /\ desk[finding] <= 1
  BY <1>2 DEF IInv, TicketsHold
<1>5. CASE /\ desk[finding] > 0
           /\ desk' = [desk EXCEPT ![finding] = @ - 1]
  <2>1. desk[finding] - 1 = 0
    BY <1>4, <1>5
  <2>2. /\ desk' \in [Findings -> Nat]
        /\ \A f \in Findings : desk'[f] = IF f = finding THEN 0 ELSE desk[f]
    BY <1>2, <1>5, <2>1
  <2> QED BY <1>1, <1>2, <2>2, DeskChanges
<1>6. CASE /\ Actionable(finding[1], finding[2]) /\ ~HasTicket(finding)
           /\ desk' = [desk EXCEPT ![finding] = @ + 1]
  <2>1. desk[finding] + 1 = 1
    BY <1>4, <1>6 DEF HasTicket
  <2>2. /\ desk' \in [Findings -> Nat]
        /\ \A f \in Findings : desk'[f] = IF f = finding THEN 1 ELSE desk[f]
    BY <1>2, <1>6, <2>1
  <2>3. Settled(finding[1])
    <3>1. PICK i \in DOMAIN history : history[i].id = finding[1]
      BY <1>6 DEF Actionable, InHistory
    <3>2. i \in 1..Len(history)
      BY LenProperties DEF IInv, Shape
    <3> QED BY <3>1, <3>2 DEF IInv, RunsAreSettled
  <2>4. HealthsOf(RunOf(finding[1]).targets[finding[2]]) # {"healthy"}
    BY <1>6 DEF Actionable, Alerting
  <2> QED BY <1>1, <1>2, <2>2, <2>3, <2>4, DeskChanges
<1> QED BY <1>3, <1>5, <1>6

-----------------------------------------------------------------------------
\* The monitor starts idle.
LEMMA InitHolds == Init => IInv
<1> SUFFICES ASSUME Init PROVE IInv
  OBVIOUS
<1>1. /\ fleet \in Fleets /\ timer = FALSE /\ intervals = 0 /\ starts = 0
      /\ inFlight = 0 /\ sequence = 0 /\ work = <<>> /\ sessions = {} /\ history = <<>>
      /\ callers = [c \in Callers |-> 0]
      /\ desk = [finding \in Findings |-> 0]
  BY DEF Init, Findings
<1>2. /\ <<>> \in Seq(Work) /\ <<>> \in Seq(Run) /\ Len(<<>>) = 0
      /\ DOMAIN <<>> = {} /\ 1..0 = {}
  <2>1. \A S : <<>> \in Seq(S) /\ Len(<<>>) = 0
    BY EmptySeq
  <2>2. DOMAIN <<>> = {} /\ 1..0 = {}
    OBVIOUS
  <2> QED BY <2>1, <2>2
<1>3. 0 \in 0..MaxStarts /\ 0 \in 0..MaxRuns /\ 0 <= HistoryLimit
  BY PulseAssumption
<1>4. Shape
  <2>1. timer \in BOOLEAN /\ intervals = IF timer THEN 1 ELSE 0
    BY <1>1
  <2>2. work \in Seq(Work) /\ Len(work) = sequence /\ history \in Seq(Run)
    BY <1>1, <1>2
  <2>3. callers \in [Callers -> 0..sequence] /\ desk \in [Findings -> Nat]
    BY <1>1
  <2>4. Len(history) <= HistoryLimit
    BY <1>1, <1>2, <1>3
  <2> QED BY <1>1, <1>3, <2>1, <2>2, <2>3, <2>4 DEF Shape
<1>5. OneCheck /\ ReportsHold /\ RunsAreSettled
  BY <1>1, <1>2 DEF OneCheck, ReportsHold, SoFar, RunsAreSettled
<1>6. \A finding \in Findings : desk[finding] = 0
  BY <1>1
<1>7. TicketsHold /\ OneTicketPerFinding
  <2>1. DOMAIN desk = Findings
    BY <1>1
  <2> QED BY <1>6, <2>1 DEF TicketsHold, OneTicketPerFinding
<1> QED BY <1>4, <1>5, <1>7 DEF IInv

\* Every step keeps it.
LEMMA StepKeeps == IInv /\ [Next]_vars => IInv'
<1> SUFFICES ASSUME IInv, [Next]_vars PROVE IInv'
  OBVIOUS
<1>1. CASE Execute
  BY <1>1, OpenKeeps, CheckKeeps, EndKeeps, CompleteKeeps, RejectKeeps DEF Execute
<1>2. CASE People
  BY <1>2, AskKeeps, DeskKeeps DEF People
<1>3. CASE Tick
  BY <1>3, AskKeeps
<1>4. CASE Start \/ Stop
  BY <1>4, TimerKeeps
<1>5. CASE DeskForgets
  BY <1>5, DeskKeeps
<1>6. CASE UNCHANGED vars
  <2>1. UNCHANGED <<fleet, checkVars, desk>> /\ Shape'
    BY <1>6 DEF vars, schedVars, checkVars, IInv, Shape, Findings
  <2> QED BY <2>1, StandsStill
<1> QED BY <1>1, <1>2, <1>3, <1>4, <1>5, <1>6 DEF Next

LEMMA Invariance == Spec => []IInv
BY InitHolds, StepKeeps, PTL DEF Spec

(***************************************************************************)
(* The state of the monitor is well typed: one interval ticks at most,     *)
(* however often start() is called, and the history is bounded and newest  *)
(* first (monitor.ts:97-225).                                              *)
(***************************************************************************)
THEOREM TypeCorrect == Spec => []TypeOK
<1>1. IInv => TypeOK
  <2> SUFFICES ASSUME IInv PROVE TypeOK
    OBVIOUS
  <2>1. /\ sequence \in Nat /\ inFlight \in 0..sequence
        /\ DOMAIN work = 1..sequence /\ DOMAIN history = 1..Len(history)
    BY PulseAssumption, LenProperties DEF IInv, Shape
  <2> QED BY <2>1 DEF IInv, Shape, RunsAreSettled, TypeOK
<1> QED BY <1>1, Invariance, PTL

(***************************************************************************)
(* Whoever asks, and whatever ticks, one machine is visited at a time and  *)
(* none is left connected: #begin shares the check in flight, #execute     *)
(* goes from target to target, and #checkTarget ends its session           *)
(* (monitor.ts:199, 231-234, 290).                                         *)
(***************************************************************************)
THEOREM OneVisitAtATime == Spec => []OneMachineAtATime
<1>1. IInv => OneMachineAtATime
  BY DEF IInv, OneCheck, OneMachineAtATime
<1> QED BY <1>1, Invariance, PTL

(***************************************************************************)
(* A run in the history has one finding for every probe of every target,   *)
(* whatever failed on the way; it calls the fleet healthy only if every    *)
(* probe was seen to be; and it saw only by looking, at machines that      *)
(* consented (monitor.ts:52-82, 256-389).                                  *)
(***************************************************************************)
THEOREM ReportsAreWhole == Spec => []ReportIsWhole
<1>1. IInv => ReportIsWhole
  <2> SUFFICES ASSUME IInv, NEW i \in DOMAIN history
               PROVE  /\ \A t \in DOMAIN fleet :
                            /\ Len(history[i].targets[t]) = Len(fleet[t].probes)
                            /\ \A p \in DOMAIN fleet[t].probes :
                                  history[i].targets[t][p] # "unavailable" => Allowed(t, p)
                      /\ history[i].status = "healthy" =>
                            \A t \in DOMAIN fleet :
                               HealthsOf(history[i].targets[t]) = {"healthy"}
    BY DEF ReportIsWhole, Allowed
  <2>1. Whole(history[i])
    BY LenProperties DEF IInv, Shape, ReportsHold
  <2>2. /\ DOMAIN fleet = 1..Len(fleet)
        /\ \A t \in 1..Len(fleet) : DOMAIN fleet[t].probes = 1..Len(fleet[t].probes)
    BY FleetTyped DEF IInv
  <2> QED BY <2>1, <2>2 DEF Whole, Accounts, SeenAllowed
<1> QED BY <1>1, Invariance, PTL

(***************************************************************************)
(* However often a finding is reported to the desk it has one ticket of    *)
(* it, and only of what a run found wrong (server/index.ts:998-1039).      *)
(***************************************************************************)
THEOREM OneTicketEach == Spec => []OneTicketPerFinding
BY Invariance, PTL DEF IInv

(***************************************************************************)
(* Once stop() has been called nothing begins but what a person asks for,  *)
(* however often start() was called before (monitor.ts:168-192).           *)
(***************************************************************************)
THEOREM StoppedStaysQuiet == Spec => StoppedIsQuiet
<1>1. IInv /\ [Next]_vars => [~timer /\ sequence' # sequence => callers' # callers]_vars
  <2> SUFFICES ASSUME IInv, Next, ~timer, sequence' # sequence
               PROVE  callers' # callers
    OBVIOUS
  <2>1. \/ \E c \in Callers : RunNow(c)
        \/ Tick
    BY DEF Next, Execute, People, OpenSession, CheckProbe, EndSession, Complete, Reject,
           FileTicket, Start, Stop, DeskForgets, checkVars
  <2>2. intervals = 0
    BY DEF IInv, Shape
  <2>3. ~Tick
    BY <2>2 DEF Tick
  <2>4. PICK c \in Callers : RunNow(c)
    BY <2>1, <2>3
  <2>5. sequence \in Nat /\ callers \in [Callers -> 0..sequence]
    BY PulseAssumption DEF IInv, Shape
  <2>6. inFlight' = sequence + 1
    BY <2>4 DEF RunNow, Begin, Joins, checkVars
  <2>7. callers[c] = 0 /\ callers'[c] = sequence + 1
    BY <2>4, <2>5, <2>6 DEF RunNow
  <2> QED BY <2>5, <2>7
<1> QED BY <1>1, Invariance, PTL DEF Spec, StoppedIsQuiet
=============================================================================
