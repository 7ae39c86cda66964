------------------------ MODULE HeuristicBrainProofs -------------------------
(***************************************************************************)
(* Theorems about the offline technician on any tickets, with any budget   *)
(* and however many commands fail.                                         *)
(*                                                                         *)
(* The brain keeps no state: it reads what it did out of the history.  So  *)
(* the invariant is about the order of the steps in it: requests before    *)
(* fixes, a check before its fix, the fixes before their re-checks         *)
(* (InOrder), each proposed once (Once), each taken from the tables        *)
(* (FromTheTables).                                                        *)
(***************************************************************************)
EXTENDS HeuristicBrain, TLAPS, WellFoundedInduction

Requested == FindRequestedActions(ticket.asked)

\* Where an item comes from.
Known(step) ==
    CASE step.kind = "request" -> \E a \in Requested : REQUESTED_ACTIONS[a] = step.item
      [] step.kind = "ask" -> step.item = "detail"
      [] step.kind = "shot" -> step.item = "screen"
      [] step.kind \in {"check", "verify", "fix"} ->
            /\ ticket.platform # "unknown"
            /\ IF ticket.local
               THEN \E c \in LocalChecks :
                       /\ LOCAL_CHECKS[c].id = step.item
                       /\ step.kind # "check" =>
                             HasFix(LOCAL_CHECKS[c], ticket.platform, ticket.tools)
               ELSE IF step.kind = "fix"
               THEN \E f \in DOMAIN Fixes : Fixes[f].command = step.item
               ELSE \E d \in DOMAIN Diagnostics :
                       /\ Diagnostics[d].command = step.item
                       /\ step.kind = "verify" => d \in Verifiers

FromTheTables == \A i \in Steps : Known(StepAt(i))

\* No request, check or fix is proposed twice.
OneTime == {"request", "check", "fix"}
Once ==
    \A i, j \in Steps :
       i # j /\ StepAt(i).kind \in OneTime => StepAt(i) # StepAt(j)

\* Requests are out of the way before a fix is proposed, and what a re-check
\* confirms was tried before it.
Precedes(step, j) == \E i \in Steps : i < j /\ StepAt(i) = step

InOrder ==
    \A j \in Steps :
       /\ StepAt(j).kind = "fix" =>
             \A a \in Requested : Precedes(Step("request", REQUESTED_ACTIONS[a]), j)
       /\ StepAt(j).kind = "verify" =>
             IF ticket.local THEN Precedes(Step("fix", StepAt(j).item), j)
             ELSE /\ Precedes(Step("check", StepAt(j).item), j)
                  /\ \A f \in DOMAIN Fixes : Precedes(Step("fix", Fixes[f].command), j)

\* A re-check is proposed alone, and never set aside.
ChecksAgain ==
    \A j \in Steps : StepAt(j).kind = "verify" =>
       IF j <= Len(history) THEN history[j].outcome \in {"success", "failed"}
       ELSE ~halted /\ Len(batch) = 1

\* A hard stop freezes the run, unless a "no" had ended it already.
HardStopMet ==
    \E i \in DOMAIN history :
       history[i].step.kind = "request" /\ HardStop(history[i].step.item)

Stops ==
    /\ halted => frozen \/ human
    /\ HardStopMet => frozen \/ (halted /\ human)
    /\ \A i \in Succeeded :
          /\ history[i].step.kind = "request" => ~HardStop(history[i].step.item)
          /\ history[i].step.kind = "fix" => ~HardStopMet

\* The run is over when it is resolved, and when the letter is written.
Over ==
    /\ resolved => batch = <<>>
    /\ reply # "none" => batch = <<>> /\ ~Running

IInv ==
    /\ TypeOK /\ FromTheTables /\ Once /\ InOrder /\ FixFollowsItsFault
    /\ ChecksAgain /\ Stops /\ Over /\ FixIsRechecked /\ LettersOwnUp

-----------------------------------------------------------------------------
(***************************************************************************)
(* Positions of a table, or of the history.                                *)
(***************************************************************************)

\* A selection has a first position.
LEMMA LeastOf ==
    ASSUME NEW S \in SUBSET Nat, S # {}
    PROVE  Min(S) \in S /\ \A x \in S : Min(S) <= x
<1>. DEFINE Less == OpToRel(<, Nat)
<1>1. IsWellFoundedOn(Less, Nat)  BY NatLessThanWellFounded
<1>2. \A x, y \in Nat : <<y, x>> \notin Less => x <= y  BY DEF OpToRel
<1>. HIDE DEF Less
<1>3. PICK least \in S : \A y \in S : ~ (<<y, least>> \in Less)
    BY <1>1, WFMin
<1>4. \A y \in S : least <= y
    BY <1>2, <1>3
<1>. QED  BY <1>4 DEF Min

\* A bounded one has a last position: the first, seen from the end.
LEMMA GreatestOf ==
    ASSUME NEW n \in Nat, NEW S \in SUBSET (1..n), S # {}
    PROVE  Max(S) \in S /\ \A x \in S : x <= Max(S)
<1>. DEFINE Mirror == {n - i : i \in S}
<1>1. Mirror \in SUBSET Nat
    <2>1. \A i \in S : n - i \in Nat  OBVIOUS
    <2>. QED  BY <2>1
<1>2. Mirror # {}
    <2>1. PICK i : i \in S  OBVIOUS
    <2>2. n - i \in Mirror  BY <2>1
    <2>. QED  BY <2>2
<1>. HIDE DEF Mirror
<1>3. Min(Mirror) \in Mirror /\ \A m \in Mirror : Min(Mirror) <= m
    BY <1>1, <1>2, LeastOf
<1>4. PICK i \in S : Min(Mirror) = n - i  BY <1>3 DEF Mirror
<1>5. \A x \in S : x <= i
    <2>1. SUFFICES ASSUME NEW x \in S PROVE x <= i  OBVIOUS
    <2>2. n - x \in Mirror  BY DEF Mirror
    <2>. QED  BY <1>3, <1>4, <2>2
<1>. QED  BY <1>5 DEF Max

\* FirstThree lists one to three members of a selection, none of them twice.
LEMMA FirstThreeListed ==
    ASSUME NEW S \in SUBSET Nat, S # {}
    PROVE  /\ FirstThree(S) \in Seq(S) /\ Len(FirstThree(S)) \in 1..3
           /\ \A m, k \in 1..Len(FirstThree(S)) :
                 FirstThree(S)[m] = FirstThree(S)[k] => m = k
<1>. DEFINE a == Min(S)  b == Min(S \ {a})  c == Min(S \ {a, b})
<1>1. a \in S  BY LeastOf
<1>2. S # {a} => b \in S \ {a}
    <2>. SUFFICES ASSUME S # {a} PROVE b \in S \ {a}  OBVIOUS
    <2>1. S \ {a} # {} /\ S \ {a} \in SUBSET Nat  BY <1>1
    <2>. QED  BY <2>1, LeastOf
<1>3. S # {a} /\ S # {a, b} => c \in S \ {a, b}
    <2>. SUFFICES ASSUME S # {a}, S # {a, b} PROVE c \in S \ {a, b}  OBVIOUS
    <2>1. S \ {a, b} # {} /\ S \ {a, b} \in SUBSET Nat  BY <1>1, <1>2
    <2>. QED  BY <2>1, LeastOf
<1>4. FirstThree(S) = IF S = {a} THEN <<a>> ELSE IF S = {a, b} THEN <<a, b>> ELSE <<a, b, c>>
    BY DEF FirstThree
<1>. HIDE DEF a, b, c
<1>5. CASE S = {a}  BY <1>1, <1>4, <1>5
<1>6. CASE S # {a} /\ S = {a, b}  BY <1>1, <1>2, <1>4, <1>6
<1>7. CASE S # {a} /\ S # {a, b}  BY <1>1, <1>2, <1>3, <1>4, <1>7
<1>. QED  BY <1>5, <1>6, <1>7

-----------------------------------------------------------------------------
(***************************************************************************)
(* What the tables hold.                                                   *)
(***************************************************************************)
Identities ==
    <<"identity", "uptime", "disk", "memory", "dns", "network", "reachability",
      "printers", "power", "wifi", "vpn", "time", "battery-health", "updates",
      "disk-health", "top-processes">>

\* Every check has a name of its own.
LEMMA IdentitiesDiffer ==
    /\ DOMAIN LOCAL_CHECKS = 1..16
    /\ \A c, d \in 1..16 : LOCAL_CHECKS[c].id = LOCAL_CHECKS[d].id => c = d
<1>1. \A c, d \in 1..16 : Identities[c] = Identities[d] => c = d
    BY DEF Identities
<1>2. DOMAIN LOCAL_CHECKS = 1..16 /\ \A c \in 1..16 : LOCAL_CHECKS[c].id = Identities[c]
    BY DEF LOCAL_CHECKS, Identities, Check, Mendable, CheckIdentity, CheckUptime,
           CheckDisk, CheckMemory, CheckDns, CheckNetwork, CheckReachability,
           CheckPrinters, CheckPower, CheckWifi, CheckVpn, CheckTime,
           CheckBatteryHealth, CheckUpdates, CheckDiskHealth, CheckTopProcesses
<1>. QED  BY <1>1, <1>2

\* A check that was not run found nothing.
LEMMA NothingFound == \A c \in 1..16 : "none" \notin LOCAL_CHECKS[c].finds
  BY DEF LOCAL_CHECKS, Check, Mendable, CheckIdentity, CheckUptime,
         CheckDisk, CheckMemory, CheckDns, CheckNetwork, CheckReachability,
         CheckPrinters, CheckPower, CheckWifi, CheckVpn, CheckTime,
         CheckBatteryHealth, CheckUpdates, CheckDiskHealth, CheckTopProcesses

\* Only the DNS cache and a printer queue can be mended.
LEMMA MendableChecks ==
    \A c \in 1..16, p \in Platform : LOCAL_CHECKS[c].fix[p] # "none" =>
       LOCAL_CHECKS[c].id \in {"dns", "printers"}
  BY DEF LOCAL_CHECKS, Check, Mendable, CheckIdentity, CheckUptime,
         CheckDisk, CheckMemory, CheckDns, CheckNetwork, CheckReachability,
         CheckPrinters, CheckPower, CheckWifi, CheckVpn, CheckTime,
         CheckBatteryHealth, CheckUpdates, CheckDiskHealth, CheckTopProcesses,
         Everywhere, On, Platform

\* Every request has a name of its own.
LEMMA RequestsDiffer ==
    /\ DOMAIN REQUESTED_ACTIONS = 1..9
    /\ \A a, b \in 1..9 : REQUESTED_ACTIONS[a] = REQUESTED_ACTIONS[b] => a = b
  BY DEF REQUESTED_ACTIONS

\* What a playbook looks at, and mends: few things, no command of a playbook
\* is one of the two that read the same report, and no fix reads secrets.
Apart == {"memory", "identity"}
Looked(ds) ==
    /\ \E n \in 0..3 : DOMAIN ds = 1..n
    /\ \A d \in DOMAIN ds : ds[d].command \notin Apart
Mended(fs) ==
    /\ \E n \in 0..2 : DOMAIN fs = 1..n
    /\ \A f \in DOMAIN fs : /\ fs[f].kind \in {"command", "ui_action"}
                            /\ fs[f].rule # "approve.secret-search"

LEMMA LookedNowhere == Looked(<<>>) /\ Mended(<<>>)
  BY DEF Looked, Mended
LEMMA LookedOnce == ASSUME NEW a, a.command \notin Apart PROVE Looked(<<a>>)
  BY DEF Looked
LEMMA LookedTwice ==
    ASSUME NEW a, NEW b, a.command \notin Apart, b.command \notin Apart
    PROVE  Looked(<<a, b>>)
  BY DEF Looked
LEMMA LookedThrice ==
    ASSUME NEW a, NEW b, NEW c,
           a.command \notin Apart, b.command \notin Apart, c.command \notin Apart
    PROVE  Looked(<<a, b, c>>)
  BY DEF Looked
LEMMA CommandsApart ==
    ASSUME NEW command, command \notin {"memory", "identity"}
    PROVE  Looks(command).command \notin Apart /\ Tells(command).command \notin Apart
  BY DEF Looks, Tells, Apart

Mend(a) == a.kind \in {"command", "ui_action"} /\ a.rule # "approve.secret-search"
LEMMA MendedOnce == ASSUME NEW a, Mend(a) PROVE Mended(<<a>>)
  BY DEF Mended, Mend
LEMMA MendedTwice == ASSUME NEW a, NEW b, Mend(a), Mend(b) PROVE Mended(<<a, b>>)
  BY DEF Mended, Mend
LEMMA FixMends ==
    ASSUME NEW command, NEW rule, rule # "approve.secret-search"
    PROVE  Mend(Fix(command, rule))
  BY DEF Mend, Fix

Readable(book) ==
    \A p \in Platform : Looked(book.diagnostics[p]) /\ Mended(book.fixes[p])

LEMMA EveryPlatform ==
    ASSUME NEW book,
           Looked(book.diagnostics["windows"]), Mended(book.fixes["windows"]),
           Looked(book.diagnostics["macos"]), Mended(book.fixes["macos"]),
           Looked(book.diagnostics["linux"]), Mended(book.fixes["linux"]),
           Looked(book.diagnostics["unknown"]), Mended(book.fixes["unknown"])
    PROVE  Readable(book)
  BY DEF Readable, Platform

LEMMA BooksReadable ==
    \A book \in {VpnDrop, PhishingReport, WifiDisabled, DnsResolution, PrintSpooler,
                 DiskSpace, Performance, NoPlaybook} : Readable(book)
<1>1. Readable(VpnDrop)
    BY LookedNowhere, LookedOnce, LookedTwice, LookedThrice, CommandsApart,
       MendedOnce, MendedTwice, FixMends, EveryPlatform
       DEF VpnDrop, On, NoFixes, Everywhere
<1>2. Readable(PhishingReport)
    BY LookedNowhere, LookedOnce, LookedTwice, LookedThrice, CommandsApart,
       MendedOnce, MendedTwice, FixMends, EveryPlatform
       DEF PhishingReport, On, NoFixes, Everywhere
<1>3. Readable(WifiDisabled)
    BY LookedNowhere, LookedOnce, LookedTwice, LookedThrice, CommandsApart,
       MendedOnce, MendedTwice, FixMends, EveryPlatform
       DEF WifiDisabled, On, NoFixes, Everywhere, Mend
<1>4. Readable(DnsResolution)
    BY LookedNowhere, LookedOnce, LookedTwice, LookedThrice, CommandsApart,
       MendedOnce, MendedTwice, FixMends, EveryPlatform
       DEF DnsResolution, On, NoFixes, Everywhere
<1>5. Readable(PrintSpooler)
    BY LookedNowhere, LookedOnce, LookedTwice, LookedThrice, CommandsApart,
       MendedOnce, MendedTwice, FixMends, EveryPlatform
       DEF PrintSpooler, On, NoFixes, Everywhere
<1>6. Readable(DiskSpace)
    BY LookedNowhere, LookedOnce, LookedTwice, LookedThrice, CommandsApart,
       MendedOnce, MendedTwice, FixMends, EveryPlatform
       DEF DiskSpace, On, NoFixes, Everywhere
<1>7. Readable(Performance)
    BY LookedNowhere, LookedOnce, LookedTwice, LookedThrice, CommandsApart,
       MendedOnce, MendedTwice, FixMends, EveryPlatform
       DEF Performance, On, NoFixes, Everywhere
<1>8. Readable(NoPlaybook)
    BY LookedNowhere, LookedOnce, LookedTwice, LookedThrice, CommandsApart,
       MendedOnce, MendedTwice, FixMends, EveryPlatform
       DEF NoPlaybook, On, NoFixes, Everywhere
<1>. QED  BY <1>1, <1>2, <1>3, <1>4, <1>5, <1>6, <1>7, <1>8

\* Every ticket finds a playbook like that.
LEMMA PlaybookReadable == \A matches : Readable(FindPlaybook(matches))
<1>. SUFFICES ASSUME NEW matches PROVE Readable(FindPlaybook(matches))  OBVIOUS
<1>. DEFINE claimed == {i \in DOMAIN PLAYBOOKS : PLAYBOOKS[i].id \in matches}
<1>1. DOMAIN PLAYBOOKS = 1..7 /\ \A i \in 1..7 : Readable(PLAYBOOKS[i])
    BY BooksReadable DEF PLAYBOOKS
<1>2. CASE claimed = {}  BY <1>2, BooksReadable DEF FindPlaybook
<1>3. CASE claimed # {}
    <2>1. claimed \in SUBSET Nat  BY <1>1
    <2>2. Min(claimed) \in claimed
        <3>. HIDE DEF claimed
        <3>. QED  BY <1>3, <2>1, LeastOf
    <2>. QED  BY <1>1, <1>3, <2>2 DEF FindPlaybook
<1>. QED  BY <1>2, <1>3

\* The tables as they are open to a ticket.
LEMMA TablesOfTicket ==
    ASSUME TypeOK
    PROVE  /\ ticket \in Ticket
           /\ Looked(Diagnostics) /\ Mended(Fixes)
           /\ Requested \in SUBSET (1..9) /\ LocalChecks \in SUBSET (1..16)
           /\ Verifiers \in SUBSET Nat
<1>1. ticket \in Ticket /\ ticket.platform \in Platform
    BY TicketsAssumption DEF TypeOK, Ticket
<1>2. Looked(Diagnostics) /\ Mended(Fixes)
    BY <1>1, PlaybookReadable DEF Readable, Diagnostics, Fixes, Playbook
<1>3. Requested \in SUBSET (1..9)
    BY RequestsDiffer DEF Requested, FindRequestedActions
<1>4. LocalChecks \in SUBSET (1..16)
    BY IdentitiesDiffer DEF LocalChecks, ChecksForCategory, ChecksFor
<1>5. Verifiers \in SUBSET Nat
    BY <1>2 DEF Verifiers, Looked
<1>. QED  BY <1>1, <1>2, <1>3, <1>4, <1>5

\* What can be mended on a real machine is not a check two commands stand for,
\* and is on the read-only list.
LEMMA MendableIsPlain ==
    ASSUME TypeOK, NEW c \in LocalChecks, HasFix(LOCAL_CHECKS[c], ticket.platform, ticket.tools)
    PROVE  LOCAL_CHECKS[c].id \notin Apart \cup {"uptime"}
<1>1. LOCAL_CHECKS[c].fix[ticket.platform] # "none" /\ ticket.platform \in Platform
    BY TablesOfTicket DEF HasFix, Ticket
<1>. QED  BY <1>1, TablesOfTicket, MendableChecks DEF Apart

\* Apart from the two, a command is its name.
LEMMA CommandIsName ==
    ASSUME NEW id, id \notin Apart, NEW other, NEW platform
    PROVE  CommandOf(id, platform) = id /\ (CommandOf(other, platform) = id => other = id)
  BY DEF CommandOf, Apart

-----------------------------------------------------------------------------
(***************************************************************************)
(* What the policy says of the brain's steps.                              *)
(***************************************************************************)
LEMMA HardStopsBlocked ==
    ASSUME NEW step, step.kind = "request", HardStop(step.item)
    PROVE  Judged(step).decision = "block" /\ Judged(step).escalate
  BY DEF Judged, Evaluate, PlanStepOf, HardStop

LEMMA ChecksAllowed ==
    ASSUME TypeOK, NEW step, step.kind = "verify", Known(step)
    PROVE  Judged(step).decision = "allow"
<1>1. ticket.platform # "unknown" /\ (ticket.local => step.item # "uptime")
    BY MendableIsPlain DEF Known
<1>. QED  BY <1>1 DEF Judged, Evaluate, PlanStepOf, EvaluateOnDevice, EvaluateCommand, Verdict

\* Nothing else is of a category a refusal is explained by.
LEMMA RoutineOtherwise ==
    ASSUME TypeOK, NEW step, Known(step), step.kind \in StepKinds,
           ~(step.kind = "request" /\ HardStop(step.item))
    PROVE  Judged(step).categories = {"routine"}
<1>1. CASE step.kind \in {"request", "ask", "shot", "check", "verify"}
    BY <1>1 DEF Judged, Evaluate, PlanStepOf, EvaluateOnDevice, EvaluateCommand, Verdict
<1>2. CASE step.kind = "fix" /\ ticket.local
    BY <1>2 DEF Judged, Evaluate, PlanStepOf, EvaluateOnDevice, EvaluateCommand, Verdict,
               CategoryOf
<1>3. CASE step.kind = "fix" /\ ~ticket.local
    <2>. DEFINE fixes == {Fixes[i] : i \in DOMAIN Fixes}
                fix == CHOOSE f \in fixes : f.command = step.item
    <2>1. \E f \in fixes : f.command = step.item  BY <1>3 DEF Known
    <2>2. \A f \in fixes : f.kind \in {"command", "ui_action"} /\ f.rule # "approve.secret-search"
        BY TablesOfTicket DEF Mended
    <2>3. fix.kind \in {"command", "ui_action"} /\ fix.rule # "approve.secret-search"
        <3>. HIDE DEF fixes
        <3>. QED  BY <2>1, <2>2
    <2>4. PlanStepOf(step).kind = fix.kind /\ PlanStepOf(step).rule = fix.rule
          /\ PlanStepOf(step).hits = {}
        BY <1>3 DEF PlanStepOf
    <2>. HIDE DEF fix
    <2>. QED  BY <2>3, <2>4
              DEF Judged, Evaluate, EvaluateOnDevice, EvaluateCommand, Verdict, CategoryOf
<1>. QED  BY <1>1, <1>2, <1>3 DEF StepKinds

-----------------------------------------------------------------------------
(***************************************************************************)
(* Reading the history.                                                    *)
(***************************************************************************)
LEMMA HistorySteps ==
    ASSUME TypeOK
    PROVE  /\ Len(history) \in Nat /\ DOMAIN history = 1..Len(history)
           /\ \A i \in DOMAIN history :
                 /\ i \in Steps /\ StepAt(i) = history[i].step
                 /\ history[i].step \in BrainStep
                 /\ history[i].outcome \in Outcomes /\ history[i].reading \in Readings
           /\ \A i \in Steps, j \in DOMAIN history : i < j => i \in DOMAIN history
<1>. DEFINE Result == [step: BrainStep, outcome: Outcomes, reading: Readings]
<1>1. history \in Seq(Result) /\ batch \in Seq(BrainStep)  BY DEF TypeOK
<1>. HIDE DEF Result
<1>2. Len(history) \in Nat /\ DOMAIN history = 1..Len(history)  BY <1>1
<1>3. \A i \in DOMAIN history :
         /\ history[i].step \in BrainStep
         /\ history[i].outcome \in Outcomes /\ history[i].reading \in Readings
    <2>1. \A i \in DOMAIN history : history[i] \in Result  BY <1>1
    <2>. QED  BY <2>1 DEF Result
<1>4. Len(batch) \in Nat  BY <1>1
<1>5. \A i \in DOMAIN history : i \in Steps /\ StepAt(i) = history[i].step
    BY <1>2, <1>4 DEF Steps, StepAt
<1>6. \A i \in Steps, j \in DOMAIN history : i < j => i \in DOMAIN history
    BY <1>2, <1>4 DEF Steps
<1>. QED  BY <1>2, <1>3, <1>5, <1>6

LEMMA Ranked ==
    ASSUME TypeOK, NEW S \in SUBSET DOMAIN history, S # {}
    PROVE  /\ Min(S) \in S /\ \A i \in S : Min(S) <= i
           /\ Max(S) \in S /\ \A i \in S : i <= Max(S)
<1>1. Len(history) \in Nat /\ S \in SUBSET (1..Len(history))  BY HistorySteps
<1>2. S \in SUBSET Nat  BY <1>1
<1>. QED  BY <1>1, <1>2, LeastOf, GreatestOf

\* A re-check, and a fix, in the history come after what they are for.
LEMMA RecheckFollows ==
    ASSUME TypeOK, InOrder, NEW j \in DOMAIN history, history[j].step.kind = "verify"
    PROVE  IF ticket.local
           THEN \E i \in DOMAIN history :
                   i < j /\ history[i].step = Step("fix", history[j].step.item)
           ELSE /\ \E i \in DOMAIN history :
                      i < j /\ history[i].step = Step("check", history[j].step.item)
                /\ \A f \in DOMAIN Fixes : \E i \in DOMAIN history :
                      i < j /\ history[i].step = Step("fix", Fixes[f].command)
<1>1. j \in Steps /\ StepAt(j) = history[j].step  BY HistorySteps
<1>2. \A step : Precedes(step, j) =>
                   \E i \in DOMAIN history : i < j /\ history[i].step = step
    BY HistorySteps DEF Precedes
<1>3. CASE ticket.local
    BY <1>1, <1>2, <1>3 DEF InOrder
<1>4. CASE ~ticket.local
    BY <1>1, <1>2, <1>4 DEF InOrder
<1>. QED  BY <1>3, <1>4

LEMMA OnceInHistory ==
    ASSUME TypeOK, Once, NEW i \in DOMAIN history, NEW j \in DOMAIN history,
           history[i].step = history[j].step, history[i].step.kind \in OneTime
    PROVE  i = j
  BY HistorySteps DEF Once

-----------------------------------------------------------------------------
(***************************************************************************)
(* What calls for a fix.                                                   *)
(***************************************************************************)
CalledFor(item) ==
    \E j \in DOMAIN history : history[j].step.kind = "check" /\ Calls(j, item)

\* On a described machine: the first result of a check is the check's own.
LEMMA PlaybookFixCalledFor ==
    ASSUME TypeOK, InOrder, ~ticket.local, FaultFound, NEW item
    PROVE  CalledFor(item)
<1>1. PICK v \in Verifiers :
         /\ Runs(Diagnostics[v].command) # {}
         /\ history[Min(Runs(Diagnostics[v].command))].reading = "fault"
    BY DEF FaultFound
<1>. DEFINE runs == Runs(Diagnostics[v].command)
            first == Min(runs)
<1>2. first \in runs /\ \A i \in runs : first <= i
    <2>1. runs \in SUBSET DOMAIN history  BY DEF Runs
    <2>. QED  BY <1>1, <2>1, Ranked
<1>3. first \in DOMAIN history /\ history[first].step.kind \in {"check", "verify"}
    BY <1>2 DEF Runs
<1>. HIDE DEF first
<1>4. history[first].step.kind # "verify"
    <2>. SUFFICES ASSUME history[first].step.kind = "verify" PROVE FALSE  OBVIOUS
    <2>1. PICK i \in DOMAIN history :
             i < first /\ history[i].step = Step("check", history[first].step.item)
        BY <1>3, RecheckFollows
    <2>2. i \in runs
        BY <1>2, <2>1 DEF Runs, Step
    <2>3. first \in Nat /\ i \in Nat  BY <1>3, HistorySteps
    <2>. QED  BY <1>2, <2>1, <2>2, <2>3
<1>5. history[first].reading = "fault"  BY <1>1 DEF first
<1>. QED  BY <1>3, <1>4, <1>5 DEF CalledFor, Calls

\* On a real one: a re-check would have followed the fix.
LEMMA LocalFixCalledFor ==
    ASSUME TypeOK, InOrder, ticket.local, NEW c \in ReadFaults,
           HasFix(LOCAL_CHECKS[c], ticket.platform, ticket.tools),
           ~Attempted("fix", LOCAL_CHECKS[c].id)
    PROVE  CalledFor(LOCAL_CHECKS[c].id)
<1>. DEFINE id == LOCAL_CHECKS[c].id
            runs == Runs(CommandOf(id, ticket.platform))
            last == Max(runs)
<1>1. c \in LocalChecks /\ Latest(LOCAL_CHECKS[c]).reading \in LOCAL_CHECKS[c].finds
    BY DEF ReadFaults
<1>2. runs # {} /\ history[last].reading \in LOCAL_CHECKS[c].finds
    BY <1>1, NothingFound, TablesOfTicket DEF Latest, NoResult
<1>3. last \in runs
    <2>1. runs \in SUBSET DOMAIN history  BY DEF Runs
    <2>. QED  BY <1>2, <2>1, Ranked
<1>4. id \notin Apart
    BY <1>1, MendableIsPlain
<1>5. /\ last \in DOMAIN history /\ history[last].step.kind \in {"check", "verify"}
      /\ history[last].step.item = id
    BY <1>3, <1>4, CommandIsName DEF Runs
<1>. HIDE DEF id, runs, last
<1>6. history[last].step.kind # "verify"
    <2>. SUFFICES ASSUME history[last].step.kind = "verify" PROVE FALSE  OBVIOUS
    <2>1. \E i \in DOMAIN history : history[i].step = Step("fix", id)
        BY <1>5, RecheckFollows
    <2>. QED  BY <2>1 DEF Attempted, id
<1>. QED  BY <1>1, <1>2, <1>5, <1>6 DEF CalledFor, Calls, id

-----------------------------------------------------------------------------
(***************************************************************************)
(* What confirms a run.                                                    *)
(***************************************************************************)
Confirms(j, i) ==
    /\ j > i /\ history[j].step.kind = "verify"
    /\ history[j].step.item \in Confirming(history[i].step.item)
    /\ history[j].outcome \in {"success", "failed"}
    /\ \A k \in Runs(CommandOf(history[j].step.item, ticket.platform)) : k <= j
    /\ ~Calls(j, history[i].step.item)

Confirmed ==
    \A i \in DOMAIN history : history[i].step.kind = "fix" =>
       \E j \in DOMAIN history : Confirms(j, i)

\* On a described machine: the check ran once, so its second run is a re-check,
\* and every fix was tried before that.
LEMMA PlaybookConfirmed ==
    ASSUME TypeOK, FromTheTables, Once, InOrder, ChecksAgain,
           ~ticket.local, Verifiers # {}, executed < StepBudget, Verify = Conclude
    PROVE  Confirmed
<1>. DEFINE command == Diagnostics[Min(Verifiers)].command
            runs    == Runs(command)
            last    == Max(runs)
<1>1. Min(Verifiers) \in Verifiers
    BY TablesOfTicket, LeastOf
<1>2. command \notin Apart
    BY <1>1, TablesOfTicket DEF Looked, Verifiers
<1>3. /\ \E i, j \in runs : i # j
      /\ history[last].reading # "fault"
    <2>1. ~((\A i, j \in runs : i = j) /\ executed < StepBudget)
        BY DEF Verify, Conclude, Propose
    <2>2. ~(runs # {} /\ history[last].reading = "fault")
        BY <2>1 DEF Verify, Conclude, HandOver
    <2>. QED  BY <2>1, <2>2
<1>4. last \in runs /\ \A k \in runs : k <= last
    <2>1. runs \in SUBSET DOMAIN history  BY DEF Runs
    <2>. QED  BY <1>3, <2>1, Ranked
<1>5. \A k \in runs : /\ k \in DOMAIN history
                      /\ history[k].step.kind \in {"check", "verify"}
                      /\ history[k].step.item = command
    BY <1>2, CommandIsName DEF Runs
<1>6. CommandOf(command, ticket.platform) = command
    BY <1>2, CommandIsName
<1>. HIDE DEF command, last
<1>7. history[last].step.kind = "verify"
    <2>. SUFFICES ASSUME history[last].step.kind = "check" PROVE FALSE
        BY <1>4, <1>5
    <2>1. PICK other \in runs : other # last  BY <1>3
    <2>2. PICK k \in DOMAIN history : k # last /\ history[k].step = Step("check", command)
        <3>1. other \in DOMAIN history /\ last \in DOMAIN history /\ other <= last
            BY <1>4, <1>5, <2>1
        <3>2. CASE history[other].step.kind = "check"
            <4>1. history[other].step = Step("check", command)
                BY <1>5, <2>1, <3>1, <3>2, HistorySteps DEF Step, BrainStep
            <4>. QED  BY <2>1, <3>1, <4>1
        <3>3. CASE history[other].step.kind = "verify"
            <4>1. PICK i \in DOMAIN history :
                     i < other /\ history[i].step = Step("check", command)
                BY <1>5, <2>1, <3>1, <3>3, RecheckFollows
            <4>. QED  BY <2>1, <3>1, <4>1, HistorySteps
        <3>. QED  BY <1>5, <2>1, <3>2, <3>3
    <2>3. history[last].step = Step("check", command)
        BY <1>4, <1>5, HistorySteps DEF Step, BrainStep
    <2>. QED  BY <1>4, <1>5, <2>2, <2>3, OnceInHistory DEF OneTime, Step
<1>8. SUFFICES ASSUME NEW i \in DOMAIN history, history[i].step.kind = "fix"
               PROVE  Confirms(last, i)
    BY <1>4, <1>5 DEF Confirmed
<1>9. last \in DOMAIN history  BY <1>4, <1>5
<1>10. i < last
    <2>1. PICK f \in DOMAIN Fixes : history[i].step = Step("fix", Fixes[f].command)
        <3>1. Known(history[i].step)  BY HistorySteps DEF FromTheTables
        <3>. QED  BY <1>8, <3>1, HistorySteps DEF Known, Step, BrainStep
    <2>2. PICK k \in DOMAIN history : k < last /\ history[k].step = history[i].step
        BY <1>7, <1>9, <2>1, RecheckFollows
    <2>. QED  BY <1>8, <2>2, OnceInHistory DEF OneTime
<1>11. history[last].outcome \in {"success", "failed"}
    BY <1>7, <1>9, HistorySteps DEF ChecksAgain
<1>12. command \in Confirming(history[i].step.item)
    BY <1>1 DEF Confirming, command
<1>13. ~Calls(last, history[i].step.item)
    BY <1>3 DEF Calls, last
<1>. QED
    BY <1>4, <1>5, <1>6, <1>7, <1>9, <1>10, <1>11, <1>12, <1>13, HistorySteps DEF Confirms

\* On a real one: the fault was read before the fix, the latest reading has no
\* fault, and the check ran once, so the latest is the re-check.
LEMMA LocalConfirmed ==
    ASSUME TypeOK, FromTheTables, Once, InOrder, ChecksAgain, FixFollowsItsFault,
           ticket.local, ReadFaults = {}
    PROVE  Confirmed
<1>. SUFFICES ASSUME NEW i \in DOMAIN history, history[i].step.kind = "fix"
              PROVE  \E j \in DOMAIN history : Confirms(j, i)
    BY DEF Confirmed
<1>. DEFINE item == history[i].step.item
            runs == Runs(item)
            last == Max(runs)
<1>1. PICK c \in LocalChecks : /\ LOCAL_CHECKS[c].id = item
                               /\ HasFix(LOCAL_CHECKS[c], ticket.platform, ticket.tools)
    <2>1. Known(history[i].step)  BY HistorySteps DEF FromTheTables
    <2>. QED  BY <2>1 DEF Known
<1>2. item \notin Apart /\ CommandOf(item, ticket.platform) = item
    BY <1>1, MendableIsPlain, CommandIsName
<1>3. PICK j \in DOMAIN history : /\ j < i /\ history[j].step.kind = "check"
                                  /\ Calls(j, item)
    <2>1. i \in Steps /\ StepAt(i) = history[i].step  BY HistorySteps
    <2>. QED  BY <2>1 DEF FixFollowsItsFault
<1>4. history[j].step.item = item  BY <1>3 DEF Calls
<1>. HIDE DEF item
<1>5. j \in runs  BY <1>2, <1>3, <1>4 DEF Runs
<1>6. last \in runs /\ \A k \in runs : k <= last
    <2>1. runs \in SUBSET DOMAIN history  BY DEF Runs
    <2>. QED  BY <1>5, <2>1, Ranked
<1>7. /\ last \in DOMAIN history /\ history[last].step.kind \in {"check", "verify"}
      /\ history[last].step.item = item
    BY <1>2, <1>6, CommandIsName DEF Runs
<1>8. ~Calls(last, item)
    <2>1. \A d \in LocalChecks : LOCAL_CHECKS[d].id = item =>
             history[last].reading \notin LOCAL_CHECKS[d].finds
        BY <1>2, <1>5 DEF ReadFaults, Latest
    <2>. QED  BY <2>1 DEF Calls
<1>. HIDE DEF last, runs
<1>9. history[last].step.kind = "verify"
    <2>. SUFFICES ASSUME history[last].step.kind = "check" PROVE FALSE
        BY <1>7
    <2>1. history[last].step = history[j].step
        BY <1>3, <1>4, <1>7, HistorySteps DEF BrainStep
    <2>2. last = j  BY <1>3, <1>7, <2>1, OnceInHistory DEF OneTime
    <2>. QED  BY <1>3, <1>8, <2>2
<1>10. i < last
    <2>1. PICK k \in DOMAIN history : k < last /\ history[k].step = Step("fix", item)
        BY <1>7, <1>9, RecheckFollows
    <2>2. history[i].step = Step("fix", item)
        BY HistorySteps DEF BrainStep, Step, item
    <2>. QED  BY <2>1, <2>2, OnceInHistory DEF OneTime
<1>11. history[last].outcome \in {"success", "failed"}
    BY <1>7, <1>9, HistorySteps DEF ChecksAgain
<1>. QED
    BY <1>2, <1>6, <1>7, <1>8, <1>9, <1>10, <1>11, HistorySteps
       DEF Confirms, Confirming, runs, item

-----------------------------------------------------------------------------
(***************************************************************************)
(* What the brain may propose, with nothing of its last batch left.        *)
(***************************************************************************)
TriedBefore(item) ==
    IF ticket.local THEN Attempted("fix", item)
    ELSE /\ Attempted("check", item)
         /\ \A f \in DOMAIN Fixes : Attempted("fix", Fixes[f].command)

RequestsDone == \A a \in Requested : Attempted("request", REQUESTED_ACTIONS[a])

ProperSteps(steps) ==
    /\ steps \in Seq(BrainStep) /\ Len(steps) <= 3
    /\ \A m \in 1..Len(steps) :
          /\ Known(steps[m])
          /\ steps[m].kind \in OneTime =>
                /\ ~Attempted(steps[m].kind, steps[m].item)
                /\ \A k \in 1..Len(steps) : steps[k] = steps[m] => k = m
          /\ steps[m].kind = "fix" => RequestsDone /\ CalledFor(steps[m].item)
          /\ steps[m].kind = "verify" => Len(steps) = 1 /\ TriedBefore(steps[m].item)

Proper(p) ==
    ProperSteps(p.steps) /\ p.resolved \in BOOLEAN /\ (p.resolved => Confirmed)

LEMMA ProposeProper == ASSUME NEW steps, ProperSteps(steps) PROVE Proper(Propose(steps))
  BY DEF Proper, Propose

LEMMA HandOverProper == Proper(HandOver)
<1>1. ProperSteps(<<>>)  BY DEF ProperSteps
<1>. QED  BY <1>1 DEF Proper, HandOver

LEMMA ConcludeProper == ASSUME Confirmed PROVE Proper(Conclude)
<1>1. ProperSteps(<<>>)  BY DEF ProperSteps
<1>. QED  BY <1>1 DEF Proper, Conclude

LEMMA StepFields ==
    ASSUME NEW kind, NEW item
    PROVE  Step(kind, item).kind = kind /\ Step(kind, item).item = item
  BY DEF Step

LEMMA OneStepProper ==
    ASSUME NEW step \in BrainStep, Known(step),
           step.kind \in OneTime => ~Attempted(step.kind, step.item),
           step.kind = "fix" => RequestsDone /\ CalledFor(step.item),
           step.kind = "verify" => TriedBefore(step.item)
    PROVE  Proper(Propose(<<step>>))
<1>. DEFINE steps == <<step>>
<1>1. Len(steps) = 1 /\ steps \in Seq(BrainStep) /\ steps[1] = step  OBVIOUS
<1>. HIDE DEF steps
<1>2. \A m \in 1..Len(steps) : m = 1 /\ steps[m] = step  BY <1>1
<1>3. ProperSteps(steps)  BY <1>1, <1>2 DEF ProperSteps
<1>. QED  BY <1>3, ProposeProper DEF steps

\* A batch of requests, or of checks, none of them in the history.
LEMMA BatchProper ==
    ASSUME NEW S \in SUBSET Nat, S # {}, NEW kind \in {"request", "check"},
           NEW name,
           \A c \in S : /\ Step(kind, name[c]) \in BrainStep
                        /\ Known(Step(kind, name[c]))
                        /\ ~Attempted(kind, name[c]),
           \A c, d \in S : name[c] = name[d] => c = d
    PROVE  LET next == FirstThree(S)
           IN  Proper(Propose([i \in DOMAIN next |-> Step(kind, name[next[i]])]))
<1>. DEFINE next == FirstThree(S)
            steps == [i \in DOMAIN next |-> Step(kind, name[next[i]])]
<1>1. /\ next \in Seq(S) /\ Len(next) \in 1..3
      /\ \A m, k \in 1..Len(next) : next[m] = next[k] => m = k
    BY FirstThreeListed
<1>. HIDE DEF next
<1>2. /\ Len(next) \in Nat /\ DOMAIN next = 1..Len(next)
      /\ \A m \in 1..Len(next) : next[m] \in S
    BY <1>1
<1>3. /\ steps \in Seq(BrainStep) /\ Len(steps) = Len(next)
      /\ \A m \in 1..Len(next) : steps[m] = Step(kind, name[next[m]])
    <2>1. \A m \in 1..Len(next) : Step(kind, name[next[m]]) \in BrainStep  BY <1>2
    <2>2. steps \in [1..Len(next) -> BrainStep]  BY <1>2, <2>1
    <2>. QED  BY <1>2, <2>2
<1>. HIDE DEF steps
<1>4. \A m \in 1..Len(next) : steps[m].kind = kind /\ steps[m].item = name[next[m]]
    BY <1>3, StepFields
<1>5. \A m \in 1..Len(next) : Known(steps[m]) /\ ~Attempted(kind, name[next[m]])
    BY <1>2, <1>3
<1>6. \A m, k \in 1..Len(next) : steps[k] = steps[m] => k = m
    <2>. SUFFICES ASSUME NEW m \in 1..Len(next), NEW k \in 1..Len(next), steps[k] = steps[m]
                  PROVE  k = m
        OBVIOUS
    <2>1. name[next[k]] = name[next[m]]  BY <1>4
    <2>. QED  BY <1>1, <1>2, <2>1
<1>7. ProperSteps(steps)
    BY <1>1, <1>3, <1>4, <1>5, <1>6 DEF ProperSteps
<1>. QED  BY <1>7, ProposeProper DEF steps, next

LEMMA StepTyped ==
    ASSUME NEW kind \in StepKinds, NEW item \in Items
    PROVE  Step(kind, item) \in BrainStep
  BY DEF Step, BrainStep

\* The order of the steps so far, which the next proposal relies on.
Orderly ==
    TypeOK /\ FromTheTables /\ Once /\ InOrder /\ ChecksAgain /\ FixFollowsItsFault

LEMMA KnownLocally ==
    ASSUME ticket.local, ticket.platform # "unknown", NEW c \in LocalChecks,
           NEW step, step.item = LOCAL_CHECKS[c].id,
           \/ step.kind = "check"
           \/ /\ step.kind \in {"fix", "verify"}
              /\ HasFix(LOCAL_CHECKS[c], ticket.platform, ticket.tools)
    PROVE  Known(step)
  BY DEF Known

LEMMA LocalProper ==
    ASSUME Orderly, ticket.local, ticket.platform # "unknown", RequestsDone
    PROVE  Proper(ProposeLocal)
<1>. DEFINE toCheck == {c \in LocalChecks : ~Attempted("check", LOCAL_CHECKS[c].id)}
            next == FirstThree(toCheck)
            fixable == {c \in ReadFaults :
                          HasFix(LOCAL_CHECKS[c], ticket.platform, ticket.tools)}
            toFix == {c \in fixable : ~Attempted("fix", LOCAL_CHECKS[c].id)}
            verified == Cardinality({i \in DOMAIN history : history[i].step.kind = "verify"})
            toVerify == {c \in fixable : Cardinality({d \in fixable : d < c}) = verified}
<1>1. /\ LocalChecks \in SUBSET Nat /\ ReadFaults \subseteq LocalChecks
      /\ \A c \in LocalChecks : /\ c \in 1..16
                                /\ LOCAL_CHECKS[c].id \in Items
    <2>1. LocalChecks \in SUBSET (1..16)  BY TablesOfTicket DEF Orderly
    <2>2. {LOCAL_CHECKS[c].id : c \in DOMAIN LOCAL_CHECKS} \subseteq Items  BY DEF Items
    <2>. QED  BY <2>1, <2>2, IdentitiesDiffer DEF ReadFaults
<1>2. \A c \in LocalChecks : Known(Step("check", LOCAL_CHECKS[c].id))
    BY KnownLocally, StepFields
<1>3. \A c \in fixable : /\ Known(Step("fix", LOCAL_CHECKS[c].id))
                         /\ Known(Step("verify", LOCAL_CHECKS[c].id))
    BY <1>1, KnownLocally, StepFields
<1>4. ProposeLocal =
         IF LocalChecks = {} THEN HandOver
         ELSE IF toCheck # {}
              THEN Propose([i \in DOMAIN next |-> Step("check", LOCAL_CHECKS[next[i]].id)])
         ELSE IF Incomplete # {} THEN HandOver
         ELSE IF ReadFaults = {} THEN Conclude
         ELSE IF toFix # {} THEN Propose(<<Step("fix", LOCAL_CHECKS[Min(toFix)].id)>>)
         ELSE IF toVerify # {}
              THEN Propose(<<Step("verify", LOCAL_CHECKS[Min(toVerify)].id)>>)
         ELSE HandOver
    BY DEF ProposeLocal
<1>. HIDE DEF verified
<1>5. toCheck # {} =>
         Proper(Propose([i \in DOMAIN next |-> Step("check", LOCAL_CHECKS[next[i]].id)]))
    <2>. SUFFICES ASSUME toCheck # {}
                  PROVE  Proper(Propose([i \in DOMAIN next |->
                                           Step("check", LOCAL_CHECKS[next[i]].id)]))
        OBVIOUS
    <2>. DEFINE name == [c \in toCheck |-> LOCAL_CHECKS[c].id]
    <2>1. \A c \in toCheck : /\ name[c] = LOCAL_CHECKS[c].id
                             /\ Step("check", name[c]) \in BrainStep
                             /\ Known(Step("check", name[c]))
                             /\ ~Attempted("check", name[c])
        BY <1>1, <1>2, StepTyped DEF StepKinds
    <2>2. \A c, d \in toCheck : name[c] = name[d] => c = d
        BY <1>1, IdentitiesDiffer
    <2>3. toCheck \in SUBSET Nat  BY <1>1
    <2>. HIDE DEF toCheck, name
    <2>4. Proper(Propose([i \in DOMAIN next |-> Step("check", name[next[i]])]))
        BY <2>1, <2>2, <2>3, BatchProper
    <2>5. next \in Seq(toCheck)  BY <2>3, FirstThreeListed
    <2>. HIDE DEF next
    <2>6. [i \in DOMAIN next |-> Step("check", name[next[i]])] =
             [i \in DOMAIN next |-> Step("check", LOCAL_CHECKS[next[i]].id)]
        BY <2>1, <2>5
    <2>. QED  BY <2>4, <2>6
<1>6. ReadFaults = {} => Proper(Conclude)
    BY LocalConfirmed, ConcludeProper DEF Orderly
<1>7. toFix # {} => Proper(Propose(<<Step("fix", LOCAL_CHECKS[Min(toFix)].id)>>))
    <2>. SUFFICES ASSUME toFix # {}
                  PROVE  Proper(Propose(<<Step("fix", LOCAL_CHECKS[Min(toFix)].id)>>))
        OBVIOUS
    <2>1. toFix \in SUBSET Nat  BY <1>1
    <2>. DEFINE c == Min(toFix)  step == Step("fix", LOCAL_CHECKS[c].id)
    <2>2. c \in toFix
        <3>. HIDE DEF toFix
        <3>. QED  BY <2>1, LeastOf
    <2>. HIDE DEF c
    <2>3. CalledFor(LOCAL_CHECKS[c].id)
        BY <2>2, LocalFixCalledFor DEF Orderly
    <2>4. /\ step \in BrainStep /\ Known(step)
          /\ step.kind = "fix" /\ step.item = LOCAL_CHECKS[c].id
          /\ ~Attempted("fix", LOCAL_CHECKS[c].id)
        BY <1>1, <1>3, <2>2, StepTyped, StepFields DEF StepKinds
    <2>. HIDE DEF step
    <2>5. Proper(Propose(<<step>>))
        BY <2>3, <2>4, OneStepProper
    <2>. QED  BY <2>5 DEF step, c
<1>8. toFix = {} /\ toVerify # {} =>
         Proper(Propose(<<Step("verify", LOCAL_CHECKS[Min(toVerify)].id)>>))
    <2>. SUFFICES ASSUME toFix = {}, toVerify # {}
                  PROVE  Proper(Propose(<<Step("verify", LOCAL_CHECKS[Min(toVerify)].id)>>))
        OBVIOUS
    <2>1. toVerify \in SUBSET Nat  BY <1>1
    <2>. DEFINE c == Min(toVerify)  step == Step("verify", LOCAL_CHECKS[c].id)
    <2>2. c \in toVerify
        <3>. HIDE DEF toVerify
        <3>. QED  BY <2>1, LeastOf
    <2>. HIDE DEF c
    <2>3. TriedBefore(LOCAL_CHECKS[c].id)
        BY <2>2 DEF TriedBefore
    <2>4. /\ step \in BrainStep /\ Known(step)
          /\ step.kind = "verify" /\ step.item = LOCAL_CHECKS[c].id
        BY <1>1, <1>3, <2>2, StepTyped, StepFields DEF StepKinds
    <2>. HIDE DEF step
    <2>5. Proper(Propose(<<step>>))
        BY <2>3, <2>4, OneStepProper DEF OneTime
    <2>. QED  BY <2>5 DEF step, c
<1>. HIDE DEF toCheck, next, fixable, toFix, toVerify
<1>. QED  BY <1>4, <1>5, <1>6, <1>7, <1>8, HandOverProper

LEMMA KnownInPlaybook ==
    ASSUME ~ticket.local, ticket.platform # "unknown", NEW step,
           \/ /\ step.kind \in {"check", "verify"}
              /\ \E d \in DOMAIN Diagnostics :
                    /\ step.item = Diagnostics[d].command
                    /\ step.kind = "verify" => d \in Verifiers
           \/ step.kind = "fix" /\ \E f \in DOMAIN Fixes : step.item = Fixes[f].command
    PROVE  Known(step)
  BY DEF Known

LEMMA PlaybookProper ==
    ASSUME Orderly, ~(ticket.local /\ ticket.platform # "unknown"), RequestsDone,
           executed < StepBudget
    PROVE  Proper(ProposeFromPlaybook)
<1>. DEFINE toCheck == {i \in DOMAIN Diagnostics : ~Attempted("check", Diagnostics[i].command)}
            toFix   == {i \in DOMAIN Fixes : ~Attempted("fix", Fixes[i].command)}
            shot    == Step("shot", "screen")
            check   == Step("check", Diagnostics[Min(toCheck)].command)
            fix     == Step("fix", Fixes[Min(toFix)].command)
            again   == Step("verify", Diagnostics[Min(Verifiers)].command)
            known   == Playbook.id # "none" /\ ticket.platform # "unknown"
<1>1. ProposeFromPlaybook =
         IF ~known THEN HandOver
         ELSE IF /\ Playbook.category \in VisualCategories
                 /\ ticket.canCapture
                 /\ ~Attempted("shot", "screen")
              THEN Propose(<<shot>>)
         ELSE IF toCheck # {} THEN Propose(<<check>>)
         ELSE IF ~FaultFound \/ Fixes = <<>> THEN HandOver
         ELSE IF toFix = {} THEN Verify
         ELSE IF Fixes[Min(toFix)].kind = "ui_action" /\ ~ticket.canControl THEN HandOver
         ELSE Propose(<<fix>>)
    BY DEF ProposeFromPlaybook
<1>2. /\ DOMAIN Diagnostics \in SUBSET Nat /\ DOMAIN Fixes \in SUBSET Nat
      /\ Verifiers \subseteq DOMAIN Diagnostics
    BY TablesOfTicket DEF Orderly, Looked, Mended, Verifiers
<1>3. /\ \A d \in DOMAIN Diagnostics : Diagnostics[d].command \in Items
      /\ \A f \in DOMAIN Fixes : Fixes[f].command \in Items
    <2>1. /\ {Diagnostics[d].command : d \in DOMAIN Diagnostics} \subseteq Items
          /\ {Fixes[f].command : f \in DOMAIN Fixes} \subseteq Items
        BY DEF Items
    <2>. QED  BY <2>1
<1>4. Proper(Propose(<<shot>>))
    <2>1. /\ shot \in BrainStep /\ shot.kind = "shot" /\ shot.item = "screen"
        BY StepTyped, StepFields DEF StepKinds, Items
    <2>2. Known(shot)  BY <2>1 DEF Known
    <2>. HIDE DEF shot
    <2>. QED  BY <2>1, <2>2, OneStepProper DEF OneTime
<1>5. known /\ toCheck # {} => Proper(Propose(<<check>>))
    <2>. SUFFICES ASSUME known, toCheck # {} PROVE Proper(Propose(<<check>>))  OBVIOUS
    <2>1. Min(toCheck) \in toCheck
        <3>1. toCheck \in SUBSET Nat  BY <1>2
        <3>. HIDE DEF toCheck
        <3>. QED  BY <3>1, LeastOf
    <2>2. /\ check \in BrainStep /\ check.kind = "check"
          /\ check.item = Diagnostics[Min(toCheck)].command
          /\ ~Attempted("check", check.item)
        BY <1>3, <2>1, StepTyped, StepFields DEF StepKinds
    <2>3. Known(check)
        <3>. HIDE DEF check
        <3>. QED  BY <2>1, <2>2, KnownInPlaybook
    <2>. HIDE DEF check, toCheck
    <2>. QED  BY <2>2, <2>3, OneStepProper
<1>6. known /\ FaultFound /\ toFix # {} => Proper(Propose(<<fix>>))
    <2>. SUFFICES ASSUME known, FaultFound, toFix # {} PROVE Proper(Propose(<<fix>>))
        OBVIOUS
    <2>1. Min(toFix) \in toFix
        <3>1. toFix \in SUBSET Nat  BY <1>2
        <3>. HIDE DEF toFix
        <3>. QED  BY <3>1, LeastOf
    <2>2. /\ fix \in BrainStep /\ fix.kind = "fix"
          /\ fix.item = Fixes[Min(toFix)].command
          /\ ~Attempted("fix", fix.item)
        BY <1>3, <2>1, StepTyped, StepFields DEF StepKinds
    <2>. HIDE DEF fix
    <2>3. Known(fix)  BY <2>1, <2>2, KnownInPlaybook
    <2>4. CalledFor(fix.item)  BY PlaybookFixCalledFor DEF Orderly
    <2>. QED  BY <2>2, <2>3, <2>4, OneStepProper
<1>7. known /\ toCheck = {} /\ FaultFound /\ toFix = {} => Proper(Verify)
    <2>. SUFFICES ASSUME known, toCheck = {}, FaultFound, toFix = {} PROVE Proper(Verify)
        OBVIOUS
    <2>1. Verifiers # {} /\ ~ticket.local  BY DEF FaultFound
    <2>2. Min(Verifiers) \in Verifiers  BY <1>2, <2>1, LeastOf
    <2>3. /\ again \in BrainStep /\ again.kind = "verify"
          /\ again.item = Diagnostics[Min(Verifiers)].command
        BY <1>2, <1>3, <2>2, StepTyped, StepFields DEF StepKinds
    <2>4. Attempted("check", Diagnostics[Min(Verifiers)].command)
        BY <1>2, <2>2
    <2>5. \A f \in DOMAIN Fixes : Attempted("fix", Fixes[f].command)  OBVIOUS
    <2>. HIDE DEF again, toCheck, toFix
    <2>6. Proper(Propose(<<again>>))
        <3>1. Known(again)  BY <1>2, <2>1, <2>2, <2>3, KnownInPlaybook
        <3>2. TriedBefore(again.item)  BY <2>1, <2>3, <2>4, <2>5 DEF TriedBefore
        <3>. QED  BY <2>3, <3>1, <3>2, OneStepProper DEF OneTime
    <2>7. Verify \in {Propose(<<again>>), HandOver, Conclude}
        BY <2>1 DEF Verify, again
    <2>8. Verify = Conclude => Proper(Verify)
        BY <2>1, PlaybookConfirmed, ConcludeProper DEF Orderly
    <2>. QED  BY <2>6, <2>7, <2>8, HandOverProper
<1>. HIDE DEF toCheck, toFix, shot, check, fix, known
<1>. QED  BY <1>1, <1>4, <1>5, <1>6, <1>7, HandOverProper

LEMMA ProposalProper ==
    ASSUME Orderly, executed < StepBudget
    PROVE  Proper(Proposal)
<1>. DEFINE asked == {a \in Requested : ~Attempted("request", REQUESTED_ACTIONS[a])}
            next == FirstThree(asked)
            question == Step("ask", "detail")
<1>1. Proposal =
         IF asked # {}
         THEN Propose([i \in DOMAIN next |-> Step("request", REQUESTED_ACTIONS[next[i]])])
         ELSE IF WorthAsking THEN Propose(<<question>>)
         ELSE IF ticket.local /\ ticket.platform # "unknown" THEN ProposeLocal
         ELSE ProposeFromPlaybook
    BY DEF Proposal, Requested
<1>2. asked # {} =>
         Proper(Propose([i \in DOMAIN next |-> Step("request", REQUESTED_ACTIONS[next[i]])]))
    <2>1. asked \in SUBSET Nat /\ asked \subseteq 1..9
        BY TablesOfTicket DEF Orderly
    <2>2. \A a \in asked : /\ Step("request", REQUESTED_ACTIONS[a]) \in BrainStep
                           /\ ~Attempted("request", REQUESTED_ACTIONS[a])
        <3>1. {REQUESTED_ACTIONS[a] : a \in DOMAIN REQUESTED_ACTIONS} \subseteq Items
            BY DEF Items
        <3>. QED  BY <2>1, <3>1, RequestsDiffer, StepTyped DEF StepKinds
    <2>3. \A a \in asked : Known(Step("request", REQUESTED_ACTIONS[a]))
        <3>1. ASSUME NEW step, NEW a \in asked, step.kind = "request",
                     step.item = REQUESTED_ACTIONS[a]
              PROVE  Known(step)
            BY <3>1 DEF Known
        <3>. QED  BY <3>1, StepFields
    <2>4. \A a, b \in asked : REQUESTED_ACTIONS[a] = REQUESTED_ACTIONS[b] => a = b
        BY <2>1, RequestsDiffer
    <2>. HIDE DEF asked
    <2>. QED  BY <2>1, <2>2, <2>3, <2>4, BatchProper
<1>3. Proper(Propose(<<question>>))
    <2>1. question \in BrainStep /\ question.kind = "ask" /\ question.item = "detail"
        BY StepTyped, StepFields DEF StepKinds, Items
    <2>. HIDE DEF question
    <2>2. Known(question)  BY <2>1 DEF Known
    <2>. QED  BY <2>1, <2>2, OneStepProper DEF OneTime
<1>4. asked = {} => RequestsDone
    BY DEF RequestsDone
<1>. HIDE DEF asked, next, question
<1>. QED  BY <1>1, <1>2, <1>3, <1>4, LocalProper, PlaybookProper

-----------------------------------------------------------------------------
(***************************************************************************)
(* What the steps of the run leave as it was.                              *)
(***************************************************************************)
LEMMA SameTables ==
    ASSUME ticket' = ticket
    PROVE  /\ Requested' = Requested /\ LocalChecks' = LocalChecks
           /\ Diagnostics' = Diagnostics /\ Fixes' = Fixes /\ Verifiers' = Verifiers
           /\ Items' = Items /\ BrainStep' = BrainStep
<1>1. Playbook' = Playbook  BY DEF Playbook
<1>2. Diagnostics' = Diagnostics /\ Fixes' = Fixes  BY <1>1 DEF Diagnostics, Fixes
<1>3. LocalChecks' = LocalChecks  BY <1>1 DEF LocalChecks, Category
<1>4. Requested' = Requested  BY DEF Requested
<1>5. Verifiers' = Verifiers  BY <1>2 DEF Verifiers
<1>6. Items' = Items  BY <1>2 DEF Items
<1>7. BrainStep' = BrainStep  BY <1>6 DEF BrainStep
<1>. QED  BY <1>1, <1>2, <1>3, <1>4, <1>5, <1>6, <1>7

LEMMA SameKnown ==
    ASSUME ticket' = ticket, NEW i, Known(StepAt(i)), StepAt(i)' = StepAt(i)
    PROVE  Known(StepAt(i))'
  BY SameTables DEF Known

\* The step to deal with next.
LEMMA HeadIsNext ==
    ASSUME TypeOK, batch # <<>>
    PROVE  /\ Len(history) + 1 \in Steps /\ StepAt(Len(history) + 1) = Head(batch)
           /\ Head(batch) \in BrainStep
           /\ \A i \in Steps : i <= Len(history) => i \in DOMAIN history
<1>1. batch \in Seq(BrainStep) /\ Len(history) \in Nat /\ DOMAIN history = 1..Len(history)
    BY HistorySteps DEF TypeOK
<1>2. Len(batch) \in Nat /\ Len(batch) > 0 /\ Head(batch) = batch[1] /\ batch[1] \in BrainStep
    BY <1>1
<1>. QED  BY <1>1, <1>2 DEF Steps, StepAt

\* A result is added: the steps stay what they were, one more of them is done.
LEMMA RecordShape ==
    ASSUME TypeOK, batch # <<>>, NEW outcome \in Outcomes, NEW reading \in Readings,
           Record(outcome, reading)
    PROVE  /\ history' \in Seq([step: BrainStep, outcome: Outcomes, reading: Readings])
           /\ batch' \in Seq(BrainStep) /\ Len(batch') = Len(batch) - 1
           /\ Len(history') = Len(history) + 1 /\ DOMAIN history' = 1..(Len(history) + 1)
           /\ \A i \in DOMAIN history : history'[i] = history[i]
           /\ history'[Len(history) + 1] =
                 [step |-> Head(batch), outcome |-> outcome, reading |-> reading]
           /\ Steps' = Steps /\ \A i \in Steps : StepAt(i)' = StepAt(i)
<1>. DEFINE Result == [step: BrainStep, outcome: Outcomes, reading: Readings]
            result == [step |-> Head(batch), outcome |-> outcome, reading |-> reading]
<1>1. /\ history \in Seq(Result) /\ batch \in Seq(BrainStep)
      /\ history' = Append(history, result) /\ batch' = Tail(batch)
    BY DEF TypeOK, Record
<1>2. result \in Result /\ result.step = Head(batch)  BY HeadIsNext
<1>. HIDE DEF Result, result
<1>3. /\ history' \in Seq(Result) /\ Len(history) \in Nat
      /\ Len(history') = Len(history) + 1 /\ DOMAIN history' = 1..(Len(history) + 1)
      /\ DOMAIN history = 1..Len(history)
      /\ \A i \in DOMAIN history : history'[i] = history[i]
      /\ history'[Len(history) + 1] = result
    BY <1>1, <1>2
<1>4. /\ batch' \in Seq(BrainStep) /\ Len(batch) \in Nat /\ Len(batch) > 0
      /\ Len(batch') = Len(batch) - 1
      /\ \A i \in 1..(Len(batch) - 1) : batch'[i] = batch[i + 1]
    BY <1>1
<1>5. Steps' = Steps
    BY <1>3, <1>4 DEF Steps
<1>6. \A i \in Steps : StepAt(i)' = StepAt(i)
    <2>1. SUFFICES ASSUME NEW i \in Steps PROVE StepAt(i)' = StepAt(i)  OBVIOUS
    <2>2. i \in 1..(Len(history) + Len(batch))  BY DEF Steps
    <2>3. CASE i <= Len(history)
        BY <1>3, <2>2, <2>3 DEF StepAt
    <2>4. CASE i = Len(history) + 1
        BY <1>2, <1>3, <2>4, HeadIsNext DEF StepAt
    <2>5. CASE i > Len(history) + 1
        <3>1. i - Len(history') \in 1..(Len(batch) - 1)  BY <1>3, <1>4, <2>2, <2>5
        <3>2. batch'[i - Len(history')] = batch[i - Len(history)]  BY <1>3, <1>4, <2>2, <3>1
        <3>. QED  BY <1>3, <2>2, <2>5, <3>2 DEF StepAt
    <2>. QED  BY <1>3, <2>2, <2>3, <2>4, <2>5
<1>. QED  BY <1>3, <1>4, <1>5, <1>6 DEF Result, result

LEMMA RecordKeepsOrder ==
    ASSUME IInv, batch # <<>>, NEW outcome \in Outcomes, NEW reading \in Readings,
           Record(outcome, reading)
    PROVE  FromTheTables' /\ Once' /\ InOrder' /\ FixFollowsItsFault'
<1>1. /\ ticket' = ticket /\ Steps' = Steps /\ \A i \in Steps : StepAt(i)' = StepAt(i)
      /\ DOMAIN history \subseteq DOMAIN history'
      /\ \A i \in DOMAIN history : history'[i] = history[i]
    BY RecordShape, HistorySteps DEF IInv, Record
<1>2. FromTheTables'
    BY <1>1, SameKnown DEF IInv, FromTheTables
<1>3. Once'
    BY <1>1 DEF IInv, Once
<1>4. InOrder'
    BY <1>1, SameTables DEF IInv, InOrder, Precedes
<1>5. FixFollowsItsFault'
    <2>. SUFFICES ASSUME NEW i \in Steps, StepAt(i).kind = "fix"
                  PROVE  \E j \in DOMAIN history' : /\ j < i
                                                    /\ history'[j].step.kind = "check"
                                                    /\ Calls(j, StepAt(i).item)'
        BY <1>1 DEF FixFollowsItsFault
    <2>1. PICK j \in DOMAIN history : /\ j < i /\ history[j].step.kind = "check"
                                      /\ Calls(j, StepAt(i).item)
        BY DEF IInv, FixFollowsItsFault
    <2>2. Calls(j, StepAt(i).item)'
        BY <1>1, <2>1, SameTables DEF Calls
    <2>. QED  BY <1>1, <2>1, <2>2
<1>. QED  BY <1>2, <1>3, <1>4, <1>5

-----------------------------------------------------------------------------
(***************************************************************************)
(* What every action that deals with the step at the head has in common.   *)
(***************************************************************************)
DealtWith(outcome, reading) ==
    /\ batch # <<>> /\ Record(outcome, reading)
    /\ faults' \subseteq Items
    /\ executed' \in 0..StepBudget /\ mishaps' \in 0..MaxMishaps
    /\ {halted', frozen', human'} \subseteq BOOLEAN
    /\ halted => halted'
    /\ frozen => frozen'
    /\ human => human'
    /\ halted' => frozen' \/ human'
    /\ Head(batch).kind = "verify" => outcome \in {"success", "failed"}
    /\ Head(batch).kind = "request" /\ HardStop(Head(batch).item) =>
          outcome # "success" /\ (frozen' \/ (halted' /\ human'))
    /\ Head(batch).kind = "fix" /\ outcome = "success" => ~halted /\ ~frozen

LEMMA SkipDealsWith ==
    ASSUME IInv, Skip
    PROVE  \E outcome \in Outcomes, reading \in Readings : DealtWith(outcome, reading)
<1>1. PICK outcome \in {"blocked", "skipped"} : Record(outcome, "none")
    BY DEF Skip
<1>2. Head(batch).kind # "verify"
    <2>1. SUFFICES ASSUME Head(batch).kind = "verify" PROVE FALSE  OBVIOUS
    <2>2. ~halted
        BY <2>1, HeadIsNext, HistorySteps DEF Skip, IInv, ChecksAgain
    <2>. QED  BY <2>1, <2>2 DEF Skip, SetAside, Mutates
<1>3. halted \/ frozen  BY DEF Skip, SetAside
<1>4. DealtWith(outcome, "none")
    BY <1>1, <1>2, <1>3 DEF Skip, DealtWith, IInv, TypeOK, Stops
<1>. QED  BY <1>1, <1>4 DEF Outcomes, Readings

LEMMA BudgetSpent ==
    ASSUME TypeOK, Attempt
    PROVE  /\ batch # <<>> /\ ~halted /\ (Mutates(Head(batch)) => ~frozen)
           /\ executed' \in 0..StepBudget
  BY BudgetAssumption DEF TypeOK, Attempt, SetAside

LEMMA VerifyIsAllowed ==
    ASSUME IInv, batch # <<>>, Head(batch).kind = "verify"
    PROVE  Judged(Head(batch)).decision = "allow"
<1>1. Known(Head(batch))  BY HeadIsNext DEF IInv, FromTheTables
<1>. QED  BY <1>1, ChecksAllowed DEF IInv

LEMMA RefuseDealsWith ==
    ASSUME IInv, Refuse
    PROVE  DealtWith("blocked", "none")
<1>1. Head(batch).kind # "verify"
    BY VerifyIsAllowed, BudgetSpent DEF Refuse, IInv
<1>2. Head(batch).kind = "request" /\ HardStop(Head(batch).item) => frozen'
    BY HardStopsBlocked DEF Refuse
<1>3. halted' \in BOOLEAN /\ frozen' \in BOOLEAN  BY DEF Refuse
<1>. QED
    BY <1>1, <1>2, <1>3, BudgetSpent DEF Refuse, DealtWith, IInv, TypeOK, Stops

LEMMA DeclineDealsWith ==
    ASSUME IInv, Decline
    PROVE  DealtWith("awaiting_approval", "none")
<1>1. Head(batch).kind # "verify"
    BY VerifyIsAllowed, BudgetSpent DEF Decline, IInv
<1>. QED  BY <1>1, BudgetSpent DEF Decline, Hold, DealtWith, IInv, TypeOK, Stops

LEMMA AskDealsWith ==
    ASSUME IInv, Ask
    PROVE  \E outcome \in Outcomes : DealtWith(outcome, "none")
<1>1. CASE Record("success", "none") /\ GoesOn /\ UNCHANGED <<faults, mishaps>>
    <2>1. DealtWith("success", "none")
        BY <1>1, BudgetSpent DEF Ask, GoesOn, DealtWith, IInv, TypeOK, Stops
    <2>. QED  BY <2>1 DEF Outcomes
<1>2. CASE Hold("awaiting_user")
    <2>1. DealtWith("awaiting_user", "none")
        BY <1>2, BudgetSpent DEF Ask, Hold, DealtWith, IInv, TypeOK, Stops
    <2>. QED  BY <2>1 DEF Outcomes
<1>. QED  BY <1>1, <1>2 DEF Ask

LEMMA CaptureDealsWith ==
    ASSUME IInv, Capture
    PROVE  DealtWith("success", "none")
  BY BudgetSpent DEF Capture, GoesOn, DealtWith, IInv, TypeOK, Stops

LEMMA ObserveDealsWith ==
    ASSUME IInv, Observe
    PROVE  \E outcome \in Outcomes, reading \in Readings : DealtWith(outcome, reading)
<1>1. PICK reading \in Mishap(ticket.session) \cup {"seen"} :
         LET known == IF Head(batch).item \in faults THEN FaultReading(Head(batch).item)
                      ELSE "clean"
             result == IF reading = "seen" THEN known ELSE reading
         IN  /\ reading # "seen" => mishaps < MaxMishaps
             /\ mishaps' = mishaps + (IF reading = "seen" THEN 0 ELSE 1)
             /\ Record(IF result \in {"error", "threw"} THEN "failed" ELSE "success", result)
    BY DEF Observe
<1>. DEFINE known == IF Head(batch).item \in faults THEN FaultReading(Head(batch).item)
                     ELSE "clean"
            result == IF reading = "seen" THEN known ELSE reading
            outcome == IF result \in {"error", "threw"} THEN "failed" ELSE "success"
<1>2. ticket.session \in {"simulated", "local", "remote", "bridge"}
    BY TablesOfTicket DEF IInv, Ticket
<1>3. reading \in {"error", "cut", "threw", "seen"}  BY <1>2 DEF Mishap
<1>4. result \in Readings /\ outcome \in {"success", "failed"}
    BY <1>3 DEF FaultReading, Readings
<1>5. mishaps' \in 0..MaxMishaps
    BY <1>1, BudgetAssumption DEF IInv, TypeOK
<1>6. Record(outcome, result)  BY <1>1
<1>. HIDE DEF outcome, result
<1>7. DealtWith(outcome, result)
    BY <1>4, <1>5, <1>6, BudgetSpent DEF Observe, GoesOn, DealtWith, IInv, TypeOK, Stops
<1>. QED  BY <1>4, <1>7 DEF Outcomes

LEMMA ChangeDealsWith ==
    ASSUME IInv, Change
    PROVE  \E outcome \in Outcomes : DealtWith(outcome, "none")
<1>1. ~(Head(batch).kind = "request" /\ HardStop(Head(batch).item))
    BY HardStopsBlocked DEF Change, Cleared
<1>2. Head(batch).kind \in {"request", "fix"} /\ ~frozen
    BY BudgetSpent DEF Change, Mutates, IInv
<1>3. PICK outcome \in {"success", "failed"} :
         Record(outcome, "none") /\ faults' \subseteq faults /\ mishaps' \in 0..MaxMishaps
    <2>1. mishaps \in 0..MaxMishaps /\ MaxMishaps \in Nat
        BY BudgetAssumption DEF IInv, TypeOK
    <2>. QED  BY <2>1 DEF Change
<1>4. DealtWith(outcome, "none")
    BY <1>1, <1>2, <1>3, BudgetSpent DEF Change, GoesOn, DealtWith, IInv, TypeOK, Stops
<1>. QED  BY <1>4 DEF Outcomes

LEMMA DealtWithKeeps ==
    ASSUME IInv, NEW outcome \in Outcomes, NEW reading \in Readings,
           DealtWith(outcome, reading)
    PROVE  IInv'
<1>. DEFINE n == Len(history)
<1>1. TypeOK /\ batch # <<>> /\ Record(outcome, reading)
    BY DEF IInv, DealtWith
<1>2. resolved = FALSE /\ reply = "none"
    BY <1>1 DEF IInv, Over, TypeOK
<1>3. resolved' = FALSE /\ reply' = "none" /\ ticket' = ticket
    BY <1>1, <1>2 DEF Record
<1>4. FromTheTables' /\ Once' /\ InOrder' /\ FixFollowsItsFault'
    BY <1>1, RecordKeepsOrder
<1>5. TypeOK'
    <2>1. history' \in Seq([step: BrainStep', outcome: Outcomes, reading: Readings])
        BY <1>1, <1>3, RecordShape, SameTables
    <2>2. batch' \in Seq(BrainStep') /\ Len(batch') <= 3
        <3>1. Len(batch) \in Nat /\ Len(batch) <= 3  BY <1>1 DEF TypeOK
        <3>2. batch' \in Seq(BrainStep) /\ Len(batch') = Len(batch) - 1
            BY <1>1, RecordShape
        <3>3. BrainStep' = BrainStep  BY <1>3, SameTables
        <3>. QED  BY <3>1, <3>2, <3>3
    <2>3. faults' \subseteq Items'  BY <1>3, SameTables DEF DealtWith
    <2>. QED  BY <1>1, <1>3, <2>1, <2>2, <2>3 DEF TypeOK, DealtWith, Letters
<1>6. /\ n \in Nat /\ DOMAIN history = 1..n /\ DOMAIN history' = 1..(n + 1)
      /\ Len(history') = n + 1
      /\ \A i \in 1..n : history'[i] = history[i]
      /\ history'[n + 1].step = Head(batch) /\ history'[n + 1].outcome = outcome
      /\ Steps' = Steps /\ \A i \in Steps : StepAt(i)' = StepAt(i)
    <2>1. n \in Nat /\ DOMAIN history = 1..n  BY <1>1, HistorySteps
    <2>2. /\ DOMAIN history' = 1..(n + 1) /\ Len(history') = n + 1
          /\ \A i \in DOMAIN history : history'[i] = history[i]
          /\ history'[n + 1] = [step |-> Head(batch), outcome |-> outcome, reading |-> reading]
          /\ Steps' = Steps /\ \A i \in Steps : StepAt(i)' = StepAt(i)
        BY <1>1, RecordShape
    <2>. QED  BY <2>1, <2>2
<1>7. ChecksAgain'
    <2>. SUFFICES ASSUME NEW j \in Steps, StepAt(j).kind = "verify"
                  PROVE  IF j <= n + 1 THEN history'[j].outcome \in {"success", "failed"}
                         ELSE ~halted' /\ Len(batch') = 1
        BY <1>6 DEF ChecksAgain
    <2>1. j \in Nat /\ Len(batch) \in Nat /\ j \in 1..(n + Len(batch))
        BY <1>1 DEF TypeOK, Steps
    <2>2. CASE j <= n
        BY <1>6, <2>1, <2>2 DEF IInv, ChecksAgain
    <2>3. CASE j = n + 1
        BY <1>1, <1>6, <2>3, HeadIsNext DEF DealtWith
    <2>4. CASE j > n + 1
        <3>1. n \in Nat /\ ~(j <= Len(history))  BY <1>6, <2>1, <2>4
        <3>2. Len(batch) = 1  BY <3>1 DEF IInv, ChecksAgain
        <3>. QED  BY <2>1, <2>4, <3>1, <3>2
    <2>. QED  BY <1>6, <2>1, <2>2, <2>3, <2>4
<1>8. Stops'
    <2>1. HardStopMet' <=> HardStopMet \/ (Head(batch).kind = "request"
                                            /\ HardStop(Head(batch).item))
        BY <1>6 DEF HardStopMet
    <2>2. halted' => frozen' \/ human'  BY DEF DealtWith
    <2>3. HardStopMet' => frozen' \/ (halted' /\ human')
        BY <2>1 DEF IInv, Stops, DealtWith
    <2>4. ASSUME NEW i \in Succeeded'
          PROVE  /\ history'[i].step.kind = "request" => ~HardStop(history'[i].step.item)
                 /\ history'[i].step.kind = "fix" => ~HardStopMet'
        <3>1. i \in 1..(n + 1) /\ history'[i].outcome = "success"
            BY <1>6, <2>4 DEF Succeeded
        <3>2. CASE i = n + 1
            <4>1. Head(batch).kind = "request" => ~HardStop(Head(batch).item)
                BY <1>6, <3>1, <3>2 DEF DealtWith
            <4>2. Head(batch).kind = "fix" => ~HardStopMet
                BY <1>6, <3>1, <3>2 DEF DealtWith, IInv, Stops
            <4>. QED  BY <1>6, <2>1, <3>2, <4>1, <4>2
        <3>3. CASE i \in 1..n
            <4>1. i \in Succeeded /\ history'[i] = history[i]
                BY <1>6, <3>1, <3>3 DEF Succeeded
            <4>2. history[i].step.kind = "request" => ~HardStop(history[i].step.item)
                BY <4>1 DEF IInv, Stops
            <4>3. history[i].step.kind = "fix" => ~HardStopMet
                BY <4>1 DEF IInv, Stops
            <4>4. ~(history[i].step.kind = "fix" /\ Head(batch).kind = "request")
                <5>. SUFFICES ASSUME history[i].step.kind = "fix",
                                     Head(batch).kind = "request"
                              PROVE  FALSE
                    OBVIOUS
                <5>1. i \in Steps /\ StepAt(i) = history[i].step
                    BY <1>1, <1>6, <3>3, HistorySteps
                <5>2. n + 1 \in Steps /\ StepAt(n + 1) = Head(batch)
                    BY <1>1, HeadIsNext
                <5>3. PICK a \in Requested : REQUESTED_ACTIONS[a] = Head(batch).item
                    BY <5>2 DEF IInv, FromTheTables, Known
                <5>4. PICK k \in Steps :
                         k < i /\ StepAt(k) = Step("request", REQUESTED_ACTIONS[a])
                    BY <5>1, <5>3 DEF IInv, InOrder, Precedes
                <5>5. StepAt(k) = StepAt(n + 1)
                    BY <1>1, <5>2, <5>3, <5>4, HeadIsNext DEF Step, BrainStep
                <5>6. k # n + 1
                    BY <1>6, <3>3, <5>4 DEF Steps
                <5>. QED  BY <5>2, <5>5, <5>6 DEF IInv, Once, OneTime
            <4>. QED  BY <2>1, <4>1, <4>2, <4>3, <4>4
        <3>. QED  BY <1>6, <3>1, <3>2, <3>3
    <2>. QED  BY <2>2, <2>3, <2>4 DEF Stops
<1>9. Over' /\ FixIsRechecked' /\ LettersOwnUp'
    BY <1>3 DEF Over, FixIsRechecked, LettersOwnUp
<1>. QED  BY <1>4, <1>5, <1>7, <1>8, <1>9 DEF IInv

-----------------------------------------------------------------------------
(***************************************************************************)
(* The steps that leave the history alone.                                 *)
(***************************************************************************)

\* The history, and what is left of the batch, keep their order.
LEMMA LessKeepsOrder ==
    ASSUME IInv, ticket' = ticket, history' = history, batch' \in {batch, <<>>}
    PROVE  FromTheTables' /\ Once' /\ InOrder' /\ FixFollowsItsFault'
<1>1. /\ Len(history) \in Nat /\ DOMAIN history = 1..Len(history) /\ batch \in Seq(BrainStep)
    BY HistorySteps DEF IInv, TypeOK
<1>2. Len(batch) \in Nat /\ (batch' = batch \/ Len(batch') = 0)  BY <1>1
<1>3. /\ Steps' \subseteq Steps /\ \A i \in Steps' : StepAt(i)' = StepAt(i)
      /\ \A i \in Steps, j \in Steps' : i < j => i \in Steps'
    BY <1>1, <1>2 DEF Steps, StepAt
<1>4. FromTheTables'
    BY <1>3, SameKnown DEF IInv, FromTheTables
<1>5. Once'
    BY <1>3 DEF IInv, Once
<1>6. InOrder'
    BY <1>3, SameTables DEF IInv, InOrder, Precedes
<1>7. FixFollowsItsFault'
    <2>. SUFFICES ASSUME NEW i \in Steps', StepAt(i).kind = "fix"
                  PROVE  \E j \in DOMAIN history : /\ j < i
                                                   /\ history[j].step.kind = "check"
                                                   /\ Calls(j, StepAt(i).item)'
        BY <1>3 DEF FixFollowsItsFault
    <2>1. PICK j \in DOMAIN history : /\ j < i /\ history[j].step.kind = "check"
                                      /\ Calls(j, StepAt(i).item)
        BY <1>3 DEF IInv, FixFollowsItsFault
    <2>2. Calls(j, StepAt(i).item)'
        BY <1>3, <2>1, SameTables DEF Calls
    <2>. QED  BY <2>1, <2>2
<1>. QED  BY <1>4, <1>5, <1>6, <1>7

\* What confirmed the run still does.
LEMMA SameConfirmed ==
    ASSUME ticket' = ticket, history' = history, Confirmed
    PROVE  Confirmed'
<1>1. ASSUME NEW i \in DOMAIN history, NEW j \in DOMAIN history, Confirms(j, i)
      PROVE  Confirms(j, i)'
    BY <1>1, SameTables DEF Confirms, Confirming, Runs, Calls
<1>. QED  BY <1>1 DEF Confirmed

LEMMA RecheckedIsConfirmed == FixIsRechecked <=> (resolved => Confirmed)
  BY DEF FixIsRechecked, Confirmed, Confirms

LEMMA DocumentKeeps ==
    ASSUME IInv, Document
    PROVE  IInv'
<1>1. /\ ticket' = ticket /\ history' = history /\ batch' = <<>> /\ ~Running
      /\ UNCHANGED <<faults, executed, halted, frozen, human, resolved, mishaps>>
    BY DEF Document
<1>2. FromTheTables' /\ Once' /\ InOrder' /\ FixFollowsItsFault'
    BY <1>1, LessKeepsOrder
<1>3. TypeOK'
    <2>1. reply' \in Letters  BY DEF Document, UserReply, Letters
    <2>2. batch' \in Seq(BrainStep') /\ Len(batch') <= 3  BY <1>1
    <2>. QED  BY <1>1, <2>1, <2>2, SameTables DEF IInv, TypeOK
<1>4. ChecksAgain'
    <2>1. Len(history) \in Nat /\ DOMAIN history = 1..Len(history) /\ Len(batch') = 0
        BY <1>1, HistorySteps DEF IInv
    <2>2. \A j \in Steps' : /\ j \in Steps /\ j <= Len(history)
                            /\ StepAt(j)' = history[j].step /\ StepAt(j) = history[j].step
        BY <1>1, <2>1, HistorySteps DEF IInv, Steps, StepAt
    <2>. QED  BY <1>1, <2>2 DEF IInv, ChecksAgain
<1>5. Stops'
    BY <1>1 DEF IInv, Stops, HardStopMet, Succeeded
<1>6. Over'
    BY <1>1 DEF Over, Running
<1>7. FixIsRechecked'
    <2>1. resolved' => Confirmed
        BY <1>1, RecheckedIsConfirmed DEF IInv
    <2>. QED  BY <1>1, <2>1, SameConfirmed DEF FixIsRechecked, Confirmed, Confirms
<1>8. LettersOwnUp'
    <2>1. /\ reply' = UserReply /\ (ChangedAnything' <=> ChangedAnything)
          /\ Succeeded' = Succeeded
        BY <1>1 DEF Document, ChangedAnything, Succeeded
    <2>2. reply' \in {"clean bill", "handed over"} => ~ChangedAnything
        BY <2>1 DEF UserReply, ChangedAnything
    <2>3. reply' = "fixed" => ChangedAnything
        BY <2>1 DEF UserReply
    <2>4. ASSUME reply' = "refused", NEW i \in Succeeded, Mutates(history[i].step)
          PROVE  history[i].step = Step("request", "quarantine-release")
        <3>1. RefusedOutright  BY <2>1, <2>4 DEF UserReply
        <3>2. HardStopMet
            <4>1. PICK k \in DOMAIN history :
                     Judged(history[k].step).categories \ {"routine"} # {}
                BY <3>1 DEF RefusedOutright
            <4>2. Known(history[k].step) /\ history[k].step.kind \in StepKinds
                BY HistorySteps DEF IInv, FromTheTables, BrainStep
            <4>. QED  BY <4>1, <4>2, RoutineOtherwise DEF IInv, HardStopMet
        <3>3. history[i].step.kind = "request" /\ ~HardStop(history[i].step.item)
            BY <2>4, <3>2 DEF IInv, Stops, Mutates
        <3>4. history[i].step \in BrainStep
            BY HistorySteps DEF IInv, Succeeded
        <3>. QED  BY <3>3, <3>4 DEF HardStop, Step, BrainStep
    <2>. QED  BY <1>1, <2>1, <2>2, <2>3, <2>4 DEF LettersOwnUp, Mutates
<1>. QED  BY <1>2, <1>3, <1>4, <1>5, <1>6, <1>7, <1>8 DEF IInv

LEMMA StutterKeeps ==
    ASSUME IInv, UNCHANGED vars
    PROVE  IInv'
<1>1. /\ ticket' = ticket /\ history' = history /\ batch' = batch /\ reply' = reply
      /\ UNCHANGED <<faults, executed, halted, frozen, human, resolved, mishaps>>
    BY DEF vars, loopVars
<1>2. FromTheTables' /\ Once' /\ InOrder' /\ FixFollowsItsFault'
    BY <1>1, LessKeepsOrder
<1>3. TypeOK'
    BY <1>1, SameTables DEF IInv, TypeOK
<1>4. ChecksAgain'
    BY <1>1 DEF IInv, ChecksAgain, Steps, StepAt
<1>5. Stops'
    BY <1>1 DEF IInv, Stops, HardStopMet, Succeeded
<1>6. Over'
    BY <1>1 DEF IInv, Over, Running
<1>7. FixIsRechecked'
    <2>1. resolved' => Confirmed
        BY <1>1, RecheckedIsConfirmed DEF IInv
    <2>. QED  BY <1>1, <2>1, SameConfirmed DEF FixIsRechecked, Confirmed, Confirms
<1>8. LettersOwnUp'
    BY <1>1 DEF IInv, LettersOwnUp, ChangedAnything, Succeeded, Mutates
<1>. QED  BY <1>2, <1>3, <1>4, <1>5, <1>6, <1>7, <1>8 DEF IInv

-----------------------------------------------------------------------------
(***************************************************************************)
(* A new batch goes behind the history it was proposed from.               *)
(***************************************************************************)
LEMMA NewKnown ==
    ASSUME ticket' = ticket, NEW step, Known(step), NEW i, StepAt(i)' = step
    PROVE  Known(StepAt(i))'
  BY SameTables DEF Known

LEMMA ThinkKeeps ==
    ASSUME IInv, Think
    PROVE  IInv'
<1>. DEFINE n == Len(history)
            new == Proposal.steps
<1>1. /\ batch = <<>> /\ ~resolved /\ ~human /\ executed < StepBudget /\ reply = "none"
      /\ batch' = new /\ halted' = FALSE /\ ticket' = ticket /\ history' = history
      /\ UNCHANGED <<faults, executed, frozen, reply, mishaps>>
      /\ \/ UNCHANGED <<resolved, human>>
         \/ new = <<>> /\ resolved' = (Proposal.resolved /\ ~frozen) /\ human' = ~resolved'
    BY DEF Think, Running, IInv, Over
<1>2. ProperSteps(new) /\ Proposal.resolved \in BOOLEAN /\ (Proposal.resolved => Confirmed)
    BY <1>1, ProposalProper DEF IInv, Orderly, Proper
<1>. HIDE DEF new
<1>3. n \in Nat /\ DOMAIN history = 1..n /\ new \in Seq(BrainStep) /\ Len(new) \in Nat
    BY <1>2, HistorySteps DEF IInv, ProperSteps
<1>4. Steps = 1..n /\ Steps' = 1..(n + Len(new))
    <2>1. Len(batch) = 0  BY <1>1
    <2>. QED  BY <1>1, <1>3, <2>1 DEF Steps
<1>5. /\ \A i \in 1..n : /\ i \in Steps /\ i \in Steps' /\ StepAt(i) = history[i].step
                         /\ StepAt(i)' = history[i].step /\ history[i].step \in BrainStep
      /\ \A i \in Steps' : i > n => /\ i - n \in 1..Len(new)
                                    /\ StepAt(i)' = new[i - n] /\ new[i - n] \in BrainStep
      /\ \A i \in Steps' : i \in 1..n \/ i > n
    <2>1. \A i \in 1..n : history[i].step \in BrainStep  BY <1>3, HistorySteps DEF IInv
    <2>. QED  BY <1>1, <1>3, <1>4, <2>1 DEF StepAt
<1>6. \A kind, item : Attempted(kind, item) <=>
                         \E i \in 1..n : history[i].step = Step(kind, item)
    BY <1>3 DEF Attempted
<1>7. TypeOK'
    <2>1. batch' \in Seq(BrainStep') /\ Len(batch') <= 3
        BY <1>1, <1>2, SameTables DEF ProperSteps
    <2>2. {halted', frozen', human', resolved'} \subseteq BOOLEAN /\ ~(resolved' /\ human')
        <3>1. {halted, frozen, human, resolved} \subseteq BOOLEAN  BY DEF IInv, TypeOK
        <3>2. CASE UNCHANGED <<resolved, human>>  BY <1>1, <3>1, <3>2
        <3>3. CASE resolved' = (Proposal.resolved /\ ~frozen) /\ human' = ~resolved'
            <4>1. resolved' \in BOOLEAN  BY <3>3
            <4>. QED  BY <1>1, <3>1, <3>3, <4>1
        <3>. QED  BY <1>1, <3>2, <3>3
    <2>. QED  BY <1>1, <2>1, <2>2, SameTables DEF IInv, TypeOK
<1>8. FromTheTables'
    <2>1. ASSUME NEW i \in Steps' PROVE Known(StepAt(i))'
        <3>1. CASE i \in 1..n
            BY <1>1, <1>5, <3>1, SameKnown DEF IInv, FromTheTables
        <3>2. CASE i > n
            <4>1. Known(new[i - n])  BY <1>2, <1>5, <3>2 DEF ProperSteps
            <4>. QED  BY <1>1, <1>5, <3>2, <4>1, NewKnown
        <3>. QED  BY <1>5, <3>1, <3>2
    <2>. QED  BY <2>1 DEF FromTheTables
<1>9. Once'
    <2>1. ASSUME NEW i \in 1..n, NEW j \in Steps', j > n, new[j - n].kind \in OneTime
          PROVE  history[i].step # new[j - n]
        <3>1. ~Attempted(new[j - n].kind, new[j - n].item)
            BY <1>2, <1>5, <2>1 DEF ProperSteps
        <3>2. new[j - n] = Step(new[j - n].kind, new[j - n].item)
            BY <1>5, <2>1 DEF Step, BrainStep
        <3>. QED  BY <1>6, <3>1, <3>2
    <2>2. ASSUME NEW i \in Steps', NEW j \in Steps', i > n, j > n, i # j,
                 new[j - n].kind \in OneTime
          PROVE  new[i - n] # new[j - n]
        <3>1. i \in Nat /\ j \in Nat  BY <1>3, <1>4
        <3>2. i - n # j - n  BY <1>3, <2>2, <3>1
        <3>. QED  BY <1>2, <1>5, <2>2, <3>2 DEF ProperSteps
    <2>3. ASSUME NEW i \in 1..n, NEW j \in 1..n, i # j, history[i].step.kind \in OneTime
          PROVE  history[i].step # history[j].step
        BY <1>5, <2>3 DEF IInv, Once
    <2>. SUFFICES ASSUME NEW i \in Steps', NEW j \in Steps', i # j,
                         StepAt(i)'.kind \in OneTime, StepAt(i)' = StepAt(j)'
                  PROVE  FALSE
        BY DEF Once
    <2>4. CASE i \in 1..n /\ j \in 1..n  BY <1>5, <2>3, <2>4
    <2>5. CASE i \in 1..n /\ j > n  BY <1>5, <2>1, <2>5
    <2>6. CASE i > n /\ j \in 1..n  BY <1>5, <2>1, <2>6
    <2>7. CASE i > n /\ j > n  BY <1>5, <2>2, <2>7
    <2>. QED  BY <1>5, <2>4, <2>5, <2>6, <2>7
<1>10. ASSUME NEW j \in Steps', j > n, NEW kind, NEW item, Attempted(kind, item)
       PROVE  Precedes(Step(kind, item), j)'
    <2>1. PICK i \in 1..n : history[i].step = Step(kind, item)  BY <1>6, <1>10
    <2>2. i \in Steps' /\ i < j /\ StepAt(i)' = Step(kind, item)
        BY <1>3, <1>4, <1>5, <1>10, <2>1
    <2>. QED  BY <2>2 DEF Precedes
<1>11. InOrder'
    <2>. SUFFICES ASSUME NEW j \in Steps'
                  PROVE  /\ StepAt(j)'.kind = "fix" =>
                              \A a \in Requested :
                                 Precedes(Step("request", REQUESTED_ACTIONS[a]), j)'
                         /\ StepAt(j)'.kind = "verify" =>
                              IF ticket.local THEN Precedes(Step("fix", StepAt(j).item), j)'
                              ELSE /\ Precedes(Step("check", StepAt(j).item), j)'
                                   /\ \A f \in DOMAIN Fixes :
                                         Precedes(Step("fix", Fixes[f].command), j)'
        BY <1>1, SameTables DEF InOrder
    <2>1. CASE j \in 1..n
        <3>1. \A i \in Steps : i \in Steps' /\ StepAt(i)' = StepAt(i)  BY <1>4, <1>5
        <3>2. j \in Steps  BY <1>4, <2>1
        <3>. QED  BY <1>1, <3>1, <3>2, SameTables DEF IInv, InOrder, Precedes
    <2>2. CASE j > n
        <3>1. /\ new[j - n].kind = "fix" => RequestsDone
              /\ new[j - n].kind = "verify" => TriedBefore(new[j - n].item)
              /\ StepAt(j)' = new[j - n]
            BY <1>2, <1>5, <2>2 DEF ProperSteps
        <3>2. StepAt(j)'.kind = "fix" =>
                 \A a \in Requested : Precedes(Step("request", REQUESTED_ACTIONS[a]), j)'
            BY <1>10, <2>2, <3>1 DEF RequestsDone
        <3>3. StepAt(j)'.kind = "verify" =>
                 IF ticket.local THEN Precedes(Step("fix", StepAt(j).item), j)'
                 ELSE /\ Precedes(Step("check", StepAt(j).item), j)'
                      /\ \A f \in DOMAIN Fixes :
                            Precedes(Step("fix", Fixes[f].command), j)'
            BY <1>1, <1>10, <2>2, <3>1, SameTables DEF TriedBefore, Precedes
        <3>. QED  BY <3>2, <3>3
    <2>. QED  BY <1>5, <2>1, <2>2
<1>12. FixFollowsItsFault'
    <2>. SUFFICES ASSUME NEW i \in Steps', StepAt(i)'.kind = "fix"
                  PROVE  \E j \in DOMAIN history : /\ j < i
                                                   /\ history[j].step.kind = "check"
                                                   /\ Calls(j, StepAt(i).item)'
        BY <1>1 DEF FixFollowsItsFault
    <2>1. CASE i \in 1..n
        <3>1. PICK j \in DOMAIN history : /\ j < i /\ history[j].step.kind = "check"
                                          /\ Calls(j, StepAt(i).item)
            BY <1>5, <2>1 DEF IInv, FixFollowsItsFault
        <3>2. Calls(j, StepAt(i).item)'
            BY <1>1, <1>5, <2>1, <3>1, SameTables DEF Calls
        <3>. QED  BY <3>1, <3>2
    <2>2. CASE i > n
        <3>1. PICK j \in DOMAIN history :
                 history[j].step.kind = "check" /\ Calls(j, new[i - n].item)
            BY <1>2, <1>5, <2>2 DEF ProperSteps, CalledFor
        <3>2. Calls(j, StepAt(i).item)'
            BY <1>1, <1>5, <2>2, <3>1, SameTables DEF Calls
        <3>3. j < i  BY <1>3, <1>4, <2>2
        <3>. QED  BY <3>1, <3>2, <3>3
    <2>. QED  BY <1>5, <2>1, <2>2
<1>13. ChecksAgain'
    <2>. SUFFICES ASSUME NEW j \in Steps', StepAt(j)'.kind = "verify"
                  PROVE  IF j <= n THEN history[j].outcome \in {"success", "failed"}
                         ELSE ~halted' /\ Len(batch') = 1
        BY <1>1 DEF ChecksAgain
    <2>1. CASE j \in 1..n
        BY <1>3, <1>5, <2>1 DEF IInv, ChecksAgain
    <2>2. CASE j > n
        BY <1>1, <1>2, <1>3, <1>4, <1>5, <2>2 DEF ProperSteps
    <2>. QED  BY <1>5, <2>1, <2>2
<1>14. Stops'
    BY <1>1 DEF IInv, Stops, HardStopMet, Succeeded
<1>15. Over'
    BY <1>1 DEF Over
<1>16. FixIsRechecked'
    <2>1. resolved' => Confirmed  BY <1>1, <1>2
    <2>. QED  BY <1>1, <2>1, SameConfirmed DEF FixIsRechecked, Confirmed, Confirms
<1>17. LettersOwnUp'
    BY <1>1 DEF LettersOwnUp
<1>. QED
    BY <1>7, <1>8, <1>9, <1>11, <1>12, <1>13, <1>14, <1>15, <1>16, <1>17 DEF IInv

-----------------------------------------------------------------------------
(***************************************************************************)
(* The theorems.                                                           *)
(***************************************************************************)
LEMMA InitOrdered == Init => IInv
<1>. SUFFICES ASSUME Init PROVE IInv  OBVIOUS
<1>1. /\ history = <<>> /\ batch = <<>> /\ executed = 0 /\ mishaps = 0
      /\ halted = FALSE /\ frozen = FALSE /\ human = FALSE /\ resolved = FALSE
      /\ reply = "none" /\ ticket \in Tickets
    BY DEF Init
<1>2. Steps = {} /\ DOMAIN history = {}  BY <1>1 DEF Steps
<1>3. faults \subseteq Items
    <2>1. LocalChecks \subseteq DOMAIN LOCAL_CHECKS
        BY DEF LocalChecks, ChecksForCategory, ChecksFor
    <2>. QED  BY <2>1 DEF Init, Items, Verifiers
<1>4. TypeOK
    <2>1. executed \in 0..StepBudget /\ mishaps \in 0..MaxMishaps
        BY <1>1, BudgetAssumption
    <2>2. batch \in Seq(BrainStep) /\ Len(batch) <= 3  BY <1>1
    <2>3. history \in Seq([step: BrainStep, outcome: Outcomes, reading: Readings])
        BY <1>1
    <2>4. {halted, frozen, human, resolved} \subseteq BOOLEAN /\ ~(resolved /\ human)
        BY <1>1
    <2>5. ticket \in Tickets /\ reply \in Letters  BY <1>1 DEF Letters
    <2>. QED  BY <1>3, <2>1, <2>2, <2>3, <2>4, <2>5 DEF TypeOK
<1>. QED
    BY <1>1, <1>2, <1>4
       DEF IInv, FromTheTables, Once, InOrder, FixFollowsItsFault, ChecksAgain, Stops,
           HardStopMet, Succeeded, Over, FixIsRechecked, LettersOwnUp, ChangedAnything

LEMMA StepOrdered == IInv /\ [Next]_vars => IInv'
<1>. SUFFICES ASSUME IInv, [Next]_vars PROVE IInv'  OBVIOUS
<1>1. CASE Think     BY <1>1, ThinkKeeps
<1>2. CASE Skip      BY <1>2, SkipDealsWith, DealtWithKeeps
<1>3. CASE Refuse    BY <1>3, RefuseDealsWith, DealtWithKeeps DEF Outcomes, Readings
<1>4. CASE Decline   BY <1>4, DeclineDealsWith, DealtWithKeeps DEF Outcomes, Readings
<1>5. CASE Observe   BY <1>5, ObserveDealsWith, DealtWithKeeps
<1>6. CASE Change
    <2>1. "none" \in Readings  BY DEF Readings
    <2>. QED  BY <1>6, <2>1, ChangeDealsWith, DealtWithKeeps
<1>7. CASE Capture   BY <1>7, CaptureDealsWith, DealtWithKeeps DEF Outcomes, Readings
<1>8. CASE Ask
    <2>1. "none" \in Readings  BY DEF Readings
    <2>. QED  BY <1>8, <2>1, AskDealsWith, DealtWithKeeps
<1>9. CASE Document  BY <1>9, DocumentKeeps
<1>10. CASE UNCHANGED vars  BY <1>10, StutterKeeps
<1>. QED
    BY <1>1, <1>2, <1>3, <1>4, <1>5, <1>6, <1>7, <1>8, <1>9, <1>10 DEF Next

\* What the brain does is in order, whatever was reported to it.
THEOREM WorksInOrder == Spec => []IInv
  BY InitOrdered, StepOrdered, PTL DEF Spec

\* Every step is of a kind, and about a thing, the tables know.
THEOREM TypeCorrect == Spec => []TypeOK
<1>1. IInv => TypeOK  BY DEF IInv
<1>. QED  BY <1>1, WorksInOrder, PTL

\* proposeFromPlaybook() and proposeLocal(): nothing is changed, or put up for
\* approval, unless an earlier check read the fault it is meant for.
THEOREM FaultsAreNotInvented == Spec => []FixFollowsItsFault
<1>1. IInv => FixFollowsItsFault  BY DEF IInv
<1>. QED  BY <1>1, WorksInOrder, PTL

\* verify(): a run is called resolved only when the failing check was run again
\* after every change, and its latest result does not show the fault.
THEOREM FixesAreRechecked == Spec => []FixIsRechecked
<1>1. IInv => FixIsRechecked  BY DEF IInv
<1>. QED  BY <1>1, WorksInOrder, PTL

\* document(): a letter that says nothing was changed goes out only when nothing
\* was, but for the one request that is not a hard stop.
THEOREM LettersTellTheTruth == Spec => []LettersOwnUp
<1>1. IInv => LettersOwnUp  BY DEF IInv
<1>. QED  BY <1>1, WorksInOrder, PTL
====
