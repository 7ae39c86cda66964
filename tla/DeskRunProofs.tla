---------------------------- MODULE DeskRunProofs ----------------------------
(***************************************************************************)
(* Theorems about one report and the run that works it, for any number of  *)
(* approvals and questions.                                                *)
(*                                                                         *)
(* None of the invariants of DeskRun is inductive.  That nothing finished  *)
(* leaves a request behind rests on where the run stands while one is      *)
(* pending; that a stop clears every wait for good, on the run asking      *)
(* nothing after it; and that a portal answer goes astray only by being    *)
(* overtaken, on every earlier request having been granted or answered.    *)
(***************************************************************************)
EXTENDS DeskRun, TLAPS

\* The run is settled exactly when its driver has ended; the registry forgets
\* only settled runs, and only they have an undo window.
SettledWhenEnded ==
    /\ (status = "running") = (driver # "ended")
    /\ status = "running" => registered /\ ~window

\* The user's stop released every wait, and none begins after it.
StopEndsWaits == stopped => pending = {}

\* An open connection is the one the session holds, and no run that is closing
\* its device or has ended keeps it but for the undo window.
OpenIsOwned ==
    channel = "open" =>
        /\ attached
        /\ driver # "closing"
        /\ \/ held /\ driver # "ended"
           \/ window /\ registered

\* Only the last request may have been refused or left unanswered, and only an
\* approval is approved.
GrantedSoFar ==
    \A i \in DOMAIN requests :
        /\ i # Len(requests) => requests[i].outcome \in {"approved", "answered"}
        /\ requests[i].outcome = "approved" => requests[i].kind = "approval"

\* The question on the ticket, and the one being answered on the portal, are
\* questions the run asked.
AnswersQuestions ==
    \A i \in {desk.question, typing} \ {0} :
        i \in DOMAIN requests /\ requests[i].kind = "question"

\* What the waits of the run keep, and what its machine keeps.
WaitInv == /\ PendingIsTimed /\ ApprovalsAreAnnounced /\ StrayAnswerWasOvertaken
           /\ StopEndsWaits /\ GrantedSoFar /\ AnswersQuestions

IInv == TypeOK /\ WaitInv /\ SettledWhenEnded /\ OpenIsOwned /\ HandoverStands

-----------------------------------------------------------------------------
USE MaxRequestsAssumption DEF MaxRequestsAssumption

\* The tickets of the desk.
TicketStatus == {"working", "waiting-on-you", "waiting-on-technician",
                 "resolved", "escalated", "failed"}
DeskTicket == [status: TicketStatus, question: 0..MaxRequests, handedOver: BOOLEAN]

\* A ticket that moves on is a ticket still.
LEMMA DeskTyped ==
    ASSUME TypeOK, NEW to \in TicketStatus, NEW asks \in 0..MaxRequests
    PROVE  /\ [desk EXCEPT !.status = to] \in DeskTicket
           /\ [desk EXCEPT !.status = to, !.question = asks] \in DeskTicket
           /\ [desk EXCEPT !.status = to].question = desk.question
           /\ [desk EXCEPT !.status = to, !.question = asks].question = asks
BY DEF TypeOK, DeskTicket, TicketStatus

\* The outcomes a request may be given.
Outcome == {"open", "approved", "declined", "answered", "timeout", "stopped", "ended"}

\* The requests once the one at i is settled.
SettledAt(i, outcome, meant) ==
    /\ requests' \in Seq(Request)
    /\ DOMAIN requests' = DOMAIN requests /\ Len(requests') = Len(requests)
    /\ \A j \in DOMAIN requests :
         /\ requests'[j].kind = requests[j].kind
         /\ requests'[j].outcome = IF j = i THEN outcome ELSE requests[j].outcome
         /\ requests'[j].meant = IF j = i THEN meant ELSE requests[j].meant
    /\ pending' = {} /\ timers' = {}

\* A request in a run is whole.
LEMMA RequestTyped ==
    ASSUME TypeOK, NEW i \in DOMAIN requests
    PROVE  /\ requests[i] \in Request
           /\ requests[i].kind \in {"approval", "question"}
           /\ requests[i].outcome \in Outcome
           /\ requests[i].meant \in 0..MaxRequests
           /\ Len(requests) \in Nat /\ DOMAIN requests = 1..Len(requests)
<1>1. requests \in Seq(Request)
  BY DEF TypeOK
<1>2. requests[i] \in Request /\ Len(requests) \in Nat /\ DOMAIN requests = 1..Len(requests)
  BY <1>1
<1> QED BY <1>2 DEF Request, Outcome

\* A run with a request pending is suspended on it.
LEMMA PendingSuspends ==
    ASSUME TypeOK, PendingIsTimed, pending # {}
    PROVE  driver \in {"gate", "asking"}
<1>1. PICK i \in pending : driver = Waits[requests[i].kind]
  BY DEF PendingIsTimed
<1>2. requests[i].kind \in {"approval", "question"}
  BY RequestTyped DEF PendingIsTimed
<1> QED BY <1>1, <1>2 DEF Waits

\* Settling the pending request leaves none pending and no timer armed.
LEMMA SettleSettles ==
    ASSUME TypeOK, PendingIsTimed, NEW i \in pending,
           NEW outcome \in Outcome, NEW meant \in 0..MaxRequests,
           Settle(i, outcome, meant)
    PROVE  SettledAt(i, outcome, meant) /\ i = Len(requests)
<1>1. i \in 1..Len(requests) /\ pending = {i} /\ timers = {i} /\ i = Len(requests)
  BY DEF TypeOK, PendingIsTimed
<1>2. \A j \in DOMAIN requests : requests[j] \in Request
  BY RequestTyped
<1>3. \A j \in DOMAIN requests :
        requests'[j] = IF j = i THEN [requests[i] EXCEPT !.outcome = outcome, !.meant = meant]
                       ELSE requests[j]
  BY <1>1 DEF Settle, TypeOK
<1>4. [requests[i] EXCEPT !.outcome = outcome, !.meant = meant] \in Request
  BY <1>1, <1>2 DEF Request, Outcome, TypeOK
<1>5. /\ requests' \in Seq(Request)
      /\ DOMAIN requests' = DOMAIN requests /\ Len(requests') = Len(requests)
  <2>1. requests' \in [1..Len(requests) -> Request]
    BY <1>1, <1>2, <1>3, <1>4 DEF Settle, TypeOK
  <2> QED BY <2>1 DEF TypeOK
<1> QED BY <1>1, <1>2, <1>3, <1>5 DEF SettledAt, Settle, Request, TypeOK

\* A stop and the end of a run settle whatever is pending, and nothing else.
LEMMA ReleaseSettles ==
    ASSUME TypeOK, PendingIsTimed, NEW outcome \in Outcome, Release(outcome)
    PROVE  /\ pending = {} => requests' = requests /\ pending' = {} /\ timers' = {}
           /\ \A i \in pending : SettledAt(i, outcome, requests[i].meant) /\ i = Len(requests)
<1>1. ASSUME pending = {}
      PROVE  requests' = requests /\ pending' = {} /\ timers' = {}
  <2>1. requests = [i \in DOMAIN requests |-> requests[i]]
    BY DEF TypeOK
  <2> QED BY <1>1, <2>1 DEF Release, PendingIsTimed
<1>2. ASSUME NEW i \in pending
      PROVE  SettledAt(i, outcome, requests[i].meant) /\ i = Len(requests)
  <2>1. i \in 1..Len(requests) /\ pending = {i} /\ timers = {i} /\ i = Len(requests)
    BY <1>2 DEF TypeOK, PendingIsTimed
  <2>2. \A j \in DOMAIN requests : requests[j] \in Request
    BY RequestTyped
  <2>3. \A j \in DOMAIN requests :
          requests'[j] = IF j = i THEN [requests[i] EXCEPT !.outcome = outcome] ELSE requests[j]
    BY <2>1 DEF Release, TypeOK
  <2>4. [requests[i] EXCEPT !.outcome = outcome] \in Request
    BY <2>1, <2>2 DEF Request, Outcome, TypeOK
  <2>5. /\ requests' \in Seq(Request)
        /\ DOMAIN requests' = DOMAIN requests /\ Len(requests') = Len(requests)
    <3>1. requests' \in [1..Len(requests) -> Request]
      BY <2>1, <2>2, <2>3, <2>4 DEF Release, TypeOK
    <3> QED BY <3>1 DEF TypeOK
  <2> QED BY <2>1, <2>2, <2>3, <2>5 DEF SettledAt, Release, Request, TypeOK
<1> QED BY <1>1, <1>2

\* What is left alone stands, as long as the run is not moved off a wait.
LEMMA WaitsStand ==
    ASSUME IInv, UNCHANGED waitVars,
           driver' = driver \/ pending = {},
           stopped' => stopped \/ pending = {},
           {desk'.question, typing'} \subseteq {desk.question, typing, 0}
    PROVE  WaitInv'
<1>1. PendingIsTimed'
  BY DEF IInv, WaitInv, PendingIsTimed, waitVars
<1>2. AnswersQuestions'
  BY DEF IInv, WaitInv, AnswersQuestions, waitVars
<1> QED BY <1>1, <1>2
     DEF IInv, WaitInv, ApprovalsAreAnnounced, StrayAnswerWasOvertaken, StopEndsWaits,
         GrantedSoFar, waitVars

\* Settling the pending request keeps the waits, if it is settled as one of its
\* kind, an approval is announced, and a stray answer was overtaken.
LEMMA SettledKeeps ==
    ASSUME IInv, NEW i \in pending,
           NEW outcome \in Outcome \ {"open"}, NEW meant \in 0..MaxRequests,
           SettledAt(i, outcome, meant),
           outcome = "approved" => requests[i].kind = "approval",
           outcome = "answered" /\ meant # i
             => meant \in 1..(i - 1) /\ requests[meant].outcome = "answered",
           announced \subseteq announced',
           requests[i].kind = "approval" => i \in announced',
           {desk'.question, typing'} \subseteq {desk.question, typing, 0}
    PROVE  WaitInv'
<1>1. i = Len(requests) /\ DOMAIN requests = 1..Len(requests) /\ i \in DOMAIN requests
  BY RequestTyped DEF IInv, WaitInv, PendingIsTimed
<1>2. pending = {i}
  BY <1>1 DEF IInv, WaitInv, PendingIsTimed
<1>3. PendingIsTimed'
  BY <1>2 DEF IInv, WaitInv, PendingIsTimed, SettledAt
<1>4. ApprovalsAreAnnounced'
  BY <1>1 DEF IInv, WaitInv, ApprovalsAreAnnounced, SettledAt
<1>5. StrayAnswerWasOvertaken'
  <2>1. requests[i].outcome = "open"
    BY DEF IInv, WaitInv, PendingIsTimed
  <2> QED BY <1>1, <2>1 DEF IInv, WaitInv, StrayAnswerWasOvertaken, SettledAt
<1>6. GrantedSoFar'
  BY <1>1 DEF IInv, WaitInv, GrantedSoFar, SettledAt
<1>7. AnswersQuestions' /\ StopEndsWaits'
  BY DEF IInv, WaitInv, AnswersQuestions, StopEndsWaits, SettledAt
<1> QED BY <1>3, <1>4, <1>5, <1>6, <1>7 DEF WaitInv

\* A new request is the last, the only one pending, and the one the run waits on.
LEMMA RegisterKeeps ==
    ASSUME IInv, NEW kind \in {"approval", "question"}, Register(kind),
           desk'.question \in {desk.question}
              \cup (IF kind = "question" THEN {Len(requests')} ELSE {})
    PROVE  /\ WaitInv'
           /\ requests' \in Seq(Request) /\ Len(requests') = Len(requests) + 1
           /\ Len(requests') \in 1..MaxRequests /\ DOMAIN requests' = 1..Len(requests')
           /\ pending' = {Len(requests')} /\ timers' = {Len(requests')}
<1> DEFINE n == Len(requests)
           new == [kind |-> kind, outcome |-> "open", meant |-> 0]
<1>1. requests \in Seq(Request) /\ n \in Nat /\ n < MaxRequests /\ DOMAIN requests = 1..n
  BY DEF IInv, TypeOK, Register
<1>2. new \in Request
  BY DEF Request
<1>3. /\ requests' \in Seq(Request) /\ Len(requests') = n + 1 /\ DOMAIN requests' = 1..(n + 1)
      /\ requests'[n + 1] = new
      /\ \A i \in 1..n : requests'[i] = requests[i]
  BY <1>1, <1>2 DEF Register
<1>4. \A i \in 1..n : requests[i].outcome \in {"approved", "answered"}
  BY <1>1 DEF Register
<1>5. pending = {} /\ timers = {}
  BY <1>4, <1>1 DEF IInv, WaitInv, PendingIsTimed
<1>6. pending' = {n + 1} /\ timers' = {n + 1} /\ announced' = announced /\ typing' = typing
  BY <1>3, <1>5 DEF Register, deviceVars
<1>7. PendingIsTimed'
  <2>1. driver' = Waits[requests'[n + 1].kind]
    BY <1>3 DEF Register
  <2> QED BY <1>1, <1>3, <1>4, <1>6, <2>1 DEF PendingIsTimed
<1>8. ApprovalsAreAnnounced'
  BY <1>1, <1>3, <1>6 DEF IInv, WaitInv, ApprovalsAreAnnounced
<1>9. StrayAnswerWasOvertaken'
  BY <1>1, <1>3 DEF IInv, WaitInv, StrayAnswerWasOvertaken
<1>10. GrantedSoFar' /\ StopEndsWaits'
  BY <1>1, <1>3, <1>4 DEF IInv, WaitInv, GrantedSoFar, StopEndsWaits, Register
<1>11. AnswersQuestions'
  BY <1>1, <1>3, <1>6 DEF IInv, WaitInv, AnswersQuestions
<1> QED BY <1>1, <1>3, <1>6, <1>7, <1>8, <1>9, <1>10, <1>11 DEF WaitInv

-----------------------------------------------------------------------------
\* The driver of the run.
LEMMA DriverKeeps ==
    ASSUME IInv, Select \/ Open \/ ProbeDevice \/ Unwind
    PROVE  IInv'
<1>1. CASE Select
  <2>1. TypeOK'
    BY <1>1 DEF IInv, TypeOK, Select, waitVars, deviceVars
  <2>2. WaitInv'
    BY <1>1, WaitsStand, PendingSuspends DEF IInv, WaitInv, Select
  <2>3. SettledWhenEnded' /\ OpenIsOwned' /\ HandoverStands'
    BY <1>1 DEF IInv, SettledWhenEnded, OpenIsOwned, HandoverStands, Select, deviceVars
  <2> QED BY <2>1, <2>2, <2>3 DEF IInv
<1>2. CASE Open
  <2>1. TypeOK'
    BY <1>2 DEF IInv, TypeOK, Open, waitVars
  <2>2. WaitInv'
    BY <1>2, WaitsStand, PendingSuspends DEF IInv, WaitInv, Open
  <2>3. SettledWhenEnded' /\ OpenIsOwned' /\ HandoverStands'
    BY <1>2 DEF IInv, SettledWhenEnded, OpenIsOwned, HandoverStands, Open
  <2> QED BY <2>1, <2>2, <2>3 DEF IInv
<1>3. CASE ProbeDevice
  <2>1. TypeOK'
    BY <1>3 DEF IInv, TypeOK, ProbeDevice, waitVars, deviceVars
  <2>2. WaitInv'
    BY <1>3, WaitsStand, PendingSuspends DEF IInv, WaitInv, ProbeDevice
  <2>3. SettledWhenEnded' /\ OpenIsOwned' /\ HandoverStands'
    BY <1>3 DEF IInv, SettledWhenEnded, OpenIsOwned, HandoverStands, ProbeDevice, deviceVars
  <2> QED BY <2>1, <2>2, <2>3 DEF IInv
<1>4. CASE Unwind
  <2>1. TypeOK'
    BY <1>4 DEF IInv, TypeOK, Unwind, CloseDevice, waitVars
  <2>2. WaitInv'
    BY <1>4, WaitsStand, PendingSuspends DEF IInv, WaitInv, Unwind
  <2>3. SettledWhenEnded' /\ OpenIsOwned' /\ HandoverStands'
    BY <1>4 DEF IInv, SettledWhenEnded, OpenIsOwned, HandoverStands, Unwind, CloseDevice
  <2> QED BY <2>1, <2>2, <2>3 DEF IInv
<1> QED BY <1>1, <1>2, <1>3, <1>4

\* A run that ends has nothing pending, so its finish releases nothing.
LEMMA FinishReleasesNothing ==
    ASSUME IInv, NEW how, Finish(how), driver \notin {"gate", "asking"}
    PROVE  pending = {} /\ UNCHANGED waitVars
<1>1. pending = {} /\ timers = {}
  BY PendingSuspends DEF IInv, WaitInv, PendingIsTimed
<1> QED BY <1>1, ReleaseSettles DEF IInv, WaitInv, Finish, waitVars, Outcome

\* The three ways a run ends.
LEMMA EndKeeps ==
    ASSUME IInv, Unwound \/ Fail \/ Complete
    PROVE  IInv'
<1>1. CASE Unwound
  <2>1. pending = {} /\ UNCHANGED waitVars
    BY <1>1, FinishReleasesNothing DEF Unwound
  <2>2. TypeOK'
    <3>1. /\ status' = "finished" /\ driver' = "ended" /\ held' = FALSE
          /\ UNCHANGED <<target, stopped, waitVars, attached, channel, window, registered>>
          /\ UNCHANGED <<desk, typing>>
      BY <1>1, <2>1 DEF Unwound, Finish
    <3> QED BY <3>1 DEF IInv, TypeOK, waitVars
  <2>3. WaitInv'
    BY <1>1, <2>1, WaitsStand DEF Unwound, Finish
  <2>4. SettledWhenEnded' /\ OpenIsOwned' /\ HandoverStands'
    BY <1>1 DEF IInv, SettledWhenEnded, OpenIsOwned, HandoverStands, Unwound, Finish
  <2> QED BY <2>2, <2>3, <2>4 DEF IInv
<1>2. CASE Fail
  <2>1. pending = {} /\ UNCHANGED waitVars
    BY <1>2, FinishReleasesNothing DEF Fail
  <2>2. TypeOK'
    <3>1. "failed" \in TicketStatus /\ 0 \in 0..MaxRequests
      BY DEF TicketStatus
    <3>2. desk' \in DeskTicket
      BY <1>2, <3>1, DeskTyped DEF IInv, Fail
    <3> QED BY <1>2, <2>1, <3>2 DEF IInv, TypeOK, DeskTicket, TicketStatus, Fail, Finish, waitVars
  <2>3. desk'.question = 0
    BY <1>2 DEF IInv, TypeOK, Fail
  <2>4. WaitInv'
    BY <1>2, <2>1, <2>3, WaitsStand DEF Fail, Finish
  <2>5. SettledWhenEnded' /\ OpenIsOwned' /\ HandoverStands'
    BY <1>2 DEF IInv, SettledWhenEnded, OpenIsOwned, HandoverStands, Fail, Finish
  <2> QED BY <2>2, <2>4, <2>5 DEF IInv
<1>3. CASE Complete
  <2>1. pending = {} /\ UNCHANGED waitVars
    BY <1>3, FinishReleasesNothing DEF Complete
  <2>2. TypeOK'
    <3>1. {"resolved", "escalated", "failed"} \subseteq TicketStatus /\ 0 \in 0..MaxRequests
      BY DEF TicketStatus
    <3>2. desk' \in DeskTicket
      <4>1. CASE desk.handedOver
        BY <1>3, <4>1 DEF IInv, TypeOK, Complete, Settled, DeskTicket, TicketStatus
      <4>2. CASE ~desk.handedOver
        <5>1. PICK outcome \in {"resolved", "escalated", "failed"} :
                desk' = [desk EXCEPT !.status = outcome, !.question = 0]
          BY <1>3, <4>2 DEF Complete, Settled
        <5> QED BY <5>1, <3>1, DeskTyped DEF IInv
      <4> QED BY <4>1, <4>2
    <3> QED BY <1>3, <2>1, <3>2
         DEF IInv, TypeOK, DeskTicket, TicketStatus, Complete, Finish, waitVars
  <2>3. desk'.question \in {desk.question, 0}
    BY <1>3 DEF IInv, TypeOK, Complete, Settled
  <2>4. WaitInv'
    BY <1>3, <2>1, <2>3, WaitsStand DEF Complete, Finish
  <2>5. SettledWhenEnded' /\ HandoverStands'
    BY <1>3 DEF IInv, SettledWhenEnded, HandoverStands, Complete, Finish
  <2>6. OpenIsOwned'
    <3>1. registered /\ ~window
      BY <1>3 DEF IInv, SettledWhenEnded, Complete
    <3> QED BY <1>3, <3>1 DEF IInv, OpenIsOwned, Complete, Finish
  <2> QED BY <2>2, <2>4, <2>5, <2>6 DEF IInv
<1> QED BY <1>1, <1>2, <1>3

-----------------------------------------------------------------------------
\* A run that asks keeps everything else, whatever the ticket then says.
LEMMA AskingKeeps ==
    ASSUME IInv, NEW kind \in {"approval", "question"}, Register(kind),
           desk' \in DeskTicket,
           desk'.question \in {desk.question}
              \cup (IF kind = "question" THEN {Len(requests')} ELSE {})
    PROVE  IInv'
<1>1. /\ WaitInv' /\ requests' \in Seq(Request)
      /\ Len(requests') \in 1..MaxRequests /\ Len(requests') = Len(requests) + 1
      /\ DOMAIN requests' = 1..Len(requests')
      /\ pending' = {Len(requests')} /\ timers' = {Len(requests')}
  BY RegisterKeeps
<1>2. DOMAIN requests = 1..Len(requests) /\ Len(requests) \in Nat
  BY DEF IInv, TypeOK
<1>3. driver' \in {"gate", "asking"} /\ driver = "working" /\ ~stopped
  BY DEF Register, Waits
<1>4. TypeOK'
  BY <1>1, <1>2, <1>3 DEF IInv, TypeOK, DeskTicket, TicketStatus, Register, deviceVars
<1>5. SettledWhenEnded' /\ OpenIsOwned' /\ HandoverStands'
  BY <1>3 DEF IInv, SettledWhenEnded, OpenIsOwned, HandoverStands, Register, deviceVars
<1> QED BY <1>1, <1>4, <1>5 DEF IInv

\* A request to the technician or the user.
LEMMA RequestKeeps ==
    ASSUME IInv, RequestApproval \/ Ask
    PROVE  IInv'
<1>1. CASE RequestApproval
  <2>1. desk' = [desk EXCEPT !.status = "waiting-on-technician"] /\ Register("approval")
    BY <1>1 DEF RequestApproval
  <2>2. "waiting-on-technician" \in TicketStatus /\ 0 \in 0..MaxRequests
    BY DEF TicketStatus
  <2>3. /\ desk' \in DeskTicket
        /\ desk'.question = desk.question
    BY <2>1, <2>2, DeskTyped DEF IInv
  <2> QED BY <2>1, <2>3, AskingKeeps
<1>2. CASE Ask
  <2>1. /\ desk' = [desk EXCEPT !.status = "waiting-on-you", !.question = Len(requests')]
        /\ Register("question")
    BY <1>2 DEF Ask
  <2>2. "waiting-on-you" \in TicketStatus
    BY DEF TicketStatus
  <2>3. Len(requests') \in 0..MaxRequests
    BY <2>1 DEF IInv, TypeOK, Register
  <2>4. /\ desk' \in DeskTicket
        /\ desk'.question = Len(requests')
    BY <2>1, <2>2, <2>3, DeskTyped DEF IInv
  <2> QED BY <2>1, <2>4, AskingKeeps
<1> QED BY <1>1, <1>2

\* An answer settles the question and puts the ticket back to work.
LEMMA AnswerKeeps ==
    ASSUME IInv, NEW i \in pending, NEW meant \in 0..MaxRequests, Answer(i, meant),
           requests[i].kind = "question", meant \in {i, typing},
           typing' \in {typing, 0}, meant # 0
    PROVE  IInv'
<1>1. i \in DOMAIN requests /\ i \in 1..MaxRequests /\ i = Len(requests)
  BY DEF IInv, WaitInv, PendingIsTimed, TypeOK
<1>2. SettledAt(i, "answered", meant)
  BY SettleSettles DEF Answer, IInv, WaitInv, Outcome
<1>3. desk' = [desk EXCEPT !.status = "working", !.question = 0] /\ announced' = announced \cup {i}
  BY DEF Answer
<1>4. /\ desk' \in DeskTicket
      /\ desk'.question = 0
  <2>1. "working" \in TicketStatus /\ 0 \in 0..MaxRequests
    BY DEF TicketStatus
  <2> QED BY <1>3, <2>1, DeskTyped DEF IInv
<1>5. meant # i => meant \in 1..(i - 1) /\ requests[meant].outcome = "answered"
  <2> SUFFICES ASSUME meant # i
               PROVE  meant \in 1..(i - 1) /\ requests[meant].outcome = "answered"
    OBVIOUS
  <2>1. meant \in DOMAIN requests /\ requests[meant].kind = "question"
    BY DEF IInv, WaitInv, AnswersQuestions
  <2>2. meant \in 1..(i - 1)
    BY <1>1, <2>1, RequestTyped DEF IInv
  <2> QED BY <1>1, <2>1, <2>2 DEF IInv, WaitInv, GrantedSoFar
<1>6. WaitInv'
  BY <1>2, <1>3, <1>4, <1>5, SettledKeeps DEF Outcome
<1>7. TypeOK'
  BY <1>1, <1>2, <1>3, <1>4
     DEF IInv, TypeOK, SettledAt, DeskTicket, TicketStatus, Answer, runVars, deviceVars
<1>8. ~stopped
  BY DEF IInv, WaitInv, StopEndsWaits
<1> QED BY <1>6, <1>7, <1>8
     DEF IInv, SettledWhenEnded, OpenIsOwned, HandoverStands, Answer, runVars, deviceVars

\* The four ways a request is settled one by one.
LEMMA SettlingKeeps ==
    ASSUME IInv, Decide \/ ConsoleAnswers \/ PortalAnswerIsRead \/ TimeOut
    PROVE  IInv'
<1>0. ASSUME NEW i \in pending
      PROVE  /\ i \in DOMAIN requests /\ i \in 1..MaxRequests /\ ~stopped
             /\ 0 \in 0..MaxRequests /\ timers = pending
  BY <1>0 DEF IInv, WaitInv, PendingIsTimed, StopEndsWaits, TypeOK
<1>1. CASE Decide
  <2>1. PICK i \in pending, outcome \in {"approved", "declined"} :
          /\ requests[i].kind = "approval"
          /\ Settle(i, outcome, i)
          /\ announced' = announced \cup {i}
    BY <1>1 DEF Decide
  <2>2. SettledAt(i, outcome, i) /\ UNCHANGED <<runVars, deviceVars, desk, typing>>
    BY <1>0, <1>1, <2>1, SettleSettles DEF Decide, IInv, WaitInv, Outcome
  <2>3. WaitInv'
    BY <1>0, <2>1, <2>2, SettledKeeps DEF Outcome
  <2>4. TypeOK'
    BY <1>0, <2>1, <2>2 DEF IInv, TypeOK, SettledAt, runVars, deviceVars
  <2> QED BY <2>2, <2>3, <2>4
       DEF IInv, SettledWhenEnded, OpenIsOwned, HandoverStands, runVars, deviceVars
<1>2. CASE ConsoleAnswers
  <2>1. PICK i \in pending : requests[i].kind = "question" /\ Answer(i, i)
    BY <1>2 DEF ConsoleAnswers
  <2>2. typing' = typing /\ i # 0 /\ i \in 0..MaxRequests
    BY <1>0, <1>2 DEF ConsoleAnswers
  <2> QED BY <2>1, <2>2, AnswerKeeps
<1>3. CASE PortalAnswerIsRead
  <2>1. CASE registered /\ desk.question \in pending
    <3>1. Answer(desk.question, typing) /\ typing # 0 /\ typing' = 0
      BY <1>3, <2>1 DEF PortalAnswerIsRead
    <3>2. requests[desk.question].kind = "question" /\ typing \in 0..MaxRequests
      BY <1>0, <2>1 DEF IInv, WaitInv, AnswersQuestions, TypeOK
    <3> QED BY <2>1, <3>1, <3>2, AnswerKeeps
  <2>2. CASE ~(registered /\ desk.question \in pending)
    <3>1. typing' = 0 /\ UNCHANGED <<runVars, waitVars, deviceVars, desk>>
      BY <1>3, <2>2 DEF PortalAnswerIsRead
    <3>2. WaitInv'
      BY <3>1, WaitsStand DEF runVars
    <3>3. TypeOK'
      BY <3>1 DEF IInv, TypeOK, runVars, waitVars, deviceVars
    <3> QED BY <3>1, <3>2, <3>3
         DEF IInv, SettledWhenEnded, OpenIsOwned, HandoverStands, runVars, deviceVars
  <2> QED BY <2>1, <2>2
<1>4. CASE TimeOut
  <2>1. PICK i \in timers : Settle(i, "timeout", 0)
                         /\ announced' = IF requests[i].kind = "approval"
                                         THEN announced \cup {i} ELSE announced
    BY <1>4 DEF TimeOut
  <2>2. i \in pending
    BY DEF IInv, WaitInv, PendingIsTimed
  <2>3. SettledAt(i, "timeout", 0) /\ UNCHANGED <<runVars, deviceVars, desk, typing>>
    BY <1>0, <1>4, <2>1, <2>2, SettleSettles DEF TimeOut, IInv, WaitInv, Outcome
  <2>4. WaitInv'
    BY <1>0, <2>1, <2>2, <2>3, SettledKeeps DEF Outcome
  <2>5. TypeOK'
    BY <1>0, <2>1, <2>2, <2>3 DEF IInv, TypeOK, SettledAt, runVars, deviceVars
  <2> QED BY <2>3, <2>4, <2>5
       DEF IInv, SettledWhenEnded, OpenIsOwned, HandoverStands, runVars, deviceVars
<1> QED BY <1>1, <1>2, <1>3, <1>4

\* The user's stop settles the request that is pending, if there is one.
LEMMA UserStopKeeps ==
    ASSUME IInv, UserStop
    PROVE  IInv'
<1>1. /\ Release("stopped") /\ announced' = announced \cup pending /\ typing' = typing
      /\ desk' = [status |-> "escalated", question |-> 0, handedOver |-> TRUE]
  BY DEF UserStop
<1>2. desk'.question = 0
  BY <1>1
<1>3. WaitInv' /\ requests' \in Seq(Request) /\ DOMAIN requests' = DOMAIN requests
      /\ Len(requests') = Len(requests) /\ pending' = {} /\ timers' = {}
  <2>1. CASE pending = {}
    <3>1. UNCHANGED waitVars
      BY <1>1, <2>1, ReleaseSettles DEF IInv, WaitInv, PendingIsTimed, Outcome, waitVars
    <3>2. driver' = driver
      BY DEF UserStop
    <3>3. WaitInv'
      BY <1>1, <1>2, <2>1, <3>1, <3>2, WaitsStand
    <3> QED BY <2>1, <3>1, <3>3 DEF IInv, WaitInv, PendingIsTimed, TypeOK, waitVars
  <2>2. CASE pending # {}
    <3>1. PICK i \in pending : TRUE
      BY <2>2
    <3>2. i \in DOMAIN requests /\ requests[i].meant \in 0..MaxRequests
      BY RequestTyped DEF IInv, WaitInv, PendingIsTimed
    <3>3. SettledAt(i, "stopped", requests[i].meant)
      BY <1>1, ReleaseSettles DEF IInv, WaitInv, Outcome
    <3>4. WaitInv'
      BY <1>1, <1>2, <3>2, <3>3, SettledKeeps DEF Outcome
    <3> QED BY <3>3, <3>4 DEF SettledAt
  <2> QED BY <2>1, <2>2
<1>4. TypeOK'
  <2>1. desk' \in DeskTicket
    BY <1>1 DEF DeskTicket, TicketStatus
  <2>2. announced' \subseteq DOMAIN requests'
    BY <1>1, <1>3 DEF IInv, TypeOK
  <2>3. channel' \in {"none", "open", "ending", "closed"}
    BY DEF IInv, TypeOK, UserStop, CloseDevice
  <2>4. Len(requests') <= MaxRequests
    BY <1>3 DEF IInv, TypeOK
  <2> QED BY <1>1, <1>3, <2>1, <2>2, <2>3, <2>4
       DEF IInv, TypeOK, DeskTicket, TicketStatus, UserStop, CloseDevice
<1> QED BY <1>1, <1>3, <1>4
     DEF IInv, SettledWhenEnded, OpenIsOwned, HandoverStands, UserStop, CloseDevice

\* What is served beside the run.
LEMMA BesideKeeps ==
    ASSUME IInv, WaitReturns \/ ChannelEnds \/ PortalAnswerArrives
                 \/ WindowCloses \/ Evict \/ UNCHANGED vars
    PROVE  IInv'
<1>1. CASE WaitReturns
  <2>1. desk' \in DeskTicket
        /\ desk'.question = desk.question
    <3>1. "working" \in TicketStatus /\ 0 \in 0..MaxRequests
      BY DEF TicketStatus
    <3>2. desk' = desk \/ desk' = [desk EXCEPT !.status = "working"]
      BY <1>1 DEF WaitReturns
    <3>3. CASE desk' = desk
      BY <3>3 DEF IInv, TypeOK, DeskTicket, TicketStatus
    <3>4. CASE desk' = [desk EXCEPT !.status = "working"]
      BY <3>1, <3>4, DeskTyped DEF IInv
    <3> QED BY <3>2, <3>3, <3>4
  <2>2. WaitInv'
    BY <1>1, <2>1, WaitsStand DEF WaitReturns
  <2>3. TypeOK'
    BY <1>1, <2>1 DEF IInv, TypeOK, DeskTicket, TicketStatus, WaitReturns, waitVars, deviceVars
  <2> QED BY <1>1, <2>2, <2>3
       DEF IInv, SettledWhenEnded, OpenIsOwned, HandoverStands, WaitReturns, deviceVars
<1>2. CASE ChannelEnds
  <2>1. WaitInv'
    BY <1>2, WaitsStand DEF ChannelEnds, runVars
  <2>2. TypeOK'
    BY <1>2 DEF IInv, TypeOK, ChannelEnds, runVars, waitVars
  <2> QED BY <1>2, <2>1, <2>2
       DEF IInv, SettledWhenEnded, OpenIsOwned, HandoverStands, ChannelEnds, runVars
<1>3. CASE PortalAnswerArrives
  <2>1. /\ typing' = desk.question /\ desk.question \in 0..MaxRequests
        /\ UNCHANGED <<runVars, waitVars, deviceVars, desk>>
    BY <1>3 DEF PortalAnswerArrives, IInv, TypeOK
  <2>2. WaitInv'
    BY <2>1, WaitsStand DEF runVars
  <2>3. TypeOK'
    BY <2>1 DEF IInv, TypeOK, runVars, waitVars, deviceVars
  <2> QED BY <2>1, <2>2, <2>3
       DEF IInv, SettledWhenEnded, OpenIsOwned, HandoverStands, runVars, deviceVars
<1>4. CASE WindowCloses
  <2>1. WaitInv'
    BY <1>4, WaitsStand DEF WindowCloses, runVars
  <2>2. TypeOK'
    <3>1. channel' \in {"none", "open", "ending", "closed"}
      BY <1>4 DEF IInv, TypeOK, WindowCloses, CloseDevice
    <3>2. /\ UNCHANGED <<runVars, waitVars, held, registered, desk, typing>>
          /\ window' = FALSE /\ attached' = FALSE
      BY <1>4 DEF WindowCloses, CloseDevice
    <3>3. UNCHANGED <<target, driver, status, stopped, requests, pending, timers, announced>>
      BY <3>2 DEF runVars, waitVars
    <3>4. TypeOK /\ held \in BOOLEAN /\ registered \in BOOLEAN
      BY DEF IInv, TypeOK
    <3>5. /\ attached' \in BOOLEAN /\ held' \in BOOLEAN
          /\ window' \in BOOLEAN /\ registered' \in BOOLEAN
      BY <3>2, <3>4
    <3> QED BY <3>1, <3>2, <3>3, <3>4, <3>5 DEF TypeOK
  <2> QED BY <1>4, <2>1, <2>2
       DEF IInv, SettledWhenEnded, OpenIsOwned, HandoverStands, WindowCloses, CloseDevice, runVars
<1>5. CASE Evict
  <2>1. WaitInv'
    BY <1>5, WaitsStand DEF Evict, runVars
  <2>2. TypeOK'
    <3>1. channel' \in {"none", "open", "ending", "closed"}
      BY <1>5 DEF IInv, TypeOK, Evict, CloseDevice
    <3>2. /\ UNCHANGED <<runVars, waitVars, held, desk, typing>>
          /\ window' = FALSE /\ attached' = FALSE /\ registered' = FALSE
      BY <1>5 DEF Evict, CloseDevice
    <3>3. UNCHANGED <<target, driver, status, stopped, requests, pending, timers, announced>>
      BY <3>2 DEF runVars, waitVars
    <3>4. TypeOK /\ held \in BOOLEAN /\ registered \in BOOLEAN
      BY DEF IInv, TypeOK
    <3>5. /\ attached' \in BOOLEAN /\ held' \in BOOLEAN
          /\ window' \in BOOLEAN /\ registered' \in BOOLEAN
      BY <3>2, <3>4
    <3> QED BY <3>1, <3>2, <3>3, <3>4, <3>5 DEF TypeOK
  <2> QED BY <1>5, <2>1, <2>2
       DEF IInv, SettledWhenEnded, OpenIsOwned, HandoverStands, Evict, CloseDevice, runVars
<1>6. CASE UNCHANGED vars
  <2>1. UNCHANGED <<runVars, waitVars, deviceVars, desk, typing>>
    BY <1>6 DEF vars
  <2>2. WaitInv'
    BY <2>1, WaitsStand DEF runVars
  <2>3. TypeOK'
    BY <2>1 DEF IInv, TypeOK, runVars, waitVars, deviceVars
  <2> QED BY <2>1, <2>2, <2>3
       DEF IInv, SettledWhenEnded, OpenIsOwned, HandoverStands, runVars, deviceVars
<1> QED BY <1>1, <1>2, <1>3, <1>4, <1>5, <1>6

\* The initial states have the invariant.
LEMMA InitHolds == Init => IInv
<1> SUFFICES ASSUME Init PROVE IInv
  OBVIOUS
<1>1. requests = <<>> /\ pending = {} /\ timers = {} /\ announced = {} /\ DOMAIN requests = {}
  BY DEF Init
<1>2. TypeOK
  <2>1. requests \in Seq(Request) /\ Len(requests) <= MaxRequests
    BY <1>1
  <2>2. desk \in DeskTicket
    BY DEF Init, DeskTicket, TicketStatus
  <2> QED BY <1>1, <2>1, <2>2 DEF Init, TypeOK, DeskTicket, TicketStatus
<1>3. WaitInv
  BY <1>1 DEF Init, WaitInv, PendingIsTimed, ApprovalsAreAnnounced, StrayAnswerWasOvertaken,
              StopEndsWaits, GrantedSoFar, AnswersQuestions
<1> QED BY <1>2, <1>3 DEF Init, IInv, SettledWhenEnded, OpenIsOwned, HandoverStands

\* Every step keeps it.
LEMMA StepKeeps == IInv /\ [Next]_vars => IInv'
<1> SUFFICES ASSUME IInv, [Next]_vars PROVE IInv'
  OBVIOUS
<1>1. CASE Progress
  BY <1>1, DriverKeeps, EndKeeps, SettlingKeeps, BesideKeeps DEF Progress
<1>2. CASE Humans
  BY <1>2, RequestKeeps, SettlingKeeps, UserStopKeeps, BesideKeeps DEF Humans
<1>3. CASE Quiet \/ UNCHANGED vars
  BY <1>3, BesideKeeps DEF Quiet
<1> QED BY <1>1, <1>2, <1>3 DEF Next

-----------------------------------------------------------------------------
LEMMA Invariance == Spec => []IInv
BY InitHolds, StepKeeps, PTL DEF Spec

(***************************************************************************)
(* The state of a run keeps its shape (DeskRun.TypeOK).                    *)
(***************************************************************************)
THEOREM TypeCorrect == Spec => []TypeOK
BY Invariance, PTL DEF IInv

(***************************************************************************)
(* Nothing is left waiting: whatever becomes of a run, a request is        *)
(* pending exactly while its timer is armed and the run suspended on it    *)
(* (requestApproval, ask, requestUserStop and finish of run-registry.ts).  *)
(***************************************************************************)
THEOREM NothingIsLeftWaiting == Spec => []PendingIsTimed
BY Invariance, PTL DEF IInv, WaitInv

(***************************************************************************)
(* The browsers hear of every approval's end, since a run that ends has    *)
(* none pending for its finish to settle in silence (decide and            *)
(* requestUserStop of run-registry.ts).                                    *)
(***************************************************************************)
THEOREM ApprovalCardsSettle == Spec => []ApprovalsAreAnnounced
BY Invariance, PTL DEF IInv, WaitInv

(***************************************************************************)
(* A user's handover is final: no answer, wait or end of the run served    *)
(* after it moves the ticket (handOverToPerson and the gate in index.ts).  *)
(***************************************************************************)
THEOREM HandoverIsFinal == Spec => []HandoverStands
BY Invariance, PTL DEF IInv

(***************************************************************************)
(* No connection to someone's machine is orphaned: while it is open the    *)
(* driver holds it, or an undo window of a session the registry still      *)
(* knows (startRun in index.ts, attachDevice and closeDevice).             *)
(***************************************************************************)
THEOREM MachineHasAnOwner == Spec => []ChannelHasAnOwner
<1>1. IInv => ChannelHasAnOwner
  BY DEF IInv, OpenIsOwned, ChannelHasAnOwner
<1> QED BY <1>1, Invariance, PTL

(***************************************************************************)
(* An answer from the portal resolves a later question than the one it was *)
(* written for only when the other surface had answered that one: a run    *)
(* asks again only once everything it asked was granted or answered        *)
(* (the answer route of index.ts, answerQuestion of run-registry.ts).      *)
(***************************************************************************)
THEOREM StrayAnswersWereOvertaken == Spec => []StrayAnswerWasOvertaken
BY Invariance, PTL DEF IInv, WaitInv
=============================================================================
