--------------------------- MODULE UndoWindowProofs ---------------------------
(***************************************************************************)
(* Theorems about a run on a remote machine and the undos that follow it,  *)
(* for any number of changes, undos, relays and faults.                    *)
(*                                                                         *)
(* The shell numbers nothing: a result is matched to a command by the      *)
(* order in which sentinels come back.  What makes that right is that one  *)
(* relay at a time has anything to run (OneShell), that it runs in the     *)
(* order of the queue whatever was typed on the relays before it (InLine), *)
(* and that an answer still to come belongs to the command being served    *)
(* unless a command before it on that relay was given up (Owed).           *)
(***************************************************************************)
EXTENDS UndoWindow, TLAPS

Among(c, s) == \E i \in DOMAIN s : s[i] = c

Frames == [of: Commands, kind: {"echo", "done"}]

\* The shape of the shell's whole state.
ShellShape ==
    /\ ShellTypeOK
    /\ given \in 0..MaxCommands
    /\ results \in [Commands -> [outcome: Outcomes, of: 0..MaxCommands]]
    /\ line \in [Commands -> 0..MaxRelays]
    /\ sockets \in [Relays -> {"unused", "open", "joined", "closed"}]
    /\ typed \in [Relays -> Seq(Commands)]
    /\ frames \in [Relays -> Seq(Frames)]
    /\ ran \in Seq(Commands)
    /\ phase # "idle" => queue # <<>>
    /\ \A c \in Commands : c > given => results[c] = Pending

\* Only the relay the session holds has commands to run; one that nobody joined
\* yet was given none, one that is not joined sends nothing, and no other is
\* opened while the session's own works.
OneShell ==
    /\ \A r \in Relays :
         /\ sockets[r] = "joined" /\ typed[r] # <<>> => r = relay
         /\ sockets[r] \in {"unused", "open"} => typed[r] = <<>> /\ r # relay
         /\ frames[r] # <<>> => sockets[r] = "joined"
    /\ phase \in {"connect", "login", "socket", "join"} => ~Connected

\* The answer to c is awaited.
Awaited(c) == phase = "output" /\ queue # <<>> /\ c = Head(queue)

\* What was typed comes before all that waits, in the order of the calls, and
\* what a live shell has still to run comes after all that was run.
Sent(c) == Among(c, ran) \/ \E r \in Relays : Among(c, typed[r])
InLine ==
    /\ RunsInOrder
    /\ \A r \in Relays : \A i, j \in DOMAIN typed[r] : i < j => typed[r][i] < typed[r][j]
    /\ \A r \in Relays : sockets[r] = "joined" =>
         \A i \in DOMAIN ran, j \in DOMAIN typed[r] : ran[i] < typed[r][j]
    /\ \A c \in Commands : Sent(c) =>
         c <= given /\ \A i \in DOMAIN queue : c < queue[i] \/ (i = 1 /\ Awaited(c))

\* An answer still to come is to the command being served, to one given up, or
\* to one that came after one given up on the same relay.
Owed(c, r) ==
    /\ line[c] = r
    /\ results[c] = Failed \/ GivenUpBefore(c) \/ Awaited(c)
Answers(f) == f.kind = "done"
InFrame(r, k) ==
    Answers(frames[r][k]) =>
      /\ Among(frames[r][k].of, ran)
      /\ Owed(frames[r][k].of, r)
      /\ \A j \in 1..(k - 1) : Answers(frames[r][j]) => frames[r][j].of < frames[r][k].of
FramesOwed == \A r \in Relays : \A k \in DOMAIN frames[r] : InFrame(r, k)
TypedOwed  == \A r \in Relays, c \in Commands : Among(c, typed[r]) => Owed(c, r)
Answered   == FramesOwed /\ TypedOwed /\ (phase = "output" => line[Head(queue)] = at)

LineInv == InLine /\ Answered /\ ResultIsItsOwn
ShellInv == ShellShape /\ OneShell /\ LineInv

\* The record and the requests to undo: no call is recorded twice, and the
\* calls of the undos under way are still to be recorded.
RecordShape ==
    /\ record \in Seq([id: Commands, undoes: 0..MaxCommands, ok: BOOLEAN])
    /\ undos \in Seq([of: Commands, call: 0..MaxCommands,
                      state: {"reading", "refused", "running", "done", "failed"}])
    /\ run \in {"working", "stopped", "finished", "over"}
RecordedOnce ==
    /\ \A i, j \in DOMAIN record : i # j => record[i].id # record[j].id
    /\ \A i \in DOMAIN record : record[i].id <= given
    /\ run = "working" =>
         /\ undos = <<>> /\ given <= Len(record) + 1
         /\ \A i \in DOMAIN record : record[i].id = i
    /\ \A u \in DOMAIN undos :
         /\ undos[u].call <= given
         /\ undos[u].call # 0 <=> undos[u].state \in {"running", "done", "failed"}
         /\ undos[u].state = "running" => \A i \in DOMAIN record : record[i].id # undos[u].call
         /\ \A v \in DOMAIN undos : u # v /\ undos[u].call # 0 => undos[u].call # undos[v].call

Books == RecordShape /\ RecordedOnce /\ UndoIsOnTheRecord

IInv == ShellInv /\ Books

-----------------------------------------------------------------------------
USE ShellAssumption DEF ShellAssumption, Commands, Relays

\* What was appended, and what is left when the first is taken.
LEMMA AppendFacts ==
    ASSUME NEW S, NEW s \in Seq(S), NEW e \in S
    PROVE  /\ Append(s, e) \in Seq(S) /\ Append(s, e) # <<>>
           /\ Len(s) \in Nat /\ DOMAIN s = 1..Len(s)
           /\ DOMAIN Append(s, e) = 1..(Len(s) + 1)
           /\ Append(s, e)[Len(s) + 1] = e
           /\ \A i \in 1..Len(s) : Append(s, e)[i] = s[i]
           /\ \A c : Among(c, Append(s, e)) <=> Among(c, s) \/ c = e
<1>1. /\ Append(s, e) \in Seq(S) /\ Append(s, e) # <<>>
      /\ Len(s) \in Nat /\ DOMAIN s = 1..Len(s)
      /\ DOMAIN Append(s, e) = 1..(Len(s) + 1)
      /\ Append(s, e)[Len(s) + 1] = e
      /\ \A i \in 1..Len(s) : Append(s, e)[i] = s[i]
  OBVIOUS
<1> QED BY <1>1 DEF Among

LEMMA TailFacts ==
    ASSUME NEW S, NEW s \in Seq(S), s # <<>>
    PROVE  /\ Head(s) \in S /\ Head(s) = s[1]
           /\ Len(s) \in Nat \ {0} /\ DOMAIN s = 1..Len(s)
           /\ Tail(s) \in Seq(S) /\ DOMAIN Tail(s) = 1..(Len(s) - 1)
           /\ \A i \in 1..(Len(s) - 1) : Tail(s)[i] = s[i + 1]
           /\ \A c : Among(c, Tail(s)) => Among(c, s)
           /\ Among(s[1], s)
<1>1. /\ Head(s) \in S /\ Head(s) = s[1]
      /\ Len(s) \in Nat \ {0} /\ DOMAIN s = 1..Len(s)
      /\ Tail(s) \in Seq(S) /\ DOMAIN Tail(s) = 1..(Len(s) - 1)
      /\ \A i \in 1..(Len(s) - 1) : Tail(s)[i] = s[i + 1]
  OBVIOUS
<1> QED BY <1>1 DEF Among

\* What stands in the sequences.
LEMMA ShapeFacts ==
    ASSUME ShellShape
    PROVE  /\ ran \in Seq(Commands) /\ \A i \in DOMAIN ran : ran[i] \in Commands
           /\ \A r \in Relays : /\ typed[r] \in Seq(Commands) /\ frames[r] \in Seq(Frames)
                                /\ \A i \in DOMAIN typed[r] : typed[r][i] \in Commands
                                /\ \A i \in DOMAIN frames[r] : frames[r][i].of \in Commands
           /\ queue \in Seq(1..given) /\ given \in Nat /\ given <= MaxCommands
           /\ \A i \in DOMAIN queue : queue[i] \in Commands /\ queue[i] <= given
<1>1. /\ ran \in Seq(Commands)
      /\ \A r \in Relays : typed[r] \in Seq(Commands) /\ frames[r] \in Seq(Frames)
      /\ queue \in Seq(1..given) /\ given \in Nat /\ given <= MaxCommands
  <2>1. ran \in Seq(Commands) /\ queue \in Seq(1..given) /\ given \in 0..MaxCommands
    BY DEF ShellShape, ShellTypeOK
  <2>2. typed \in [Relays -> Seq(Commands)] /\ frames \in [Relays -> Seq(Frames)]
    BY DEF ShellShape
  <2>3. \A r \in Relays : typed[r] \in Seq(Commands) /\ frames[r] \in Seq(Frames)
    BY <2>2
  <2> QED BY <2>1, <2>3
<1>2. \A i \in DOMAIN ran : ran[i] \in Commands
  BY <1>1
<1>3. ASSUME NEW r \in Relays
      PROVE  /\ \A i \in DOMAIN typed[r] : typed[r][i] \in Commands
             /\ \A i \in DOMAIN frames[r] : frames[r][i] \in Frames
  BY <1>1
<1>4. \A i \in DOMAIN queue : queue[i] \in 1..given
  BY <1>1
<1>5. \A i \in DOMAIN queue : queue[i] \in Commands /\ queue[i] <= given
  BY <1>1, <1>4
<1> QED BY <1>1, <1>2, <1>3, <1>5 DEF Frames

\* What each variable holds.
LEMMA StateFacts ==
    ASSUME ShellShape
    PROVE  /\ status \in Statuses /\ control \in {"none", "open", "closed"} /\ cookies \in BOOLEAN
           /\ relay \in 0..MaxRelays /\ at \in 0..MaxRelays /\ phase \in Phases
           /\ phase \in {"join", "output"} <=> at # 0
           /\ phase # "idle" => queue # <<>>
           /\ faults \in 0..MaxFaults
           /\ line \in [Commands -> 0..MaxRelays]
           /\ sockets \in [Relays -> {"unused", "open", "joined", "closed"}]
           /\ typed \in [Relays -> Seq(Commands)] /\ frames \in [Relays -> Seq(Frames)]
           /\ ran \in Seq(Commands)
BY DEF ShellShape, ShellTypeOK

\* The command being served is the first of those that wait.
LEMMA QueueFacts ==
    ASSUME ShellShape, queue # <<>>
    PROVE  /\ Head(queue) = queue[1] /\ 1 \in DOMAIN queue
           /\ Head(queue) \in Commands /\ Head(queue) <= given
           /\ results[Head(queue)] = Pending
           /\ Tail(queue) \in Seq(1..given)
           /\ DOMAIN Tail(queue) = 1..(Len(queue) - 1) /\ DOMAIN queue = 1..Len(queue)
           /\ Len(queue) \in Nat
           /\ \A i \in DOMAIN Tail(queue) : /\ Tail(queue)[i] = queue[i + 1]
                                            /\ i + 1 \in DOMAIN queue
                                            /\ queue[1] < queue[i + 1]
<1>1. queue \in Seq(1..given) /\ given \in Nat /\ given <= MaxCommands
  BY DEF ShellShape, ShellTypeOK
<1>2. /\ Head(queue) \in 1..given /\ Head(queue) = queue[1]
      /\ Len(queue) \in Nat \ {0} /\ DOMAIN queue = 1..Len(queue)
      /\ Tail(queue) \in Seq(1..given) /\ DOMAIN Tail(queue) = 1..(Len(queue) - 1)
      /\ \A i \in 1..(Len(queue) - 1) : Tail(queue)[i] = queue[i + 1]
  BY <1>1, TailFacts
<1>3. results[queue[1]] = Pending
  <2>1. 1 \in DOMAIN queue /\ queue[1] \in 1..given
    BY <1>2
  <2> QED BY <2>1 DEF ShellShape, ShellTypeOK
<1>4. \A i \in 1..(Len(queue) - 1) : queue[1] < queue[i + 1]
  <2>1. \A i, j \in DOMAIN queue : i < j => queue[i] < queue[j]
    BY DEF ShellShape, ShellTypeOK
  <2> QED BY <1>2, <2>1
<1>5. queue[1] \in Commands /\ queue[1] <= given
  BY <1>1, <1>2
<1> QED BY <1>2, <1>3, <1>4, <1>5

-----------------------------------------------------------------------------
(***************************************************************************)
(* What a step must leave alone for the answers to stay in line.           *)
(***************************************************************************)
\* The frames a step leaves are the last of those there were.
FramesShrink ==
    \A r \in Relays : \E m \in 0..Len(frames[r]) :
       /\ DOMAIN frames'[r] = 1..(Len(frames[r]) - m)
       /\ \A k \in 1..(Len(frames[r]) - m) : frames'[r][k] = frames[r][k + m]

\* So they still answer commands that were run, in the order they were.
LEMMA FramesKeep ==
    ASSUME ShellInv, FramesShrink, NEW r \in Relays, NEW k \in DOMAIN frames'[r],
           Answers(frames'[r][k])
    PROVE  /\ frames'[r][k].of \in Commands
           /\ Among(frames'[r][k].of, ran)
           /\ Owed(frames'[r][k].of, r)
           /\ \A j \in 1..(k - 1) : Answers(frames'[r][j]) => frames'[r][j].of < frames'[r][k].of
<1>1. PICK m \in 0..Len(frames[r]) :
        /\ DOMAIN frames'[r] = 1..(Len(frames[r]) - m)
        /\ \A i \in 1..(Len(frames[r]) - m) : frames'[r][i] = frames[r][i + m]
  BY DEF FramesShrink
<1>2. frames[r] \in Seq(Frames)
  BY DEF ShellInv, ShellShape
<1>3. Len(frames[r]) \in Nat /\ DOMAIN frames[r] = 1..Len(frames[r])
  BY <1>2
<1>4. PICK n \in DOMAIN frames[r] : n = k + m /\ frames'[r][k] = frames[r][n]
  BY <1>1, <1>3
<1>5. \A j \in 1..(k - 1) : j + m \in 1..(n - 1) /\ frames'[r][j] = frames[r][j + m]
  BY <1>1, <1>3, <1>4
<1>6. frames[r][n].of \in Commands
  <2>1. frames[r][n] \in Frames
    BY <1>2, <1>4
  <2> QED BY <2>1 DEF Frames
<1>7. InFrame(r, n)
  BY <1>4 DEF ShellInv, LineInv, Answered, FramesOwed
<1>8. /\ Among(frames[r][n].of, ran) /\ Owed(frames[r][n].of, r)
      /\ \A j \in 1..(n - 1) : Answers(frames[r][j]) => frames[r][j].of < frames[r][n].of
  BY <1>4, <1>7 DEF InFrame
<1>9. \A j \in 1..(k - 1) : Answers(frames'[r][j]) => frames'[r][j].of < frames'[r][k].of
  BY <1>4, <1>5, <1>8
<1> QED BY <1>4, <1>6, <1>8, <1>9

\* A command given up before another stays so.
LEMMA GivenUpStays ==
    ASSUME ShellShape, NEW c \in Commands, GivenUpBefore(c), line'[c] = line[c],
           \A d \in Commands : results[d] = Failed => results'[d] = Failed /\ line'[d] = line[d]
    PROVE  GivenUpBefore(c)'
BY DEF GivenUpBefore

\* Results stay their commands' own if what is new is.
LEMMA ResultsKeep ==
    ASSUME ShellShape, ResultIsItsOwn,
           \A d \in Commands : results[d] = Failed => results'[d] = Failed /\ line'[d] = line[d],
           \A c \in Commands : \/ results'[c] = results[c] /\ line'[c] = line[c]
                               \/ results'[c].outcome # "returned"
                               \/ GivenUpBefore(c)'
                               \/ results'[c].of = c /\ Among(c, ran'),
           \A c \in Commands : Among(c, ran) => Among(c, ran')
    PROVE  ResultIsItsOwn'
<1> SUFFICES ASSUME NEW c \in Commands, results'[c].outcome = "returned", ~GivenUpBefore(c)'
             PROVE  results'[c].of = c /\ Among(c, ran')
  BY DEF ResultIsItsOwn, Among
<1>1. CASE results'[c] = results[c] /\ line'[c] = line[c]
  <2>1. ~GivenUpBefore(c)
    BY <1>1, GivenUpStays
  <2> QED BY <1>1, <2>1 DEF ResultIsItsOwn, Among
<1> QED BY <1>1

\* Answers that arrive or are lost, and a run that waits for another reason,
\* change nothing in what is owed.
LEMMA QuietKeeps ==
    ASSUME ShellInv, UNCHANGED <<queue, given, results, line, typed, ran>>, FramesShrink,
           (phase' = phase /\ at' = at) \/ "output" \notin {phase, phase'},
           \A r \in Relays : sockets'[r] = "joined" => sockets[r] = "joined" \/ typed[r] = <<>>
    PROVE  LineInv'
<1>1. \A c : Awaited(c)' <=> Awaited(c)
  BY DEF Awaited
<1>2. \A c, r : Owed(c, r)' <=> Owed(c, r)
  BY <1>1 DEF Owed, GivenUpBefore
<1>3. InLine'
  BY <1>1 DEF ShellInv, LineInv, InLine, RunsInOrder, Sent
<1>4. Answered'
  <2>1. phase' = "output" => line'[Head(queue')] = at'
    BY DEF ShellInv, LineInv, Answered
  <2>2. TypedOwed'
    BY <1>2 DEF ShellInv, LineInv, Answered, TypedOwed
  <2>3. FramesOwed'
    <3> SUFFICES ASSUME NEW r \in Relays, NEW k \in DOMAIN frames'[r], Answers(frames'[r][k])
                 PROVE  InFrame(r, k)'
      BY DEF FramesOwed, InFrame
    <3> QED BY <1>2, FramesKeep DEF InFrame
  <2> QED BY <2>1, <2>2, <2>3 DEF Answered
<1>5. ResultIsItsOwn'
  BY DEF ShellInv, LineInv, ResultIsItsOwn, GivenUpBefore
<1> QED BY <1>3, <1>4, <1>5 DEF LineInv

\* The command being served is settled, as failed or by an answer of its own.
LEMMA SettleKeeps ==
    ASSUME ShellInv, queue # <<>>, NEW result, UNCHANGED <<given, line, typed, ran>>, FramesShrink,
           queue' = Tail(queue), results' = [results EXCEPT ![Head(queue)] = result],
           phase' = "idle",
           result = Failed \/ \/ GivenUpBefore(Head(queue))
                              \/ /\ result.of = Head(queue) /\ Among(Head(queue), ran)
                                 /\ \A r \in Relays :
                                      /\ ~Among(Head(queue), typed[r])
                                      /\ \A k \in DOMAIN frames'[r] : Answers(frames'[r][k])
                                           => frames'[r][k].of # Head(queue),
           \A r \in Relays : sockets'[r] = "joined" => sockets[r] = "joined"
    PROVE  LineInv'
<1> DEFINE h == Head(queue)
<1>1. /\ h \in Commands /\ h = queue[1] /\ results[h] = Pending
      /\ results'[h] = result /\ \A c \in Commands \ {h} : results'[c] = results[c]
  BY QueueFacts DEF ShellInv, ShellShape
<1>2. \A d \in Commands : results[d] = Failed => results'[d] = Failed /\ line'[d] = line[d]
  BY <1>1 DEF Pending, Failed
<1>3. \A c \in Commands : GivenUpBefore(c) => GivenUpBefore(c)'
  BY <1>2, GivenUpStays DEF ShellInv
<1>4. \A c \in Commands, r \in Relays : Owed(c, r) =>
        Owed(c, r)' \/ (c = h /\ result # Failed /\ ~GivenUpBefore(h))
  BY <1>1, <1>2, <1>3 DEF Owed, Awaited
<1>5. InLine'
  <2>1. \A c \in Commands : Sent(c)' => Sent(c)
    BY DEF Sent
  <2>2. \A c \in Commands : Sent(c)' => c <= given' /\ \A i \in DOMAIN queue' : c < queue'[i]
    BY <2>1, QueueFacts DEF ShellInv, LineInv, InLine
  <2> QED BY <2>2 DEF ShellInv, LineInv, InLine, RunsInOrder
<1>6. Answered'
  <2>1. TypedOwed'
    BY <1>4 DEF ShellInv, LineInv, Answered, TypedOwed
  <2>2. FramesOwed'
    <3> SUFFICES ASSUME NEW r \in Relays, NEW k \in DOMAIN frames'[r], Answers(frames'[r][k])
                 PROVE  InFrame(r, k)'
      BY DEF FramesOwed, InFrame
    <3>1. PICK c \in Commands :
            /\ c = frames'[r][k].of /\ Among(c, ran) /\ Owed(c, r)
            /\ \A j \in 1..(k - 1) : Answers(frames'[r][j]) => frames'[r][j].of < c
      BY FramesKeep
    <3>2. Owed(c, r)'
      BY <1>4, <3>1
    <3> QED BY <3>1, <3>2 DEF InFrame, Owed, Awaited, GivenUpBefore, Among
  <2> QED BY <2>1, <2>2 DEF Answered
<1>7. ResultIsItsOwn'
  <2>1. \A c \in Commands : \/ results'[c] = results[c] /\ line'[c] = line[c]
                            \/ results'[c].outcome # "returned"
                            \/ GivenUpBefore(c)'
                            \/ results'[c].of = c /\ Among(c, ran')
    BY <1>1, <1>3 DEF Failed
  <2> QED BY <1>2, <2>1, ResultsKeep DEF ShellInv, LineInv
<1> QED BY <1>5, <1>6, <1>7 DEF LineInv


\* The next command is typed on a relay that is, or has just been, joined.
LEMMA TypeKeeps ==
    ASSUME ShellInv, queue # <<>>, phase # "output", NEW r \in Relays,
           UNCHANGED <<queue, given, results, ran>>,
           phase' = "output", at' = r,
           line' = [line EXCEPT ![Head(queue)] = r],
           sockets' = [sockets EXCEPT ![r] = "joined"],
           typed' = [typed EXCEPT ![r] = Append(@, Head(queue))],
           frames' = [frames EXCEPT ![r] = Append(@, Frame(Head(queue), "echo"))],
           sockets[r] \in {"open", "joined"}
    PROVE  LineInv'
<1> DEFINE h == Head(queue)
<1>1. /\ h \in Commands /\ h = queue[1] /\ h <= given /\ results[h] = Pending
      /\ line'[h] = r /\ \A c \in Commands \ {h} : line'[c] = line[c]
  BY QueueFacts DEF ShellInv, ShellShape
<1>2. \A c : Awaited(c)' <=> c = h
  BY DEF Awaited
<1>3. /\ typed[r] \in Seq(Commands) /\ typed'[r] = Append(typed[r], h)
      /\ frames[r] \in Seq(Frames) /\ frames'[r] = Append(frames[r], Frame(h, "echo"))
      /\ Frame(h, "echo") \in Frames /\ ~Answers(Frame(h, "echo"))
      /\ \A q \in Relays \ {r} : typed'[q] = typed[q] /\ frames'[q] = frames[q]
      /\ \A q \in Relays \ {r} : sockets'[q] = sockets[q]
  BY <1>1 DEF ShellInv, ShellShape, Frames, Frame, Answers
<1>4. /\ DOMAIN typed[r] = 1..Len(typed[r]) /\ Len(typed[r]) \in Nat
      /\ DOMAIN typed'[r] = 1..(Len(typed[r]) + 1) /\ typed'[r][Len(typed[r]) + 1] = h
      /\ \A i \in 1..Len(typed[r]) : typed'[r][i] = typed[r][i]
      /\ \A c : Among(c, typed'[r]) <=> Among(c, typed[r]) \/ c = h
  <2> DEFINE s == typed[r]
  <2>1. s \in Seq(Commands) /\ typed'[r] = Append(s, h) /\ h \in Commands
    BY <1>1, <1>3
  <2> HIDE DEF s, h
  <2>2. /\ DOMAIN s = 1..Len(s) /\ Len(s) \in Nat
        /\ DOMAIN Append(s, h) = 1..(Len(s) + 1) /\ Append(s, h)[Len(s) + 1] = h
        /\ \A i \in 1..Len(s) : Append(s, h)[i] = s[i]
        /\ \A c : Among(c, Append(s, h)) <=> Among(c, s) \/ c = h
    BY <2>1, AppendFacts
  <2> QED BY <2>1, <2>2 DEF s
<1>5. /\ DOMAIN frames[r] = 1..Len(frames[r]) /\ Len(frames[r]) \in Nat
      /\ DOMAIN frames'[r] = 1..(Len(frames[r]) + 1)
      /\ frames'[r][Len(frames[r]) + 1] = Frame(h, "echo")
      /\ \A i \in 1..Len(frames[r]) : frames'[r][i] = frames[r][i]
  <2> DEFINE s == frames[r]
             e == Frame(h, "echo")
  <2>1. s \in Seq(Frames) /\ frames'[r] = Append(s, e) /\ e \in Frames
    BY <1>3
  <2> HIDE DEF s, e
  <2>2. /\ DOMAIN s = 1..Len(s) /\ Len(s) \in Nat
        /\ DOMAIN Append(s, e) = 1..(Len(s) + 1) /\ Append(s, e)[Len(s) + 1] = e
        /\ \A i \in 1..Len(s) : Append(s, e)[i] = s[i]
    BY <2>1, AppendFacts
  <2> QED BY <2>1, <2>2 DEF s, e
\* Everything sent before comes before the command that is typed.
<1>6. \A c \in Commands : Sent(c) => c < h /\ c <= given
  BY <1>1, QueueFacts DEF ShellInv, LineInv, InLine, Awaited
<1>7. \A c \in Commands : Sent(c)' => Sent(c) \/ c = h
  BY <1>3, <1>4 DEF Sent
<1>8. \A i \in DOMAIN ran : ran[i] < h
  <2>1. \A i \in DOMAIN ran : ran[i] \in Commands /\ Sent(ran[i])
    BY ShapeFacts DEF ShellInv, Sent, Among
  <2> QED BY <1>6, <2>1
<1>9. \A i \in DOMAIN typed[r] : typed[r][i] < h
  <2>1. \A i \in DOMAIN typed[r] : typed[r][i] \in Commands /\ Sent(typed[r][i])
    BY ShapeFacts DEF ShellInv, Sent, Among
  <2> QED BY <1>6, <2>1
<1>10. InLine'
  <2>1. RunsInOrder'
    BY DEF ShellInv, LineInv, InLine, RunsInOrder
  <2>2. \A q \in Relays : \A i, j \in DOMAIN typed'[q] : i < j => typed'[q][i] < typed'[q][j]
    BY <1>3, <1>4, <1>9 DEF ShellInv, LineInv, InLine
  <2>3. \A q \in Relays : sockets'[q] = "joined" =>
          \A i \in DOMAIN ran', j \in DOMAIN typed'[q] : ran'[i] < typed'[q][j]
    <3>1. sockets[r] = "open" => DOMAIN typed[r] = {}
      BY DEF ShellInv, OneShell
    <3>2. \A i \in DOMAIN ran', j \in DOMAIN typed'[r] : ran'[i] < typed'[r][j]
      BY <1>4, <1>8, <3>1 DEF ShellInv, LineInv, InLine
    <3> QED BY <1>3, <3>2 DEF ShellInv, LineInv, InLine
  <2>4. \A c \in Commands : Sent(c)' =>
          c <= given' /\ \A i \in DOMAIN queue' : c < queue'[i] \/ (i = 1 /\ Awaited(c)')
    <3>1. \A i \in DOMAIN queue : i = 1 \/ h < queue[i]
      <4>1. \A i \in DOMAIN queue : i = 1 \/ (1 < i /\ 1 \in DOMAIN queue)
        BY QueueFacts DEF ShellInv
      <4> QED BY <1>1, <4>1 DEF ShellInv, ShellShape, ShellTypeOK
    <3>2. \A i \in DOMAIN queue : queue[i] \in Nat
      BY ShapeFacts DEF ShellInv
    <3> QED BY <1>1, <1>2, <1>6, <1>7, <3>1, <3>2
  <2> QED BY <2>1, <2>2, <2>3, <2>4 DEF InLine
<1>11. \A d \in Commands : results[d] = Failed => results'[d] = Failed /\ line'[d] = line[d]
  BY <1>1 DEF Pending, Failed
<1>12. \A c \in Commands \ {h}, q \in Relays : Owed(c, q) => Owed(c, q)'
  <2>1. \A c \in Commands \ {h} : GivenUpBefore(c) => GivenUpBefore(c)'
    BY <1>1, <1>11, GivenUpStays DEF ShellInv
  <2>2. \A c \in Commands : ~Awaited(c)
    BY DEF Awaited
  <2> QED BY <1>1, <2>1, <2>2 DEF Owed
<1>13. \A c \in Commands, q \in Relays : Sent(c) /\ Owed(c, q) => Owed(c, q)'
  BY <1>1, <1>6, <1>12
<1>14. Answered'
  <2>1. TypedOwed'
    <3>1. Owed(h, r)'
      BY <1>1, <1>2 DEF Owed
    <3>2. ASSUME NEW q \in Relays, NEW c \in Commands, Among(c, typed[q])
          PROVE  Owed(c, q)'
      BY <1>13, <3>2 DEF ShellInv, LineInv, Answered, TypedOwed, Sent
    <3> QED BY <1>3, <1>4, <3>1, <3>2 DEF TypedOwed
  <2>2. FramesOwed'
    <3> SUFFICES ASSUME NEW q \in Relays, NEW k \in DOMAIN frames'[q], Answers(frames'[q][k])
                 PROVE  InFrame(q, k)'
      BY DEF FramesOwed, InFrame
    <3>1. k \in DOMAIN frames[q] /\ \A j \in 1..k : frames'[q][j] = frames[q][j]
      BY <1>3, <1>5 DEF ShellInv, ShellShape
    <3>2. InFrame(q, k)
      BY <3>1 DEF ShellInv, LineInv, Answered, FramesOwed
    <3>3. PICK c \in Commands : c = frames[q][k].of
      BY <3>1, ShapeFacts DEF ShellInv
    <3>4. /\ frames'[q][k] = frames[q][k] /\ Answers(frames[q][k])
          /\ Among(c, ran) /\ Owed(c, q)
          /\ \A j \in 1..(k - 1) : Answers(frames'[q][j]) => frames'[q][j].of < c
      <4>1. k \in 1..k /\ 1..(k - 1) \subseteq 1..k
        <5>1. frames[q] \in Seq(Frames)
          BY ShapeFacts DEF ShellInv
        <5> QED BY <3>1, <5>1
      <4> QED BY <3>1, <3>2, <3>3, <4>1 DEF InFrame
    <3>5. Owed(c, q)' /\ Among(c, ran')
      BY <1>13, <3>4 DEF Sent
    <3> QED BY <3>3, <3>4, <3>5 DEF InFrame, Owed, Awaited, GivenUpBefore, Among
  <2> QED BY <1>1, <2>1, <2>2 DEF Answered
<1>15. ResultIsItsOwn'
  <2>1. \A c \in Commands : \/ results'[c] = results[c] /\ line'[c] = line[c]
                            \/ results'[c].outcome # "returned"
    BY <1>1 DEF Pending
  <2> QED BY <1>11, <2>1, ResultsKeep DEF ShellInv, LineInv
<1> QED BY <1>10, <1>14, <1>15 DEF LineInv


\* exec() adds a command at the end of the queue.
LEMMA ExecKeeps ==
    ASSUME ShellInv, Exec
    PROVE  ShellInv'
<1>1. /\ queue \in Seq(1..given) /\ given \in Nat /\ given < MaxCommands /\ given' = given + 1
      /\ queue' = Append(queue, given + 1)
      /\ UNCHANGED <<sessionVars, phase, at, results, line, remoteVars, faults>>
  BY ShapeFacts DEF ShellInv, Exec
<1>2. queue \in Seq(1..given') /\ given' \in 1..given'
  BY <1>1, ShapeFacts DEF ShellInv
<1>3. /\ queue' \in Seq(1..given') /\ queue' # <<>> /\ Len(queue) \in Nat
      /\ DOMAIN queue = 1..Len(queue) /\ DOMAIN queue' = 1..(Len(queue) + 1)
      /\ queue'[Len(queue) + 1] = given + 1
      /\ \A i \in 1..Len(queue) : queue'[i] = queue[i]
  BY <1>1, <1>2, AppendFacts
<1>4. \A i \in DOMAIN queue : queue[i] \in 1..given
  BY <1>1
<1>5. ShellTypeOK'
  <2>1. \A i, j \in DOMAIN queue' : i < j => queue'[i] < queue'[j]
    <3>1. \A i, j \in DOMAIN queue : i < j => queue[i] < queue[j]
      BY DEF ShellInv, ShellShape, ShellTypeOK
    <3>2. \A i \in DOMAIN queue : queue'[i] = queue[i] /\ queue[i] < given + 1
      BY <1>1, <1>3, <1>4
    <3> QED BY <1>3, <3>1, <3>2
  <2>2. \A c \in 1..given' : results'[c] = Pending <=> \E i \in DOMAIN queue' : queue'[i] = c
    <3>1. results[given + 1] = Pending
      BY <1>1 DEF ShellInv, ShellShape
    <3>2. ASSUME NEW c \in 1..given
          PROVE  results'[c] = Pending <=> \E i \in DOMAIN queue' : queue'[i] = c
      <4>1. results[c] = Pending <=> \E i \in DOMAIN queue : queue[i] = c
        BY DEF ShellInv, ShellShape, ShellTypeOK
      <4> QED BY <1>1, <1>3, <4>1
    <3>3. \A c \in 1..given' : c \in 1..given \/ c = given + 1
      BY <1>1
    <3> QED BY <1>1, <1>3, <3>1, <3>2, <3>3
  <2> QED BY <1>1, <1>3, <2>1, <2>2 DEF ShellInv, ShellShape, ShellTypeOK, sessionVars
<1>6. ShellShape'
  <2>1. given' \in 0..MaxCommands /\ \A c \in Commands : c > given' => results'[c] = Pending
    BY <1>1 DEF ShellInv, ShellShape
  <2> QED BY <1>1, <1>3, <1>5, <2>1 DEF ShellInv, ShellShape, sessionVars, remoteVars
<1>7. OneShell'
  BY <1>1 DEF ShellInv, OneShell, Connected, sessionVars, remoteVars
<1>8. \A c : Awaited(c) => Awaited(c)'
  BY <1>1, <1>3, TailFacts DEF Awaited
<1>9. LineInv'
  <2>1. \A c \in Commands : Sent(c)' <=> Sent(c)
    BY <1>1 DEF Sent, remoteVars
  <2>2. \A c \in Commands : Sent(c)' =>
          c <= given' /\ \A i \in DOMAIN queue' : c < queue'[i] \/ (i = 1 /\ Awaited(c)')
    BY <1>1, <1>3, <1>8, <2>1 DEF ShellInv, LineInv, InLine
  <2>3. InLine'
    BY <1>1, <2>2 DEF ShellInv, LineInv, InLine, RunsInOrder, remoteVars
  <2>4. \A c, r : Owed(c, r) => Owed(c, r)'
    BY <1>1, <1>8 DEF Owed, GivenUpBefore
  <2>5. phase' = "output" => line'[Head(queue')] = at'
    <3>1. phase' = "output" => queue # <<>> /\ Head(queue') = Head(queue)
      BY <1>1, <1>3, TailFacts DEF ShellInv, ShellShape
    <3> QED BY <1>1, <3>1 DEF ShellInv, LineInv, Answered
  <2>6. TypedOwed'
    BY <1>1, <2>4 DEF ShellInv, LineInv, Answered, TypedOwed, remoteVars
  <2>7. FramesOwed'
    BY <1>1, <2>4 DEF ShellInv, LineInv, Answered, FramesOwed, InFrame, remoteVars
  <2>8. ResultIsItsOwn'
    BY <1>1 DEF ShellInv, LineInv, ResultIsItsOwn, GivenUpBefore, remoteVars
  <2> QED BY <2>3, <2>5, <2>6, <2>7, <2>8 DEF LineInv, Answered
<1> QED BY <1>6, <1>7, <1>9 DEF ShellInv

\* The shell runs the next line typed on the session's relay, and says so.
LEMMA ShellRunsKeeps ==
    ASSUME ShellInv, NEW r \in Relays, ShellRuns(r)
    PROVE  ShellInv'
<1>1. /\ typed[r] \in Seq(Commands) /\ typed[r] # <<>> /\ sockets[r] = "joined"
      /\ frames[r] \in Seq(Frames) /\ ran \in Seq(Commands)
  BY ShapeFacts DEF ShellInv, ShellRuns
<1>2. PICK h \in Commands :
        /\ h = Head(typed[r]) /\ h = typed[r][1] /\ Among(h, typed[r])
        /\ Len(typed[r]) \in Nat \ {0} /\ DOMAIN typed[r] = 1..Len(typed[r])
  <2> DEFINE s == typed[r]
  <2>1. s \in Seq(Commands) /\ s # <<>>
    BY <1>1
  <2> HIDE DEF s
  <2>2. /\ Head(s) \in Commands /\ Head(s) = s[1] /\ Among(Head(s), s)
        /\ Len(s) \in Nat \ {0} /\ DOMAIN s = 1..Len(s)
    <3>1. /\ Head(s) \in Commands /\ Head(s) = s[1]
          /\ Len(s) \in Nat \ {0} /\ DOMAIN s = 1..Len(s)
      BY <2>1, TailFacts
    <3> QED BY <3>1 DEF Among
  <2> QED BY <2>2 DEF s
<1>3. /\ typed'[r] = Tail(typed[r]) /\ ran' = Append(ran, h)
      /\ frames'[r] = Append(frames[r], Frame(h, "done"))
      /\ \A q \in Relays \ {r} : typed'[q] = typed[q] /\ frames'[q] = frames[q]
      /\ typed' \in [Relays -> Seq(Commands)]
  BY <1>1, <1>2, TailFacts DEF ShellInv, ShellShape, ShellRuns
<1>4. /\ DOMAIN typed'[r] = 1..(Len(typed[r]) - 1)
      /\ \A i \in 1..(Len(typed[r]) - 1) : typed'[r][i] = typed[r][i + 1]
      /\ \A c : Among(c, typed'[r]) => Among(c, typed[r])
  <2> DEFINE s == typed[r]
  <2>1. s \in Seq(Commands) /\ s # <<>> /\ typed'[r] = Tail(s)
    BY <1>1, <1>3
  <2> HIDE DEF s
  <2>2. /\ DOMAIN Tail(s) = 1..(Len(s) - 1)
        /\ \A i \in 1..(Len(s) - 1) : Tail(s)[i] = s[i + 1]
        /\ \A c : Among(c, Tail(s)) => Among(c, s)
    BY <2>1, TailFacts
  <2> QED BY <2>1, <2>2 DEF s
<1>5. Frame(h, "done") \in Frames /\ Frame(h, "done").of = h
  BY DEF Frame, Frames
<1>6. /\ ran' \in Seq(Commands) /\ Len(ran) \in Nat /\ DOMAIN ran = 1..Len(ran)
      /\ DOMAIN ran' = 1..(Len(ran) + 1) /\ ran'[Len(ran) + 1] = h
      /\ \A i \in 1..Len(ran) : ran'[i] = ran[i]
      /\ \A c : Among(c, ran') <=> Among(c, ran) \/ c = h
  <2>1. ran \in Seq(Commands) /\ ran' = Append(ran, h)
    BY <1>1, <1>3
  <2> QED BY <2>1, AppendFacts
<1>7. /\ frames'[r] \in Seq(Frames) /\ Len(frames[r]) \in Nat
      /\ DOMAIN frames[r] = 1..Len(frames[r]) /\ DOMAIN frames'[r] = 1..(Len(frames[r]) + 1)
      /\ frames'[r][Len(frames[r]) + 1] = Frame(h, "done")
      /\ \A i \in 1..Len(frames[r]) : frames'[r][i] = frames[r][i]
  <2> DEFINE f == Frame(h, "done")
  <2>1. frames'[r] = Append(frames[r], f) /\ f \in Frames
    BY <1>3, <1>5
  <2> HIDE DEF f
  <2>2. /\ frames'[r] \in Seq(Frames) /\ Len(frames[r]) \in Nat
        /\ DOMAIN frames[r] = 1..Len(frames[r]) /\ DOMAIN frames'[r] = 1..(Len(frames[r]) + 1)
        /\ frames'[r][Len(frames[r]) + 1] = f
        /\ \A i \in 1..Len(frames[r]) : frames'[r][i] = frames[r][i]
    BY <1>1, <2>1, AppendFacts
  <2> QED BY <2>2 DEF f
<1>8. frames' \in [Relays -> Seq(Frames)]
  BY <1>7 DEF ShellInv, ShellShape, ShellRuns
<1>9. UNCHANGED <<sessionVars, servingVars, sockets, faults>>
  BY DEF ShellRuns
<1>10. ShellShape'
  <2>1. ShellTypeOK'
    BY <1>9 DEF ShellInv, ShellShape, ShellTypeOK, sessionVars, servingVars
  <2> QED BY <1>3, <1>6, <1>8, <1>9, <2>1 DEF ShellInv, ShellShape, servingVars
<1>11. OneShell'
  BY <1>1, <1>3, <1>9 DEF ShellInv, OneShell, Connected, sessionVars, servingVars
<1>12. \A i, j \in DOMAIN typed[r] : i < j => typed[r][i] < typed[r][j]
  BY DEF ShellInv, LineInv, InLine
<1>13. \A j \in DOMAIN typed'[r] : /\ j \in Nat /\ 1 < j + 1 /\ j + 1 \in DOMAIN typed[r]
                                   /\ typed'[r][j] = typed[r][j + 1]
  BY <1>2, <1>4
<1>14. \A i \in DOMAIN ran : ran[i] < h
  BY <1>1, <1>2 DEF ShellInv, LineInv, InLine
<1>15. \A j \in DOMAIN typed'[r] : h < typed'[r][j]
  BY <1>2, <1>12, <1>13
<1>16. InLine'
  <2>1. RunsInOrder'
    <3>1. \A i, j \in DOMAIN ran : i < j => ran[i] < ran[j]
      BY DEF ShellInv, LineInv, InLine, RunsInOrder
    <3>2. \A i \in DOMAIN ran' : i \in DOMAIN ran \/ i = Len(ran) + 1
      BY <1>6
    <3>3. \A i \in DOMAIN ran : i < Len(ran) + 1 /\ ran'[i] = ran[i]
      BY <1>6
    <3> QED BY <1>6, <1>14, <3>1, <3>2, <3>3 DEF RunsInOrder
  <2>2. \A i, j \in DOMAIN typed'[r] : i < j => typed'[r][i] < typed'[r][j]
    <3>1. ASSUME NEW i \in DOMAIN typed'[r], NEW j \in DOMAIN typed'[r], i < j
          PROVE  typed'[r][i] < typed'[r][j]
      <4>1. i + 1 < j + 1
        BY <1>13, <3>1
      <4> QED BY <1>12, <1>13, <4>1
    <3> QED BY <3>1
  <2>3. \A q \in Relays : \A i, j \in DOMAIN typed'[q] : i < j => typed'[q][i] < typed'[q][j]
    BY <1>3, <2>2 DEF ShellInv, LineInv, InLine
  <2>4. ASSUME NEW q \in Relays, sockets'[q] = "joined"
        PROVE  \A i \in DOMAIN ran', j \in DOMAIN typed'[q] : ran'[i] < typed'[q][j]
    <3>1. CASE q = r
      <4>1. ASSUME NEW i \in DOMAIN ran, NEW j \in DOMAIN typed'[r]
            PROVE  ran'[i] < typed'[r][j]
        <5>1. ran[i] < typed[r][j + 1] /\ j + 1 \in DOMAIN typed[r]
          BY <1>1, <1>13 DEF ShellInv, LineInv, InLine
        <5> QED BY <1>6, <1>13, <5>1
      <4> QED BY <1>6, <1>15, <3>1, <4>1
    <3>2. CASE q # r
      <4>1. typed'[q] = <<>>
        BY <1>1, <1>3, <1>9, <2>4, <3>2 DEF ShellInv, OneShell
      <4> QED BY <4>1
    <3> QED BY <3>1, <3>2
  <2>5. \A c \in Commands : Sent(c)' => Sent(c)
    BY <1>2, <1>3, <1>4, <1>6 DEF Sent
  <2>6. \A c : Awaited(c)' <=> Awaited(c)
    BY <1>9 DEF Awaited, servingVars
  <2>7. \A c \in Commands : Sent(c)' =>
          c <= given' /\ \A i \in DOMAIN queue' : c < queue'[i] \/ (i = 1 /\ Awaited(c)')
    BY <1>9, <2>5, <2>6 DEF ShellInv, LineInv, InLine, servingVars
  <2> QED BY <2>1, <2>3, <2>4, <2>7 DEF InLine
<1>17. \A c, q : Owed(c, q)' <=> Owed(c, q)
  BY <1>9 DEF Owed, Awaited, GivenUpBefore, servingVars
<1>18. Answered'
  <2>1. TypedOwed'
    BY <1>3, <1>4, <1>17 DEF ShellInv, LineInv, Answered, TypedOwed
  <2>2. FramesOwed'
    <3> SUFFICES ASSUME NEW q \in Relays, NEW k \in DOMAIN frames'[q], Answers(frames'[q][k])
                 PROVE  InFrame(q, k)'
      BY DEF FramesOwed, InFrame
    <3>1. CASE q = r /\ k = Len(frames[r]) + 1
      <4>1. Owed(h, r)
        BY <1>2 DEF ShellInv, LineInv, Answered, TypedOwed
      <4>2. Owed(h, r)' /\ Among(h, ran')
        BY <1>6, <1>17, <4>1
      <4>3. ASSUME NEW j \in 1..(k - 1), Answers(frames'[r][j])
            PROVE  frames'[r][j].of < h
        <5>1. j \in DOMAIN frames[r] /\ frames'[r][j] = frames[r][j]
          BY <1>7, <3>1
        <5>2. Among(frames[r][j].of, ran)
          BY <4>3, <5>1 DEF ShellInv, LineInv, Answered, FramesOwed, InFrame
        <5> QED BY <1>14, <5>1, <5>2 DEF Among
      <4> QED BY <1>5, <1>7, <3>1, <4>2, <4>3 DEF InFrame, Owed, Awaited, GivenUpBefore, Among
    <3>2. CASE ~(q = r /\ k = Len(frames[r]) + 1)
      <4>1. /\ frames[q] \in Seq(Frames) /\ k \in DOMAIN frames[q]
            /\ \A j \in 1..k : frames'[q][j] = frames[q][j]
        <5>1. frames[q] \in Seq(Frames)
          BY ShapeFacts DEF ShellInv
        <5>2. CASE q = r
          BY <1>7, <3>2, <5>1, <5>2
        <5>3. CASE q # r
          BY <1>3, <5>1, <5>3
        <5> QED BY <5>2, <5>3
      <4>2. k \in 1..k /\ 1..(k - 1) \subseteq 1..k
        BY <4>1
      <4>3. InFrame(q, k)
        BY <4>1 DEF ShellInv, LineInv, Answered, FramesOwed
      <4>4. PICK c \in Commands : c = frames[q][k].of
        BY <4>1, ShapeFacts DEF ShellInv
      <4>5. /\ frames'[q][k] = frames[q][k] /\ Answers(frames[q][k])
            /\ Among(c, ran) /\ Owed(c, q)
            /\ \A j \in 1..(k - 1) : Answers(frames'[q][j]) => frames'[q][j].of < c
        BY <4>1, <4>2, <4>3, <4>4 DEF InFrame
      <4>6. Owed(c, q)' /\ Among(c, ran')
        BY <1>6, <1>17, <4>5
      <4> QED BY <4>4, <4>5, <4>6 DEF InFrame, Owed, Awaited, GivenUpBefore, Among
    <3> QED BY <3>1, <3>2
  <2> QED BY <1>9, <2>1, <2>2 DEF ShellInv, LineInv, Answered, servingVars
<1>19. ResultIsItsOwn'
  BY <1>6, <1>9 DEF ShellInv, LineInv, ResultIsItsOwn, GivenUpBefore, servingVars
<1> QED BY <1>10, <1>11, <1>16, <1>18, <1>19 DEF ShellInv, LineInv

-----------------------------------------------------------------------------
\* The part of the shape that is about the commands.
QueueShape ==
    /\ given \in 0..MaxCommands
    /\ queue \in Seq(1..given) /\ \A i, j \in DOMAIN queue : i < j => queue[i] < queue[j]
    /\ \A c \in 1..given : results[c] = Pending <=> \E i \in DOMAIN queue : queue[i] = c
    /\ results \in [Commands -> [outcome: Outcomes, of: 0..MaxCommands]]
    /\ \A c \in Commands : c > given => results[c] = Pending

\* A step keeps the shape of the shell when it keeps that of each part.
LEMMA ShapeKeeps ==
    ASSUME QueueShape',
           status' \in Statuses, control' \in {"none", "open", "closed"}, cookies' \in BOOLEAN,
           relay' \in 0..MaxRelays, at' \in 0..MaxRelays, phase' \in Phases,
           phase' \in {"join", "output"} <=> at' # 0, phase' # "idle" => queue' # <<>>,
           faults' \in 0..MaxFaults, line' \in [Commands -> 0..MaxRelays],
           sockets' \in [Relays -> {"unused", "open", "joined", "closed"}],
           typed' \in [Relays -> Seq(Commands)], frames' \in [Relays -> Seq(Frames)],
           ran' \in Seq(Commands)
    PROVE  ShellShape'
BY DEF QueueShape, ShellShape, ShellTypeOK

LEMMA QueueStands ==
    ASSUME ShellShape, UNCHANGED <<given, queue, results>>
    PROVE  QueueShape'
BY DEF QueueShape, ShellShape, ShellTypeOK

\* The first command leaves the queue when it is settled.
LEMMA QueueMoves ==
    ASSUME ShellShape, queue # <<>>, queue' = Tail(queue), given' = given,
           NEW result \in [outcome: {"failed", "returned"}, of: 0..MaxCommands],
           results' = [results EXCEPT ![Head(queue)] = result]
    PROVE  QueueShape'
<1>1. PICK h \in Commands : h = Head(queue) /\ h = queue[1] /\ h <= given
  BY QueueFacts
<1>2. /\ results'[h] = result /\ result # Pending
      /\ \A c \in Commands \ {h} : results'[c] = results[c]
      /\ results' \in [Commands -> [outcome: Outcomes, of: 0..MaxCommands]]
  <2>1. result # Pending
    BY DEF Pending
  <2>2. result \in [outcome: Outcomes, of: 0..MaxCommands]
    BY DEF Outcomes
  <2>3. results \in [Commands -> [outcome: Outcomes, of: 0..MaxCommands]]
    BY DEF ShellShape
  <2> QED BY <1>1, <2>1, <2>2, <2>3
<1>3. /\ queue' \in Seq(1..given) /\ Len(queue) \in Nat /\ DOMAIN queue = 1..Len(queue)
      /\ DOMAIN queue' = 1..(Len(queue) - 1)
      /\ \A i \in DOMAIN queue' : /\ queue'[i] = queue[i + 1] /\ i + 1 \in DOMAIN queue
                                  /\ queue[1] < queue[i + 1]
  BY QueueFacts
<1>4. \A i, j \in DOMAIN queue : i < j => queue[i] < queue[j]
  BY DEF ShellShape, ShellTypeOK
<1>5. \A i, j \in DOMAIN queue' : i < j => queue'[i] < queue'[j]
  <2>1. ASSUME NEW i \in DOMAIN queue', NEW j \in DOMAIN queue', i < j
        PROVE  queue'[i] < queue'[j]
    <3>1. i + 1 < j + 1
      BY <1>3, <2>1
    <3> QED BY <1>3, <1>4, <3>1
  <2> QED BY <2>1
<1>6. ASSUME NEW c \in 1..given
      PROVE  results'[c] = Pending <=> \E i \in DOMAIN queue' : queue'[i] = c
  <2>1. c \in Commands /\ given \in Nat
    BY <1>1, ShapeFacts
  <2>2. results[c] = Pending <=> \E i \in DOMAIN queue : queue[i] = c
    BY DEF ShellShape, ShellTypeOK
  <2>3. CASE c = h
    BY <1>1, <1>2, <1>3, <2>1, <2>3
  <2>4. CASE c # h
    <3>1. \A i \in DOMAIN queue : queue[i] = c => i - 1 \in DOMAIN queue' /\ (i - 1) + 1 = i
      BY <1>1, <1>3, <2>4
    <3> QED BY <1>2, <1>3, <2>1, <2>2, <2>4, <3>1
  <2> QED BY <2>3, <2>4
<1>7. given \in 0..MaxCommands /\ \A c \in Commands : c > given => results'[c] = Pending
  <2>1. given \in 0..MaxCommands /\ \A c \in Commands : c > given => results[c] = Pending
    BY DEF ShellShape
  <2>2. given \in Nat /\ h <= given /\ h \in Commands
    BY <1>1, ShapeFacts
  <2>3. \A c \in Commands : c > given => c # h
    BY <2>2
  <2> QED BY <1>2, <2>1, <2>3
<1> QED BY <1>2, <1>3, <1>5, <1>6, <1>7 DEF QueueShape

\* The three things that happen to frames on their way.
LEMMA FramesMove ==
    ASSUME ShellShape
    PROVE  /\ frames' = frames => FramesShrink
           /\ \A r \in Relays :
                \/ frames' = [frames EXCEPT ![r] = <<>>]
                \/ frames[r] # <<>> /\ frames' = [frames EXCEPT ![r] = Tail(@)]
                => FramesShrink /\ frames' \in [Relays -> Seq(Frames)]
<1>1. \A q \in Relays : /\ frames[q] \in Seq(Frames) /\ Len(frames[q]) \in Nat
                        /\ DOMAIN frames[q] = 1..Len(frames[q])
  BY ShapeFacts
<1>2. frames \in [Relays -> Seq(Frames)]
  BY DEF ShellShape
<1>3. ASSUME frames' = frames
      PROVE  FramesShrink
  <2>1. ASSUME NEW q \in Relays
        PROVE  /\ 0 \in 0..Len(frames[q]) /\ DOMAIN frames'[q] = 1..(Len(frames[q]) - 0)
               /\ \A k \in 1..(Len(frames[q]) - 0) : frames'[q][k] = frames[q][k + 0]
    BY <1>1, <1>3
  <2> QED BY <2>1 DEF FramesShrink
<1>4. ASSUME NEW r \in Relays, frames' = [frames EXCEPT ![r] = <<>>]
      PROVE  FramesShrink /\ frames' \in [Relays -> Seq(Frames)]
  <2>1. frames'[r] = <<>> /\ \A q \in Relays \ {r} : frames'[q] = frames[q]
    BY <1>2, <1>4
  <2>2. ASSUME NEW q \in Relays
        PROVE  \E m \in 0..Len(frames[q]) :
                 /\ DOMAIN frames'[q] = 1..(Len(frames[q]) - m)
                 /\ \A k \in 1..(Len(frames[q]) - m) : frames'[q][k] = frames[q][k + m]
    <3>1. CASE q = r
      <4>1. /\ Len(frames[q]) \in 0..Len(frames[q]) /\ Len(frames[q]) - Len(frames[q]) = 0
            /\ DOMAIN frames'[q] = {} /\ 1..0 = {}
        BY <1>1, <2>1, <3>1
      <4> QED BY <4>1
    <3>2. CASE q # r
      <4>1. /\ 0 \in 0..Len(frames[q]) /\ DOMAIN frames'[q] = 1..(Len(frames[q]) - 0)
            /\ \A k \in 1..(Len(frames[q]) - 0) : frames'[q][k] = frames[q][k + 0]
        BY <1>1, <2>1, <3>2
      <4> QED BY <4>1
    <3> QED BY <3>1, <3>2
  <2>3. <<>> \in Seq(Frames)
    OBVIOUS
  <2> QED BY <1>2, <1>4, <2>2, <2>3 DEF FramesShrink
<1>5. ASSUME NEW r \in Relays, frames[r] # <<>>, frames' = [frames EXCEPT ![r] = Tail(@)]
      PROVE  FramesShrink /\ frames' \in [Relays -> Seq(Frames)]
  <2>1. frames'[r] = Tail(frames[r]) /\ \A q \in Relays \ {r} : frames'[q] = frames[q]
    BY <1>2, <1>5
  <2>2. /\ Tail(frames[r]) \in Seq(Frames) /\ Len(frames[r]) \in Nat \ {0}
        /\ DOMAIN Tail(frames[r]) = 1..(Len(frames[r]) - 1)
        /\ \A i \in 1..(Len(frames[r]) - 1) : Tail(frames[r])[i] = frames[r][i + 1]
    <3> DEFINE s == frames[r]
    <3>1. s \in Seq(Frames) /\ s # <<>>
      BY <1>1, <1>5
    <3> HIDE DEF s
    <3>2. /\ Tail(s) \in Seq(Frames) /\ Len(s) \in Nat \ {0}
          /\ DOMAIN Tail(s) = 1..(Len(s) - 1)
          /\ \A i \in 1..(Len(s) - 1) : Tail(s)[i] = s[i + 1]
      BY <3>1, TailFacts
    <3> QED BY <3>2 DEF s
  <2>3. ASSUME NEW q \in Relays
        PROVE  \E m \in 0..Len(frames[q]) :
                 /\ DOMAIN frames'[q] = 1..(Len(frames[q]) - m)
                 /\ \A k \in 1..(Len(frames[q]) - m) : frames'[q][k] = frames[q][k + m]
    <3>1. CASE q = r
      <4>1. 1 \in 0..Len(frames[q])
        BY <2>2, <3>1
      <4> QED BY <2>1, <2>2, <3>1, <4>1
    <3>2. CASE q # r
      <4>1. /\ 0 \in 0..Len(frames[q]) /\ DOMAIN frames'[q] = 1..(Len(frames[q]) - 0)
            /\ \A k \in 1..(Len(frames[q]) - 0) : frames'[q][k] = frames[q][k + 0]
        BY <1>1, <2>1, <3>2
      <4> QED BY <4>1
    <3> QED BY <3>1, <3>2
  <2> QED BY <1>2, <1>5, <2>2, <2>3 DEF FramesShrink
<1> QED BY <1>3, <1>4, <1>5

-----------------------------------------------------------------------------
\* A command's promise rejects.
LEMMA FailKeeps ==
    ASSUME ShellInv, queue # <<>>, Fail,
           UNCHANGED <<given, line, relay, control, remoteVars>>,
           cookies' \in BOOLEAN, faults' \in 0..MaxFaults
    PROVE  ShellInv'
<1>1. Failed \in [outcome: {"failed", "returned"}, of: 0..MaxCommands]
  BY DEF Failed
<1>2. QueueShape'
  BY <1>1, QueueMoves DEF ShellInv, Fail
<1>3. ShellShape'
  <2>1. status' \in Statuses /\ phase' = "idle" /\ at' = 0 /\ "idle" \in Phases
    BY DEF ShellInv, ShellShape, ShellTypeOK, Fail, Statuses, Phases
  <2>2. /\ relay' \in 0..MaxRelays /\ control' \in {"none", "open", "closed"}
        /\ at' \in 0..MaxRelays /\ line' \in [Commands -> 0..MaxRelays]
        /\ sockets' \in [Relays -> {"unused", "open", "joined", "closed"}]
        /\ typed' \in [Relays -> Seq(Commands)] /\ frames' \in [Relays -> Seq(Frames)]
        /\ ran' \in Seq(Commands)
    BY <2>1, StateFacts DEF ShellInv, remoteVars
  <2> QED BY <1>2, <2>1, <2>2, ShapeKeeps
<1>4. OneShell'
  BY DEF ShellInv, OneShell, Fail, remoteVars
<1>5. LineInv'
  BY SettleKeeps, FramesMove DEF ShellInv, Fail, remoteVars
<1> QED BY <1>3, <1>4, <1>5 DEF ShellInv

\* The first command moves on to its next await on the way to a relay.
LEMMA MoveKeeps ==
    ASSUME ShellInv, queue # <<>>, phase \in {"idle", "connect", "login"},
           phase' \in {"connect", "login", "socket"}, ~Connected,
           UNCHANGED <<queue, at, given, results, line, relay, remoteVars, faults>>,
           status' \in Statuses, control' \in {"none", "open", "closed"}, cookies' \in BOOLEAN
    PROVE  ShellInv'
<1>1. QueueShape'
  BY QueueStands DEF ShellInv
<1>2. ShellShape'
  <2>1. phase' \in Phases /\ at' = 0
    BY DEF ShellInv, ShellShape, ShellTypeOK, Phases
  <2> QED BY <1>1, <2>1, ShapeKeeps, StateFacts DEF ShellInv, remoteVars
<1>3. OneShell'
  BY DEF ShellInv, OneShell, Connected, remoteVars
<1>4. LineInv'
  BY QuietKeeps, FramesMove DEF ShellInv, remoteVars
<1> QED BY <1>2, <1>3, <1>4 DEF ShellInv

\* A tunnel is asked for, or cannot be.
LEMMA TunnelKeeps ==
    ASSUME ShellInv, queue # <<>>, phase \in {"idle", "login"}, ~Connected, Tunnel,
           UNCHANGED <<control, relay, remoteVars, faults>>, cookies' \in BOOLEAN
    PROVE  ShellInv'
<1>0. /\ status \in Statuses /\ control \in {"none", "open", "closed"}
      /\ faults \in 0..MaxFaults
  BY DEF ShellInv, ShellShape, ShellTypeOK
<1>1. CASE control = "none"
  BY <1>0, <1>1, FailKeeps DEF Tunnel
<1>2. CASE control # "none"
  <2>1. phase' = "socket" /\ UNCHANGED <<status, queue, at, given, results, line>>
    BY <1>2 DEF Tunnel
  <2> QED BY <1>0, <2>1, MoveKeeps
<1> QED BY <1>1, <1>2

\* The line of the first command is written to the relay it is given.
LEMMA TypedKeeps ==
    ASSUME ShellInv, queue # <<>>, NEW r \in Relays,
           phase \in {"idle", "join"}, phase = "idle" => Connected /\ r = relay,
           sockets[r] \in {"open", "joined"},
           sockets' = [sockets EXCEPT ![r] = "joined"],
           phase' = "output", at' = r, relay' = r,
           line' = [line EXCEPT ![Head(queue)] = r],
           typed' = [typed EXCEPT ![r] = Append(@, Head(queue))],
           frames' = [frames EXCEPT ![r] = Append(@, Frame(Head(queue), "echo"))],
           status' \in Statuses,
           UNCHANGED <<control, cookies, queue, given, results, ran, faults>>
    PROVE  ShellInv'
<1>1. LineInv'
  BY TypeKeeps
<1>2. PICK h \in Commands : h = Head(queue)
  BY QueueFacts DEF ShellInv
<1>3. /\ typed' \in [Relays -> Seq(Commands)]
      /\ frames' \in [Relays -> Seq(Frames)]
      /\ line' \in [Commands -> 0..MaxRelays]
      /\ sockets' \in [Relays -> {"unused", "open", "joined", "closed"}]
  <2>1. /\ typed[r] \in Seq(Commands) /\ frames[r] \in Seq(Frames)
        /\ Frame(h, "echo") \in Frames
    BY ShapeFacts DEF ShellInv, Frame, Frames
  <2>2. Append(typed[r], h) \in Seq(Commands)
    BY <2>1
  <2>3. Append(frames[r], Frame(h, "echo")) \in Seq(Frames)
    BY <2>1
  <2>4. r \in 0..MaxRelays
    OBVIOUS
  <2> QED BY <1>2, <2>2, <2>3, <2>4 DEF ShellInv, ShellShape
<1>4. ShellShape'
  <2>1. QueueShape'
    BY QueueStands DEF ShellInv
  <2>2. phase' \in Phases /\ r \in 0..MaxRelays /\ r # 0
    BY DEF Phases
  <2> QED BY <1>3, <2>1, <2>2, ShapeKeeps, StateFacts DEF ShellInv
<1>5. OneShell'
  <2>1. ASSUME NEW q \in Relays, q # r
        PROVE  /\ typed'[q] = typed[q] /\ frames'[q] = frames[q] /\ sockets'[q] = sockets[q]
               /\ sockets[q] = "joined" => typed[q] = <<>>
    <3>1. typed'[q] = typed[q] /\ frames'[q] = frames[q] /\ sockets'[q] = sockets[q]
      BY <2>1 DEF ShellInv, ShellShape
    <3>2. sockets[q] = "joined" /\ typed[q] # <<>> => q = relay /\ relay # 0
      BY DEF ShellInv, OneShell
    <3>3. phase = "join" => ~Connected
      BY DEF ShellInv, OneShell
    <3> QED BY <2>1, <3>1, <3>2, <3>3 DEF Connected
  <2>2. sockets'[r] = "joined"
    BY DEF ShellInv, ShellShape
  <2> QED BY <2>1, <2>2 DEF ShellInv, OneShell
<1> QED BY <1>1, <1>4, <1>5 DEF ShellInv

\* The session's own steps before a command is typed.
LEMMA StartKeeps ==
    ASSUME ShellInv, Start
    PROVE  ShellInv'
<1>0. /\ queue # <<>> /\ phase = "idle" /\ faults' = faults
      /\ control \in {"none", "open", "closed"} /\ cookies \in BOOLEAN /\ status \in Statuses
  BY DEF ShellInv, ShellShape, ShellTypeOK, Start, Serving
<1>1. CASE Connected
  <2>1. Type(relay) /\ UNCHANGED <<sessionVars, queue, given, results, sockets, ran>>
    BY <1>1 DEF Start
  <2>2. relay \in Relays /\ sockets[relay] = "joined"
    BY <1>1 DEF Connected, ShellInv, ShellShape, ShellTypeOK
  <2>3. sockets' = [sockets EXCEPT ![relay] = "joined"]
    BY <2>1, <2>2 DEF ShellInv, ShellShape
  <2> QED BY <1>0, <1>1, <2>1, <2>2, <2>3, TypedKeeps DEF Type, sessionVars
<1>2. CASE ~Connected /\ cookies
  BY <1>0, <1>2, TunnelKeeps DEF Start
<1>3. CASE ~Connected /\ ~cookies
  <2>1. /\ status' = "establishing" /\ phase' = "connect"
        /\ UNCHANGED <<control, cookies, relay, queue, at, given, results, line, remoteVars>>
    BY <1>3 DEF Start
  <2> QED BY <1>0, <1>3, <2>1, MoveKeeps DEF Statuses
<1> QED BY <1>1, <1>2, <1>3

LEMMA ConnectingKeeps ==
    ASSUME ShellInv, ControlOpens \/ LoginAnswered \/ RelayOpens
    PROVE  ShellInv'
<1>0. control \in {"none", "open", "closed"} /\ cookies \in BOOLEAN /\ status \in Statuses
  BY DEF ShellInv, ShellShape, ShellTypeOK
<1>1. CASE ControlOpens
  <2>1. ~Connected
    BY <1>1 DEF ControlOpens, Serving, ShellInv, OneShell
  <2> QED BY <1>0, <1>1, <2>1, MoveKeeps DEF ControlOpens, Serving
<1>2. CASE LoginAnswered
  <2>1. ~Connected
    BY <1>2 DEF LoginAnswered, Serving, ShellInv, OneShell
  <2> QED BY <1>2, <2>1, TunnelKeeps DEF LoginAnswered, Serving
<1>3. CASE RelayOpens
  <2>1. PICK r \in Relays : /\ sockets[r] = "unused" /\ at' = r
                            /\ sockets' = [sockets EXCEPT ![r] = "open"]
    BY <1>3 DEF RelayOpens
  <2>2. /\ queue # <<>> /\ phase = "socket" /\ phase' = "join"
        /\ UNCHANGED <<sessionVars, queue, given, results, line, typed, frames, ran, faults>>
    BY <1>3 DEF RelayOpens, Serving
  <2>3. /\ sockets' \in [Relays -> {"unused", "open", "joined", "closed"}]
        /\ sockets'[r] = "open" /\ \A q \in Relays \ {r} : sockets'[q] = sockets[q]
    BY <2>1 DEF ShellInv, ShellShape
  <2>4. ShellShape'
    <3>1. QueueShape'
      BY <2>2, QueueStands DEF ShellInv
    <3>2. phase' \in Phases /\ at' \in 0..MaxRelays /\ at' # 0
      BY <2>1, <2>2 DEF Phases
    <3> QED BY <2>2, <2>3, <3>1, <3>2, ShapeKeeps, StateFacts
         DEF ShellInv, sessionVars
  <2>5. OneShell'
    <3>1. ~Connected /\ r # relay
      BY <2>1, <2>2 DEF ShellInv, OneShell
    <3>2. ~Connected'
      BY <2>2, <2>3, <3>1 DEF Connected, ShellInv, ShellShape, ShellTypeOK, sessionVars
    <3> QED BY <2>1, <2>2, <2>3, <3>1, <3>2 DEF ShellInv, OneShell, sessionVars
  <2>6. LineInv'
    BY <2>2, <2>3, QuietKeeps, FramesMove DEF ShellInv
  <2> QED BY <2>4, <2>5, <2>6 DEF ShellInv
<1> QED BY <1>1, <1>2, <1>3

\* Both ends of a relay are present, in time or late.
LEMMA AgentJoinsKeeps ==
    ASSUME ShellInv, NEW r \in Relays, AgentJoins(r)
    PROVE  ShellInv'
<1>1. CASE Serving("join") /\ at = r
  <2>1. /\ sockets[r] = "open" /\ sockets' = [sockets EXCEPT ![r] = "joined"]
        /\ relay' = r /\ status' = "active" /\ phase' = "output" /\ at' = r
        /\ line' = [line EXCEPT ![Head(queue)] = r]
        /\ typed' = [typed EXCEPT ![r] = Append(@, Head(queue))]
        /\ frames' = [frames EXCEPT ![r] = Append(@, Frame(Head(queue), "echo"))]
        /\ UNCHANGED <<control, cookies, queue, given, results, ran, faults>>
    BY <1>1 DEF AgentJoins
  <2>2. queue # <<>> /\ phase = "join"
    BY <1>1 DEF Serving
  <2>3. "active" \in Statuses
    BY DEF Statuses
  <2> QED BY <2>1, <2>2, <2>3, TypedKeeps
<1>2. CASE ~(Serving("join") /\ at = r)
  <2>1. /\ sockets[r] = "open" /\ sockets' = [sockets EXCEPT ![r] = "joined"]
        /\ UNCHANGED <<relay, status, phase, at, line, typed, frames,
                       control, cookies, queue, given, results, ran, faults>>
    BY <1>2 DEF AgentJoins
  <2>2. /\ sockets' \in [Relays -> {"unused", "open", "joined", "closed"}]
        /\ sockets'[r] = "joined" /\ \A q \in Relays \ {r} : sockets'[q] = sockets[q]
        /\ typed[r] = <<>> /\ r # relay
    BY <2>1 DEF ShellInv, ShellShape, OneShell
  <2>3. ShellShape'
    <3>1. QueueShape'
      BY <2>1, QueueStands DEF ShellInv
    <3> QED BY <2>1, <2>2, <3>1, ShapeKeeps, StateFacts DEF ShellInv
  <2>4. OneShell'
    <3>1. Connected' <=> Connected
      <4>1. relay # 0 => relay \in Relays \ {r}
        BY <2>2, StateFacts DEF ShellInv
      <4> QED BY <2>1, <2>2, <4>1 DEF Connected
    <3> QED BY <2>1, <2>2, <3>1 DEF ShellInv, OneShell
  <2>5. LineInv'
    BY <2>1, <2>2, QuietKeeps, FramesMove DEF ShellInv
  <2> QED BY <2>3, <2>4, <2>5 DEF ShellInv
<1> QED BY <1>1, <1>2

\* Something does not come in time.
LEMMA FaultsKeep ==
    ASSUME ShellInv, ConnectionFails \/ CommandTimesOut
    PROVE  ShellInv'
<1>1. /\ queue # <<>> /\ Fail
      /\ UNCHANGED <<control, cookies, relay, given, line, remoteVars>>
      /\ Fault \/ UNCHANGED faults
  BY DEF ConnectionFails, CommandTimesOut, Serving
<1>2. faults' \in 0..MaxFaults /\ cookies \in BOOLEAN
  BY <1>1, StateFacts DEF Fault, ShellInv
<1> QED BY <1>1, <1>2, FailKeeps

\* A socket is closed, by end() or by the network, and what was on it is lost.
LEMMA CloseKeeps ==
    ASSUME ShellInv, NEW r \in Relays,
           sockets[r] \in {"open", "joined", "closed"},
           sockets' = [sockets EXCEPT ![r] = "closed"],
           frames' = [frames EXCEPT ![r] = <<>>],
           UNCHANGED <<servingVars, typed, ran>>,
           relay' = relay \/ (relay = r /\ relay' = 0),
           control' \in {"none", "open", "closed"}, cookies' \in BOOLEAN,
           status' \in Statuses, faults' \in 0..MaxFaults
    PROVE  ShellInv'
<1>1. /\ sockets' \in [Relays -> {"unused", "open", "joined", "closed"}]
      /\ sockets'[r] = "closed" /\ \A q \in Relays \ {r} : sockets'[q] = sockets[q]
      /\ frames'[r] = <<>> /\ \A q \in Relays \ {r} : frames'[q] = frames[q]
  BY StateFacts DEF ShellInv
<1>2. FramesShrink /\ frames' \in [Relays -> Seq(Frames)]
  BY FramesMove DEF ShellInv
<1>3. relay' \in 0..MaxRelays
  BY StateFacts DEF ShellInv
<1>4. ShellShape'
  <2>1. QueueShape'
    BY QueueStands DEF ShellInv, servingVars
  <2> QED BY <1>1, <1>2, <1>3, <2>1, ShapeKeeps, StateFacts DEF ShellInv, servingVars
<1>5. OneShell'
  <2>1. Connected' => Connected
    BY <1>1, <1>3 DEF Connected
  <2> QED BY <1>1, <2>1 DEF ShellInv, OneShell, servingVars
<1>6. LineInv'
  BY <1>1, <1>2, QuietKeeps DEF servingVars
<1> QED BY <1>4, <1>5, <1>6 DEF ShellInv

LEMMA EndKeeps ==
    ASSUME ShellInv, End
    PROVE  ShellInv'
<1>1. /\ relay' = 0 /\ control' = "none" /\ cookies' = FALSE /\ status' = "ended"
      /\ UNCHANGED <<servingVars, typed, ran, faults>>
  BY DEF End
<1>2. "ended" \in Statuses
  BY DEF Statuses
<1>3. CASE relay # 0
  <2>1. relay \in Relays /\ sockets[relay] \in {"open", "joined", "closed"}
    <3>1. relay \in Relays
      BY <1>3, StateFacts DEF ShellInv
    <3>2. sockets[relay] \in {"unused", "open", "joined", "closed"}
      BY <3>1, StateFacts DEF ShellInv
    <3> QED BY <3>1, <3>2 DEF ShellInv, OneShell
  <2>2. sockets' = [sockets EXCEPT ![relay] = "closed"] /\ frames' = [frames EXCEPT ![relay] = <<>>]
    BY <1>3 DEF End
  <2> QED BY <1>1, <1>2, <2>1, <2>2, CloseKeeps, StateFacts DEF ShellInv
<1>4. CASE relay = 0
  <2>1. sockets' = sockets /\ frames' = frames
    BY <1>4 DEF End
  <2>2. ShellShape'
    <3>1. QueueShape'
      BY <1>1, QueueStands DEF ShellInv, servingVars
    <3>2. 0 \in 0..MaxRelays
      OBVIOUS
    <3> QED BY <1>1, <1>2, <2>1, <3>1, <3>2, ShapeKeeps, StateFacts DEF ShellInv, servingVars
  <2>3. OneShell'
    BY <1>1, <1>4, <2>1 DEF ShellInv, OneShell, Connected, servingVars
  <2>4. LineInv'
    BY <1>1, <2>1, QuietKeeps, FramesMove DEF ShellInv, servingVars
  <2> QED BY <2>2, <2>3, <2>4 DEF ShellInv
<1> QED BY <1>3, <1>4

LEMMA DropsKeep ==
    ASSUME ShellInv, Drops
    PROVE  ShellInv'
<1>1. faults' \in 0..MaxFaults /\ UNCHANGED <<status, cookies, relay, servingVars, typed, ran>>
  BY StateFacts DEF Drops, Fault, ShellInv
<1>2. CASE \E r \in Relays : /\ sockets[r] \in {"open", "joined"}
                             /\ sockets' = [sockets EXCEPT ![r] = "closed"]
                             /\ frames' = [frames EXCEPT ![r] = <<>>]
                             /\ UNCHANGED control
  <2>1. PICK r \in Relays : /\ sockets[r] \in {"open", "joined"}
                            /\ sockets' = [sockets EXCEPT ![r] = "closed"]
                            /\ frames' = [frames EXCEPT ![r] = <<>>]
                            /\ UNCHANGED control
    BY <1>2
  <2> QED BY <1>1, <2>1, CloseKeeps, StateFacts DEF ShellInv
<1>3. CASE control' = "closed" /\ UNCHANGED <<sockets, frames>>
  <2>1. ShellShape'
    <3>1. QueueShape'
      BY <1>1, QueueStands DEF ShellInv, servingVars
    <3> QED BY <1>1, <1>3, <3>1, ShapeKeeps, StateFacts DEF ShellInv, servingVars
  <2>2. OneShell'
    BY <1>1, <1>3 DEF ShellInv, OneShell, Connected, servingVars
  <2>3. LineInv'
    BY <1>1, <1>3, QuietKeeps, FramesMove DEF ShellInv, servingVars
  <2> QED BY <2>1, <2>2, <2>3 DEF ShellInv
<1> QED BY <1>2, <1>3 DEF Drops

\* A frame ends the command being served, or is not for it.
LEMMA FrameArrivesKeeps ==
    ASSUME ShellInv, NEW r \in Relays, FrameArrives(r)
    PROVE  ShellInv'
<1> DEFINE ends == Serving("output") /\ at = r /\ EndsCommand(Head(frames[r]))
<1>1. /\ frames[r] # <<>> /\ frames' = [frames EXCEPT ![r] = Tail(@)]
      /\ UNCHANGED <<sessionVars, given, line, sockets, typed, ran, faults>>
  BY DEF FrameArrives
<1>2. FramesShrink /\ frames' \in [Relays -> Seq(Frames)]
  BY <1>1, FramesMove DEF ShellInv
<1>3. sockets[r] = "joined" /\ OneShell /\ \A q \in Relays \ {r} : frames'[q] = frames[q]
  BY <1>1, StateFacts DEF ShellInv, OneShell
<1>4. PICK f \in Frames : /\ f = Head(frames[r]) /\ f = frames[r][1] /\ 1 \in DOMAIN frames[r]
                          /\ f.of \in Commands
  <2>1. frames[r] \in Seq(Frames)
    BY StateFacts DEF ShellInv
  <2>2. /\ Head(frames[r]) \in Frames /\ Head(frames[r]) = frames[r][1]
        /\ 1 \in DOMAIN frames[r]
    BY <1>1, <2>1
  <2> QED BY <2>2 DEF Frames
<1>5. CASE ~ends
  <2>1. UNCHANGED <<results, queue, phase, at>>
    BY <1>5 DEF FrameArrives
  <2>2. ShellShape'
    <3>1. QueueShape'
      BY <1>1, <2>1, QueueStands DEF ShellInv
    <3> QED BY <1>1, <1>2, <2>1, <3>1, ShapeKeeps, StateFacts DEF ShellInv, sessionVars
  <2>3. OneShell'
    BY <1>1, <1>3, <2>1 DEF ShellInv, OneShell, Connected, sessionVars
  <2>4. LineInv'
    BY <1>1, <1>2, <2>1, QuietKeeps
  <2> QED BY <2>2, <2>3, <2>4 DEF ShellInv
<1>6. CASE ends
  <2>1. /\ queue # <<>> /\ phase = "output" /\ at = r /\ Answers(f)
        /\ results' = [results EXCEPT ![Head(queue)] = Output(f.of)]
        /\ queue' = Tail(queue) /\ phase' = "idle" /\ at' = 0
    BY <1>4, <1>6 DEF FrameArrives, Serving, EndsCommand, Answers
  <2>2. Output(f.of) \in [outcome: {"failed", "returned"}, of: 0..MaxCommands]
    BY <1>4 DEF Output
  <2>3. ShellShape'
    <3>1. QueueShape'
      BY <1>1, <2>1, <2>2, QueueMoves DEF ShellInv
    <3>2. "idle" \in Phases
      BY DEF Phases
    <3> QED BY <1>1, <1>2, <2>1, <3>1, <3>2, ShapeKeeps, StateFacts DEF ShellInv, sessionVars
  <2>4. OneShell'
    BY <1>1, <1>3, <2>1 DEF ShellInv, OneShell, sessionVars
  <2>5. PICK h \in Commands : h = Head(queue) /\ line[h] = r /\ results[h] = Pending
    BY <2>1, QueueFacts DEF ShellInv, LineInv, Answered
  \* A command with none given up before it gets its own answer, and its only one.
  <2>6. ASSUME ~GivenUpBefore(h)
        PROVE  /\ f.of = h /\ Among(h, ran)
               /\ \A q \in Relays :
                    /\ ~Among(h, typed[q])
                    /\ \A k \in DOMAIN frames'[q] : Answers(frames'[q][k])
                         => frames'[q][k].of # h
    <3>1. Among(f.of, ran) /\ Owed(f.of, r)
      BY <1>4, <2>1 DEF ShellInv, LineInv, Answered, FramesOwed, InFrame
    <3>2. f.of <= h
      <4>1. Sent(f.of) /\ 1 \in DOMAIN queue /\ h = queue[1]
        BY <2>1, <2>5, <3>1, QueueFacts DEF ShellInv, Sent
      <4> QED BY <1>4, <2>5, <4>1 DEF ShellInv, LineInv, InLine, Awaited
    <3>3. f.of = h
      <4>1. SUFFICES ASSUME f.of # h
                     PROVE  FALSE
        OBVIOUS
      <4>2. f.of \in 1..(h - 1)
        BY <1>4, <2>5, <3>2, <4>1
      <4>3. ~Awaited(f.of)
        BY <2>5, <4>1 DEF Awaited
      <4>4. results[f.of] # Failed
        BY <2>5, <2>6, <3>1, <4>2 DEF GivenUpBefore, Owed
      <4>5. PICK d \in 1..(f.of - 1) : results[d] = Failed /\ line[d] = r
        BY <3>1, <4>3, <4>4 DEF Owed, GivenUpBefore
      <4>6. d \in 1..(h - 1)
        BY <1>4, <2>5, <4>2, <4>5
      <4> QED BY <2>5, <2>6, <4>5, <4>6 DEF GivenUpBefore
    <3>4. ASSUME NEW q \in Relays, Among(h, typed[q])
          PROVE  FALSE
      <4>1. q = r
        BY <2>5, <3>4 DEF ShellInv, LineInv, Answered, TypedOwed, Owed
      <4>2. PICK i \in DOMAIN ran : ran[i] = h
        BY <3>1, <3>3 DEF Among
      <4>3. PICK j \in DOMAIN typed[r] : typed[r][j] = h
        BY <3>4, <4>1 DEF Among
      <4>4. ran[i] < typed[r][j]
        BY <1>3 DEF ShellInv, LineInv, InLine
      <4> QED BY <2>5, <4>2, <4>3, <4>4
    <3>5. ASSUME NEW q \in Relays, NEW k \in DOMAIN frames'[q], Answers(frames'[q][k]),
                 frames'[q][k].of = h
          PROVE  FALSE
      <4>1. Owed(h, q)
        BY <1>2, <3>5, FramesKeep
      <4>2. q = r
        BY <2>5, <4>1 DEF Owed
      <4>3. /\ k \in Nat /\ k + 1 \in DOMAIN frames[r] /\ 1 \in 1..((k + 1) - 1)
            /\ frames'[r][k] = frames[r][k + 1]
        <5> DEFINE s == frames[r]
        <5>1. s \in Seq(Frames) /\ s # <<>> /\ frames'[r] = Tail(s)
          BY <1>1, StateFacts DEF ShellInv
        <5> HIDE DEF s
        <5>2. /\ Len(s) \in Nat \ {0} /\ DOMAIN s = 1..Len(s)
              /\ DOMAIN frames'[r] = 1..(Len(s) - 1)
              /\ \A i \in 1..(Len(s) - 1) : frames'[r][i] = s[i + 1]
          BY <5>1, TailFacts
        <5>3. k \in 1..(Len(s) - 1)
          BY <3>5, <4>2, <5>2
        <5>4. k + 1 \in DOMAIN s /\ 1 \in 1..((k + 1) - 1)
          BY <5>2, <5>3
        <5> QED BY <5>2, <5>3, <5>4 DEF s
      <4>4. InFrame(r, k + 1)
        BY <4>3 DEF ShellInv, LineInv, Answered, FramesOwed
      <4>5. frames[r][1].of < frames[r][k + 1].of
        BY <1>4, <2>1, <3>5, <4>2, <4>3, <4>4 DEF InFrame
      <4> QED BY <1>4, <2>5, <3>3, <3>5, <4>2, <4>3, <4>5
    <3> QED BY <3>1, <3>3, <3>4, <3>5
  <2>7. Output(f.of).of = f.of
    BY DEF Output
  <2>8. LineInv'
    BY <1>1, <1>2, <2>1, <2>5, <2>6, <2>7, SettleKeeps
  <2> QED BY <2>3, <2>4, <2>8 DEF ShellInv
<1> QED BY <1>5, <1>6

LEMMA ShellInitHolds == ShellInit => ShellInv
<1> SUFFICES ASSUME ShellInit PROVE ShellInv
  OBVIOUS
<1>1. /\ queue = <<>> /\ DOMAIN queue = {} /\ given = 0 /\ phase = "idle" /\ relay = 0
      /\ ran = <<>> /\ DOMAIN ran = {}
      /\ \A r \in Relays : /\ typed[r] = <<>> /\ DOMAIN typed[r] = {}
                           /\ frames[r] = <<>> /\ DOMAIN frames[r] = {}
      /\ \A c \in Commands : results[c] = Pending
  BY DEF ShellInit
<1>2. ShellShape
  <2>1. ShellTypeOK
    <3>1. queue \in Seq(1..given)
      BY <1>1
    <3>2. cookies \in BOOLEAN
      BY DEF ShellInit
    <3>3. /\ status \in Statuses /\ control \in {"none", "open", "closed"}
          /\ relay \in 0..MaxRelays /\ at \in 0..MaxRelays /\ phase \in Phases
          /\ at = 0 /\ phase = "idle" /\ faults \in 0..MaxFaults
      BY DEF ShellInit, Statuses, Phases
    <3>4. /\ \A i, j \in DOMAIN queue : i < j => queue[i] < queue[j]
          /\ \A c \in 1..given : results[c] = Pending <=> \E i \in DOMAIN queue : queue[i] = c
      BY <1>1
    <3> QED BY <3>1, <3>2, <3>3, <3>4 DEF ShellTypeOK
  <2>2. Pending \in [outcome: Outcomes, of: 0..MaxCommands]
    BY DEF Pending, Outcomes
  <2>3. results \in [Commands -> [outcome: Outcomes, of: 0..MaxCommands]]
    BY <2>2 DEF ShellInit
  <2>4. typed \in [Relays -> Seq(Commands)] /\ frames \in [Relays -> Seq(Frames)]
        /\ ran \in Seq(Commands)
    BY DEF ShellInit
  <2> QED BY <1>1, <2>1, <2>3, <2>4 DEF ShellInit, ShellShape
<1>3. OneShell
  BY <1>1 DEF OneShell
<1>4. \A c : ~Sent(c)
  BY <1>1 DEF Sent, Among
<1>5. LineInv
  <2>1. InLine
    BY <1>1, <1>4 DEF InLine, RunsInOrder
  <2>2. Answered
    BY <1>1 DEF Answered, FramesOwed, TypedOwed, Among
  <2>3. ResultIsItsOwn
    BY <1>1 DEF ResultIsItsOwn, Pending
  <2> QED BY <2>1, <2>2, <2>3 DEF LineInv
<1> QED BY <1>2, <1>3, <1>5 DEF ShellInv

\* Every step of the session, its callers and its surroundings.
LEMMA ShellKeeps ==
    ASSUME ShellInv, Exec \/ End \/ ShellStep \/ UNCHANGED shellVars
    PROVE  ShellInv'
<1>1. CASE UNCHANGED shellVars
  <2>1. UNCHANGED <<sessionVars, servingVars, remoteVars, faults>>
    BY <1>1 DEF shellVars
  <2>2. ShellShape'
    <3>1. QueueShape'
      BY <2>1, QueueStands DEF ShellInv, servingVars
    <3> QED BY <2>1, <3>1, ShapeKeeps, StateFacts
         DEF ShellInv, sessionVars, servingVars, remoteVars
  <2>3. OneShell'
    BY <2>1 DEF ShellInv, OneShell, Connected, sessionVars, servingVars, remoteVars
  <2>4. LineInv'
    BY <2>1, QuietKeeps, FramesMove DEF ShellInv, servingVars, remoteVars
  <2> QED BY <2>2, <2>3, <2>4 DEF ShellInv
<1>2. CASE ShellStep
  BY <1>2, StartKeeps, ConnectingKeeps, FaultsKeep, DropsKeep, AgentJoinsKeeps,
     FrameArrivesKeeps, ShellRunsKeeps DEF ShellStep
<1> QED BY <1>1, <1>2, ExecKeeps, EndKeeps

-----------------------------------------------------------------------------
(***************************************************************************)
(* The run and its undos.                                                  *)
(***************************************************************************)
Entries  == [id: Commands, undoes: 0..MaxCommands, ok: BOOLEAN]
Requests == [of: Commands, call: 0..MaxCommands,
             state: {"reading", "refused", "running", "done", "failed"}]

LEMMA BookFacts ==
    ASSUME ShellInv, Books
    PROVE  /\ given \in Nat /\ given \in 0..MaxCommands
           /\ record \in Seq(Entries) /\ DOMAIN record = 1..Len(record) /\ Len(record) \in Nat
           /\ undos \in Seq(Requests) /\ DOMAIN undos = 1..Len(undos) /\ Len(undos) \in Nat
           /\ \A i \in DOMAIN record : record[i] \in Entries
           /\ \A u \in DOMAIN undos : undos[u] \in Requests
<1>1. given \in Nat /\ given \in 0..MaxCommands
  BY DEF ShellInv, ShellShape
<1>2. record \in Seq(Entries) /\ undos \in Seq(Requests)
  BY DEF Books, RecordShape, Entries, Requests
<1>3. \A i \in DOMAIN record : record[i] \in Entries
  BY <1>2
<1>4. \A u \in DOMAIN undos : undos[u] \in Requests
  BY <1>2
<1> QED BY <1>1, <1>2, <1>3, <1>4

\* What is recorded of a call that was settled.
LEMMA EntryFacts ==
    ASSUME ShellInv, NEW c \in 0..MaxCommands, Settled(c), NEW o \in 0..MaxCommands
    PROVE  /\ Entry(c, o) \in Entries
           /\ Entry(c, o).id = c /\ Entry(c, o).undoes = o
           /\ Entry(c, o).ok = (results[c].outcome = "returned")
           /\ c \in Commands /\ c <= given
  BY DEF Entry, Entries, Settled, ShellInv, ShellShape

\* The entry of a call is the one that carries its number.
LEMMA EntryIs ==
    ASSUME Books, NEW i \in DOMAIN record
    PROVE  EntryOf(record[i].id) = record[i]
<1> DEFINE k == CHOOSE j \in DOMAIN record : record[j].id = record[i].id
<1>1. k \in DOMAIN record /\ record[k].id = record[i].id
  OBVIOUS
<1>2. k = i
  BY <1>1 DEF Books, RecordedOnce
<1> QED BY <1>2 DEF EntryOf

\* A new entry under a new number changes nothing that was recorded.
LEMMA RecordGrows ==
    ASSUME ShellInv, Books, NEW e \in Entries, record' = Append(record, e),
           \A i \in DOMAIN record : record[i].id # e.id
    PROVE  /\ record' \in Seq(Entries) /\ Len(record') = Len(record) + 1
           /\ DOMAIN record' = 1..(Len(record) + 1) /\ record'[Len(record) + 1] = e
           /\ \A i \in DOMAIN record : i \in DOMAIN record' /\ record'[i] = record[i]
           /\ \A i, j \in DOMAIN record' : i # j => record'[i].id # record'[j].id
           /\ \A s \in Commands : Undoable(s) => RollbackBlocked(s)' = RollbackBlocked(s)
<1>1. /\ record \in Seq(Entries) /\ DOMAIN record = 1..Len(record) /\ Len(record) \in Nat
  BY BookFacts
<1>2. /\ record' \in Seq(Entries) /\ Len(record') = Len(record) + 1
      /\ DOMAIN record' = 1..(Len(record) + 1) /\ record'[Len(record) + 1] = e
      /\ \A i \in DOMAIN record : i \in DOMAIN record' /\ record'[i] = record[i]
  BY <1>1, AppendFacts
<1>3. \A i, j \in DOMAIN record' : i # j => record'[i].id # record'[j].id
  <2> SUFFICES ASSUME NEW i \in DOMAIN record', NEW j \in DOMAIN record', i # j
               PROVE  record'[i].id # record'[j].id
    OBVIOUS
  <2>1. \A k \in DOMAIN record' : k \in DOMAIN record \/ k = Len(record) + 1
    BY <1>1, <1>2
  <2>2. CASE i \in DOMAIN record /\ j \in DOMAIN record
    BY <1>2, <2>2 DEF Books, RecordedOnce
  <2> QED BY <1>2, <2>1, <2>2
<1>4. ASSUME NEW s \in Commands, Undoable(s)
      PROVE  RollbackBlocked(s)' = RollbackBlocked(s)
  <2>1. PICK i \in DOMAIN record : record[i].id = s
    BY <1>4 DEF Undoable
  <2>2. EntryOf(s) = record[i]
    BY <2>1, EntryIs
  <2> DEFINE k == CHOOSE j \in DOMAIN record' : record'[j].id = s
  <2>3. i \in DOMAIN record' /\ record'[i].id = s /\ record'[i] = record[i]
    BY <1>2, <2>1
  <2>4. k \in DOMAIN record' /\ record'[k].id = s
    BY <2>3
  <2>5. k = i
    BY <1>3, <2>3, <2>4
  <2>6. EntryOf(s)' = record[i]
    BY <2>3, <2>5 DEF EntryOf
  <2> QED BY <2>2, <2>6 DEF RollbackBlocked
<1> QED BY <1>2, <1>3, <1>4

\* One request changes.
LEMMA RequestChanges ==
    ASSUME ShellInv, Books, NEW u \in DOMAIN undos, NEW q \in Requests,
           undos' = [undos EXCEPT ![u] = q]
    PROVE  /\ undos' \in Seq(Requests) /\ DOMAIN undos' = DOMAIN undos
           /\ undos'[u] = q
           /\ \A v \in DOMAIN undos : v # u => undos'[v] = undos[v]
<1>1. undos \in Seq(Requests)
  BY BookFacts
<1> QED BY <1>1

\* The undo window uses the session by its calls alone.
LEMMA CallsOnly == [Next]_vars => Exec \/ End \/ ShellStep \/ UNCHANGED shellVars
<1> SUFFICES ASSUME [Next]_vars PROVE Exec \/ End \/ ShellStep \/ UNCHANGED shellVars
  OBVIOUS
<1>1. CASE Technician
  BY <1>1 DEF Technician, AskToUndo, RefuseUndo, StartUndo, FinishUndo
<1> QED BY <1>1 DEF Next, vars, MakeChange, RecordChange, FinishRun, UserStop, CloseDevice,
                    Unwind, WindowCloses, Serve

\* One request is on the record as it must be.
OnRecord(q) ==
    /\ q.call # 0 => \E i \in DOMAIN record :
          record[i].id = q.of /\ record[i].ok /\ ~RollbackBlocked(q.of)
    /\ q.state \in {"done", "failed"} =>
          \E i \in DOMAIN record : /\ record[i].id = q.call
                                   /\ record[i].undoes = q.of
                                   /\ record[i].ok = (q.state = "done")

LEMMA AllOnRecord == UndoIsOnTheRecord <=> \A u \in DOMAIN undos : OnRecord(undos[u])
  BY DEF UndoIsOnTheRecord, OnRecord

LEMMA OnRecordStays ==
    ASSUME ShellInv, Books, NEW e \in Entries, record' = Append(record, e),
           \A i \in DOMAIN record : record[i].id # e.id,
           NEW q \in Requests, OnRecord(q)
    PROVE  OnRecord(q)'
<1>1. /\ \A i \in DOMAIN record : i \in DOMAIN record' /\ record'[i] = record[i]
      /\ \A s \in Commands : Undoable(s) => RollbackBlocked(s)' = RollbackBlocked(s)
  BY RecordGrows
<1>2. ASSUME q.call # 0
      PROVE  \E i \in DOMAIN record' :
                record'[i].id = q.of /\ record'[i].ok /\ ~RollbackBlocked(q.of)'
  <2>1. PICK i \in DOMAIN record :
                record[i].id = q.of /\ record[i].ok /\ ~RollbackBlocked(q.of)
    BY <1>2 DEF OnRecord
  <2>2. q.of \in Commands /\ Undoable(q.of)
    BY <2>1 DEF Undoable, Requests
  <2> QED BY <1>1, <2>1, <2>2
<1>3. ASSUME q.state \in {"done", "failed"}
      PROVE  \E i \in DOMAIN record' : /\ record'[i].id = q.call
                                       /\ record'[i].undoes = q.of
                                       /\ record'[i].ok = (q.state = "done")
  BY <1>1, <1>3 DEF OnRecord
<1> QED BY <1>2, <1>3 DEF OnRecord

LEMMA OnRecordUnchanged ==
    ASSUME UNCHANGED record, NEW q, OnRecord(q)
    PROVE  OnRecord(q)'
  BY DEF OnRecord, RollbackBlocked, EntryOf

\* Nothing is recorded and nothing is asked: calls may be given meanwhile.
LEMMA BooksStand ==
    ASSUME ShellInv, Books, UNCHANGED <<record, undos>>,
           given' \in Nat, given <= given',
           run' \in {"working", "stopped", "finished", "over"},
           run' = "working" => run = "working" /\ given' <= Len(record) + 1
    PROVE  Books'
<1>1. RecordShape'
  BY DEF Books, RecordShape
<1>2. RecordedOnce'
  <2>1. /\ \A i \in DOMAIN record : record[i].id \in Nat
        /\ \A u \in DOMAIN undos : undos[u].call \in Nat
        /\ given \in Nat
    BY BookFacts DEF Entries, Requests
  <2>2. \A i \in DOMAIN record' : record'[i].id <= given'
    BY <2>1 DEF Books, RecordedOnce
  <2>3. \A u \in DOMAIN undos' : undos'[u].call <= given'
    BY <2>1 DEF Books, RecordedOnce
  <2> QED BY <2>2, <2>3 DEF Books, RecordedOnce
<1>3. UndoIsOnTheRecord'
  BY DEF Books, UndoIsOnTheRecord, RollbackBlocked, EntryOf
<1> QED BY <1>1, <1>2, <1>3 DEF Books

LEMMA RecordChangeKeeps ==
    ASSUME ShellInv, Books, RecordChange
    PROVE  Books'
<1> DEFINE e == Entry(given, 0)
<1>1. /\ run = "working" /\ given > Len(record) /\ Settled(given)
      /\ record' = Append(record, e) /\ UNCHANGED <<given, run, undos>>
  BY DEF RecordChange, Outstanding, shellVars, servingVars
<1>2. e \in Entries /\ e.id = given /\ given \in Commands
  BY <1>1, EntryFacts, BookFacts
<1> HIDE DEF e
<1>3. /\ undos = <<>> /\ Len(record) \in Nat /\ given \in Nat /\ given = Len(record) + 1
      /\ DOMAIN record = 1..Len(record)
      /\ \A i \in DOMAIN record : record[i].id = i
  BY <1>1, BookFacts DEF Books, RecordedOnce
<1>4. \A i \in DOMAIN record : record[i].id # e.id
  BY <1>2, <1>3
<1>5. /\ record' \in Seq(Entries) /\ Len(record') = Len(record) + 1
      /\ DOMAIN record' = 1..(Len(record) + 1) /\ record'[Len(record) + 1] = e
      /\ \A i \in DOMAIN record : i \in DOMAIN record' /\ record'[i] = record[i]
      /\ \A i, j \in DOMAIN record' : i # j => record'[i].id # record'[j].id
  BY <1>1, <1>2, <1>4, RecordGrows
<1>6. \A i \in DOMAIN record' : record'[i].id = i
  BY <1>2, <1>3, <1>5
<1>7. undos' = <<>> /\ DOMAIN undos' = {}
  BY <1>1, <1>3
<1>8. RecordShape'
  BY <1>1, <1>5 DEF Books, RecordShape, Entries
<1>9. RecordedOnce'
  BY <1>1, <1>3, <1>5, <1>6, <1>7 DEF RecordedOnce
<1>10. UndoIsOnTheRecord'
  BY <1>7 DEF UndoIsOnTheRecord
<1> QED BY <1>8, <1>9, <1>10 DEF Books

LEMMA AskKeeps ==
    ASSUME ShellInv, Books, NEW s \in Commands, AskToUndo(s)
    PROVE  Books'
<1> DEFINE q == [of |-> s, state |-> "reading", call |-> 0]
<1>1. /\ run = "finished" /\ undos' = Append(undos, q)
      /\ UNCHANGED <<given, run, record>>
  BY DEF AskToUndo, shellVars, servingVars
<1>2. q \in Requests /\ q.call = 0 /\ q.state = "reading"
  BY DEF Requests
<1> HIDE DEF q
<1>3. /\ undos \in Seq(Requests) /\ DOMAIN undos = 1..Len(undos) /\ Len(undos) \in Nat
      /\ given \in Nat
  BY BookFacts
<1>4. /\ undos' \in Seq(Requests) /\ DOMAIN undos' = 1..(Len(undos) + 1)
      /\ undos'[Len(undos) + 1] = q
      /\ \A u \in DOMAIN undos : undos'[u] = undos[u]
  BY <1>1, <1>2, <1>3, AppendFacts
<1>5. \A u \in DOMAIN undos' : u \in DOMAIN undos \/ undos'[u] = q
  BY <1>3, <1>4
<1>6. RecordShape'
  BY <1>1, <1>4 DEF Books, RecordShape, Requests
<1>7. RecordedOnce'
  BY <1>1, <1>2, <1>3, <1>4, <1>5 DEF Books, RecordedOnce
<1>8. UndoIsOnTheRecord'
  <2>1. OnRecord(q)
    BY <1>2 DEF OnRecord
  <2>2. \A u \in DOMAIN undos' : OnRecord(undos'[u])
    BY <1>4, <1>5, <2>1, AllOnRecord DEF Books
  <2> QED BY <1>1, <2>2 DEF OnRecord, UndoIsOnTheRecord, RollbackBlocked, EntryOf
<1> QED BY <1>6, <1>7, <1>8 DEF Books

LEMMA RefuseKeeps ==
    ASSUME ShellInv, Books, NEW u \in DOMAIN undos, RefuseUndo(u)
    PROVE  Books'
<1> DEFINE q == [undos[u] EXCEPT !.state = "refused"]
<1>1. /\ undos[u].state = "reading" /\ undos' = [undos EXCEPT ![u] = q]
      /\ UNCHANGED <<given, run, record>>
  BY DEF RefuseUndo, shellVars, servingVars
<1>2. /\ undos[u] \in Requests /\ undos[u].call = 0 /\ run # "working" /\ given \in Nat
  <2>1. undos[u].call # 0 <=> undos[u].state \in {"running", "done", "failed"}
    BY DEF Books, RecordedOnce
  <2>2. run # "working"
    BY DEF Books, RecordedOnce
  <2> QED BY <1>1, <2>1, <2>2, BookFacts
<1>3. q \in Requests /\ q.call = 0 /\ q.state = "refused"
  BY <1>2 DEF Requests
<1> HIDE DEF q
<1>4. /\ undos' \in Seq(Requests) /\ DOMAIN undos' = DOMAIN undos /\ undos'[u] = q
      /\ \A v \in DOMAIN undos : v # u => undos'[v] = undos[v]
  BY <1>1, <1>3, RequestChanges
<1>5. RecordShape'
  BY <1>1, <1>4 DEF Books, RecordShape, Requests
<1>6. RecordedOnce'
  <2>1. \A v \in DOMAIN undos' : undos'[v] = q \/ (v # u /\ undos'[v] = undos[v])
    BY <1>4
  <2> QED BY <1>1, <1>2, <1>3, <1>4, <2>1 DEF Books, RecordedOnce
<1>7. UndoIsOnTheRecord'
  <2>1. OnRecord(q)
    BY <1>3 DEF OnRecord
  <2>2. \A v \in DOMAIN undos' : OnRecord(undos'[v])
    BY <1>4, <2>1, AllOnRecord DEF Books
  <2> QED BY <1>1, <2>2 DEF OnRecord, UndoIsOnTheRecord, RollbackBlocked, EntryOf
<1> QED BY <1>5, <1>6, <1>7 DEF Books

LEMMA StartUndoKeeps ==
    ASSUME ShellInv, Books, NEW u \in DOMAIN undos, StartUndo(u)
    PROVE  Books'
<1> DEFINE q == [undos[u] EXCEPT !.state = "running", !.call = given + 1]
<1>1. /\ undos[u].state = "reading" /\ undos' = [undos EXCEPT ![u] = q]
      /\ MayUndo(undos[u].of) /\ given < MaxCommands /\ given' = given + 1
      /\ UNCHANGED <<run, record>>
  BY DEF StartUndo, Exec
<1>2. /\ undos[u] \in Requests /\ run # "working"
      /\ given \in Nat /\ given + 1 \in 1..MaxCommands
  BY <1>1, BookFacts DEF Books, RecordedOnce
<1>3. q \in Requests /\ q.call = given + 1 /\ q.state = "running" /\ q.of = undos[u].of
  <2> DEFINE r == undos[u]
             n == given + 1
  <2>1. r \in Requests /\ n \in 0..MaxCommands
    BY <1>2
  <2> HIDE DEF r, n
  <2>2. /\ [r EXCEPT !.state = "running", !.call = n] \in Requests
        /\ [r EXCEPT !.state = "running", !.call = n].call = n
        /\ [r EXCEPT !.state = "running", !.call = n].state = "running"
        /\ [r EXCEPT !.state = "running", !.call = n].of = r.of
    BY <2>1 DEF Requests
  <2> QED BY <2>2 DEF r, n
<1> HIDE DEF q
<1>4. /\ undos' \in Seq(Requests) /\ DOMAIN undos' = DOMAIN undos /\ undos'[u] = q
      /\ \A v \in DOMAIN undos : v # u => undos'[v] = undos[v]
  BY <1>1, <1>3, RequestChanges
<1>5. /\ \A i \in DOMAIN record : record[i].id \in Nat /\ record[i].id <= given
      /\ \A v \in DOMAIN undos : undos[v].call \in Nat /\ undos[v].call <= given
  <2>1. /\ \A i \in DOMAIN record : record[i].id <= given
        /\ \A v \in DOMAIN undos : undos[v].call <= given
    BY DEF Books, RecordedOnce
  <2>2. \A i \in DOMAIN record : record[i].id \in Nat
    BY BookFacts DEF Entries
  <2>3. \A v \in DOMAIN undos : undos[v].call \in Nat
    BY BookFacts DEF Requests
  <2> QED BY <2>1, <2>2, <2>3
<1>6. RecordShape'
  BY <1>1, <1>4 DEF Books, RecordShape, Requests
<1>7. RecordedOnce'
  <2>1. ASSUME NEW v \in DOMAIN undos'
        PROVE  /\ undos'[v].call <= given'
               /\ undos'[v].call # 0 <=> undos'[v].state \in {"running", "done", "failed"}
               /\ undos'[v].state = "running" =>
                    \A i \in DOMAIN record : record[i].id # undos'[v].call
    BY <1>1, <1>2, <1>3, <1>4, <1>5 DEF Books, RecordedOnce
  <2>2. ASSUME NEW v \in DOMAIN undos', NEW w \in DOMAIN undos', v # w, undos'[v].call # 0
        PROVE  undos'[v].call # undos'[w].call
    BY <1>2, <1>3, <1>4, <1>5, <2>2 DEF Books, RecordedOnce
  <2>3. \A i \in DOMAIN record : record[i].id <= given'
    BY <1>1, <1>2, <1>5
  <2> QED BY <1>1, <1>2, <2>1, <2>2, <2>3 DEF Books, RecordedOnce
<1>8. UndoIsOnTheRecord'
  <2>1. OnRecord(q)
    BY <1>1, <1>3 DEF OnRecord, MayUndo, Undoable
  <2>2. \A v \in DOMAIN undos' : OnRecord(undos'[v])
    BY <1>4, <2>1, AllOnRecord DEF Books
  <2> QED BY <1>1, <2>2 DEF OnRecord, UndoIsOnTheRecord, RollbackBlocked, EntryOf
<1> QED BY <1>6, <1>7, <1>8 DEF Books

LEMMA FinishUndoKeeps ==
    ASSUME ShellInv, Books, NEW u \in DOMAIN undos, FinishUndo(u)
    PROVE  Books'
<1> DEFINE st == IF results[undos[u].call].outcome = "returned" THEN "done" ELSE "failed"
           q == [undos[u] EXCEPT !.state = st]
           e == Entry(undos[u].call, undos[u].of)
<1>1. /\ undos[u].state = "running" /\ Settled(undos[u].call)
      /\ record' = Append(record, e) /\ undos' = [undos EXCEPT ![u] = q]
      /\ UNCHANGED <<given, run>>
  BY DEF FinishUndo, RecordUndo, shellVars, servingVars
<1>2. /\ undos[u] \in Requests /\ run # "working" /\ given \in Nat
      /\ undos[u].of \in Commands /\ undos[u].call \in 0..MaxCommands
  BY <1>1, BookFacts DEF Books, RecordedOnce, Requests
<1>3. /\ q \in Requests /\ q.call = undos[u].call /\ q.of = undos[u].of
      /\ q.state = st /\ st \in {"done", "failed"}
  BY <1>2 DEF Requests
<1>4. /\ e \in Entries /\ e.id = undos[u].call /\ e.undoes = undos[u].of
      /\ e.ok = (st = "done") /\ undos[u].call <= given
  BY <1>1, <1>2, EntryFacts
<1> HIDE DEF st, q, e
<1>5. \A i \in DOMAIN record : record[i].id # e.id
  BY <1>1, <1>4 DEF Books, RecordedOnce
<1>6. /\ record' \in Seq(Entries) /\ DOMAIN record' = 1..(Len(record) + 1)
      /\ record'[Len(record) + 1] = e
      /\ \A i \in DOMAIN record : i \in DOMAIN record' /\ record'[i] = record[i]
      /\ \A i, j \in DOMAIN record' : i # j => record'[i].id # record'[j].id
  BY <1>1, <1>4, <1>5, RecordGrows
<1>7. /\ undos' \in Seq(Requests) /\ DOMAIN undos' = DOMAIN undos /\ undos'[u] = q
      /\ \A v \in DOMAIN undos : v # u => undos'[v] = undos[v]
  BY <1>1, <1>3, RequestChanges
<1>8. \A i \in DOMAIN record' : i \in DOMAIN record \/ record'[i] = e
  BY <1>6, BookFacts
<1>9. RecordShape'
  BY <1>1, <1>6, <1>7 DEF Books, RecordShape, Requests, Entries
<1>10. RecordedOnce'
  <2>1. \A i \in DOMAIN record' : record'[i].id <= given'
    BY <1>1, <1>4, <1>6, <1>8 DEF Books, RecordedOnce
  <2>2. ASSUME NEW v \in DOMAIN undos'
        PROVE  /\ undos'[v].call <= given'
               /\ undos'[v].call # 0 <=> undos'[v].state \in {"running", "done", "failed"}
    BY <1>1, <1>3, <1>7 DEF Books, RecordedOnce
  <2>3. ASSUME NEW v \in DOMAIN undos', NEW w \in DOMAIN undos', v # w, undos'[v].call # 0
        PROVE  undos'[v].call # undos'[w].call
    BY <1>3, <1>7, <2>3 DEF Books, RecordedOnce
  <2>4. ASSUME NEW v \in DOMAIN undos', undos'[v].state = "running", NEW i \in DOMAIN record'
        PROVE  record'[i].id # undos'[v].call
    <3>1. v # u /\ undos'[v] = undos[v]
      BY <1>3, <1>7, <2>4
    <3>2. undos[v].call # 0 /\ undos[v].call # undos[u].call
      BY <1>7, <2>4, <3>1 DEF Books, RecordedOnce
    <3>3. CASE i \in DOMAIN record
      BY <1>6, <1>7, <2>4, <3>1, <3>3 DEF Books, RecordedOnce
    <3>4. CASE record'[i] = e
      BY <1>4, <3>1, <3>2, <3>4
    <3> QED BY <1>8, <3>3, <3>4
  <2> QED BY <1>1, <1>2, <1>6, <2>1, <2>2, <2>3, <2>4 DEF RecordedOnce
<1>11. UndoIsOnTheRecord'
  <2>1. ASSUME NEW r \in Requests, OnRecord(r) PROVE OnRecord(r)'
    BY <1>1, <1>4, <1>5, <2>1, OnRecordStays
  <2>2. \A v \in DOMAIN undos : OnRecord(undos[v])
    BY AllOnRecord DEF Books
  <2>3. ASSUME NEW v \in DOMAIN undos', NEW r \in Requests, r = undos'[v]
        PROVE  OnRecord(r)'
    <3>1. CASE v # u
      <4>1. v \in DOMAIN undos /\ r = undos[v]
        BY <1>7, <2>3, <3>1
      <4> QED BY <2>1, <2>2, <4>1
    <3>2. CASE v = u
      <4>1. PICK w \in Requests : w = undos[u]
        BY <1>2
      <4>2. OnRecord(w)'
        BY <2>1, <2>2, <4>1
      <4>3. r.call = w.call /\ r.of = w.of /\ r.state \in {"done", "failed"}
        BY <1>3, <1>7, <2>3, <3>2, <4>1
      <4>4. /\ Len(record) + 1 \in DOMAIN record'
            /\ record'[Len(record) + 1].id = r.call
            /\ record'[Len(record) + 1].undoes = r.of
            /\ record'[Len(record) + 1].ok = (r.state = "done")
        BY <1>3, <1>4, <1>6, <1>7, <2>3, <3>2, BookFacts
      <4> QED BY <4>2, <4>3, <4>4 DEF OnRecord
    <3> QED BY <3>1, <3>2
  <2>4. \A v \in DOMAIN undos' : undos'[v] \in Requests
    BY <1>7
  <2> QED BY <2>3, <2>4 DEF OnRecord, UndoIsOnTheRecord
<1> QED BY <1>9, <1>10, <1>11 DEF Books

LEMMA InitHolds == Init => ShellInv /\ Books
<1> SUFFICES ASSUME Init PROVE ShellInv /\ Books
  OBVIOUS
<1>1. ShellInv
  BY ShellInitHolds DEF Init
<1>2. /\ record = <<>> /\ DOMAIN record = {} /\ Len(record) = 0
      /\ undos = <<>> /\ DOMAIN undos = {} /\ run = "working" /\ given = 0
  BY DEF Init, ShellInit
<1>3. Books
  BY <1>2 DEF Books, RecordShape, RecordedOnce, UndoIsOnTheRecord
<1> QED BY <1>1, <1>3

LEMMA StepKeeps ==
    ASSUME ShellInv, Books, [Next]_vars
    PROVE  ShellInv' /\ Books'
<1>1. ShellInv'
  BY CallsOnly, ShellKeeps
<1> SUFFICES Books'
  BY <1>1
<1>2. given' \in Nat
  BY <1>1 DEF ShellInv, ShellShape
<1>3. given \in Nat /\ Len(record) \in Nat
  BY BookFacts
<1>4. /\ run \in {"working", "stopped", "finished", "over"}
      /\ run = "working" => given <= Len(record) + 1
  BY DEF Books, RecordShape, RecordedOnce
<1>5. CASE MakeChange
  BY <1>2, <1>3, <1>4, <1>5, BooksStand DEF MakeChange, Outstanding, Exec, undoVars
<1>6. CASE RecordChange
  BY <1>6, RecordChangeKeeps
<1>7. CASE FinishRun \/ Unwind
  BY <1>2, <1>3, <1>4, <1>7, BooksStand DEF FinishRun, Unwind, shellVars, servingVars
<1>8. CASE UserStop \/ WindowCloses
  BY <1>2, <1>3, <1>4, <1>8, BooksStand
     DEF UserStop, WindowCloses, CloseDevice, End, servingVars
<1>9. CASE Technician
  <2>1. CASE \E s \in Commands : AskToUndo(s)
    BY <2>1, AskKeeps
  <2>2. CASE \E u \in DOMAIN undos : RefuseUndo(u) \/ StartUndo(u) \/ FinishUndo(u)
    BY <2>2, RefuseKeeps, StartUndoKeeps, FinishUndoKeeps
  <2> QED BY <1>9, <2>1, <2>2 DEF Technician
<1>10. CASE Serve
  <2>1. given' = given
    BY <1>10 DEF Serve, ShellStep, Start, ControlOpens, LoginAnswered, RelayOpens,
       ConnectionFails, CommandTimesOut, Drops, AgentJoins, FrameArrives, ShellRuns,
       Type, Tunnel, Fail, servingVars
  <2> QED BY <1>2, <1>3, <1>4, <1>10, <2>1, BooksStand DEF Serve, undoVars
<1>11. CASE UNCHANGED vars
  BY <1>2, <1>3, <1>4, <1>11, BooksStand DEF vars, undoVars, shellVars, servingVars
<1> QED BY <1>5, <1>6, <1>7, <1>8, <1>9, <1>10, <1>11 DEF Next

LEMMA Invariance == Spec => []IInv
<1>1. Init => IInv
  BY InitHolds DEF IInv
<1>2. IInv /\ [Next]_vars => IInv'
  BY StepKeeps DEF IInv
<1> QED BY <1>1, <1>2, PTL DEF Spec

-----------------------------------------------------------------------------
(***************************************************************************)
(* The session's state and the records are well formed: what waits is in   *)
(* the order of the calls, and what waits is what has no result yet        *)
(* (exec() and #queue in remote.ts; the records of undo.ts).               *)
(***************************************************************************)
THEOREM TypeCorrect == Spec => []TypeOK
<1>1. IInv => TypeOK
  <2> SUFFICES ASSUME IInv PROVE TypeOK
    OBVIOUS
  <2>0. ShellInv /\ Books
    BY DEF IInv
  <2>1. \A i \in DOMAIN record :
          record[i].id \in Commands /\ record[i].undoes \in 0..MaxCommands
    BY <2>0, BookFacts DEF Entries
  <2>2. \A u \in DOMAIN undos :
          undos[u].state \in {"reading", "refused", "running", "done", "failed"}
    BY <2>0, BookFacts DEF Requests
  <2> QED BY <2>0, <2>1, <2>2 DEF TypeOK, ShellInv, ShellShape, Books, RecordShape
<1> QED BY <1>1, Invariance, PTL

(***************************************************************************)
(* A result that exec() of remote.ts returns is the output of its own      *)
(* command, which the machine did run, unless a command before it on the   *)
(* same shell was given up, whatever is typed, answered, dropped or late,  *)
(* and however many relays the session goes through.                       *)
(***************************************************************************)
THEOREM ResultsAreTheirOwn == Spec => []ResultIsItsOwn
<1>1. IInv => ResultIsItsOwn
  BY DEF IInv, ShellInv, LineInv
<1> QED BY <1>1, Invariance, PTL

(***************************************************************************)
(* #execNow of remote.ts has the machine run each command at most once, in *)
(* the order in which exec() was called, across shells and reconnections.  *)
(***************************************************************************)
THEOREM CommandsRunInOrder == Spec => []RunsInOrder
<1>1. IInv => RunsInOrder
  BY DEF IInv, ShellInv, LineInv, InLine
<1> QED BY <1>1, Invariance, PTL

(***************************************************************************)
(* undo.ts starts an undo only of a recorded change that worked and whose  *)
(* rollback the policy lets pass, and an undo that was answered is on the  *)
(* record with the outcome it was answered with, for any number of undos,  *)
(* of undos, concurrent or late.                                           *)
(***************************************************************************)
THEOREM UndosStandOnTheRecord == Spec => []UndoIsOnTheRecord
<1>1. IInv => UndoIsOnTheRecord
  BY DEF IInv, Books
<1> QED BY <1>1, Invariance, PTL
=============================================================================
