----------------------------- MODULE UndoWindow ------------------------------
(***************************************************************************)
(* A run on a remote machine and what follows it: the run's own commands   *)
(* (execution-plane/executor.ts over RemoteShell), its record, the window  *)
(* in which a technician may undo its changes (src/src/server/undo.ts and  *)
(* run-registry.ts), and the timer or the user's stop that gives the       *)
(* machine back while commands may be under way.                           *)
(***************************************************************************)
EXTENDS RemoteShell

CONSTANTS
    Changes,   \* the run's changes, 1..n in the order it makes them
    Guarded,   \* those whose rollback crosses a guardrail
    MaxUndos   \* bound: undos asked for at the console

ASSUME UndoAssumption ==
    /\ Changes = 1..Cardinality(Changes) /\ Guarded \subseteq Changes /\ MaxUndos \in Nat
    /\ Cardinality(Changes) + MaxUndos = MaxCommands

VARIABLES
    run,       \* "working", "stopped", "finished", or "over": stopped and unwound
    record,    \* the run's results, each [id, undoes, ok]; id is the exec() call
    attached,  \* RunSession.device is set
    undos      \* the requests, each [of, state, call]

undoVars == <<run, record, attached, undos>>
vars == <<shellVars, undoVars>>

Init ==
    /\ ShellInit
    /\ run = "working" /\ record = <<>> /\ attached = TRUE /\ undos = <<>>

-----------------------------------------------------------------------------
(***************************************************************************)
(* The run: one command after the other, each recorded when it returns.    *)
(***************************************************************************)
Entry(id, undoes) == [id |-> id, undoes |-> undoes, ok |-> results[id].outcome = "returned"]
Settled(c) == c > 0 /\ c <= given /\ results[c] # Pending

\* The run's calls come first: call i is change i.
Outstanding == given > Len(record)

MakeChange ==
    /\ run = "working" /\ ~Outstanding /\ given < Cardinality(Changes)
    /\ Exec
    /\ UNCHANGED undoVars

RecordChange ==
    /\ run = "working" /\ Outstanding /\ Settled(given)
    /\ record' = Append(record, Entry(given, 0))
    /\ UNCHANGED <<shellVars, run, attached, undos>>

\* The results are the session's, and the undo window is open.
FinishRun ==
    /\ run = "working" /\ ~Outstanding /\ Len(record) = Cardinality(Changes)
    /\ run' = "finished"
    /\ UNCHANGED <<shellVars, record, attached, undos>>

-----------------------------------------------------------------------------
(***************************************************************************)
(* closeDevice(): by the user's stop, by the window's timer, by eviction.  *)
(***************************************************************************)
CloseDevice ==
    /\ attached /\ attached' = FALSE
    /\ End

UserStop ==
    /\ run = "working"
    /\ run' = "stopped"
    /\ CloseDevice
    /\ UNCHANGED <<record, undos>>

\* The loop throws at its next boundary; what came back is not recorded.
Unwind ==
    /\ run = "stopped" /\ (Outstanding => Settled(given))
    /\ run' = "over"
    /\ UNCHANGED <<shellVars, record, attached, undos>>

WindowCloses ==
    /\ run = "finished"
    /\ CloseDevice
    /\ UNCHANGED <<run, record, undos>>

-----------------------------------------------------------------------------
(***************************************************************************)
(* Undo, by request.  Every recorded change that worked has a rollback, an *)
(* undo's own being the command it undid.                                  *)
(***************************************************************************)
Undoable(s) == \E i \in DOMAIN record : record[i].id = s /\ record[i].ok
EntryOf(s)  == record[CHOOSE i \in DOMAIN record : record[i].id = s]

\* The policy's verdict on the rollback: an undo's puts the change back.
RollbackBlocked(s) == EntryOf(s).undoes = 0 /\ s \in Guarded

\* The run is finished; the body is still to be read.
AskToUndo(s) ==
    /\ run = "finished" /\ Len(undos) < MaxUndos /\ s \in 1..given
    /\ undos' = Append(undos, [of |-> s, state |-> "reading", call |-> 0])
    /\ UNCHANGED <<shellVars, run, record, attached>>

\* Mutant: the rollback is taken on trust.
MayUndoTrusting(s) == Undoable(s) /\ attached
MayUndo(s) == Undoable(s) /\ attached /\ ~RollbackBlocked(s)

RefuseUndo(u) ==
    /\ undos[u].state = "reading" /\ ~MayUndo(undos[u].of)
    /\ undos' = [undos EXCEPT ![u].state = "refused"]
    /\ UNCHANGED <<shellVars, run, record, attached>>

StartUndo(u) ==
    /\ undos[u].state = "reading" /\ MayUndo(undos[u].of)
    /\ Exec
    /\ undos' = [undos EXCEPT ![u].state = "running", ![u].call = given + 1]
    /\ UNCHANGED <<run, record, attached>>

RecordUndo(u) == record' = Append(record, Entry(undos[u].call, undos[u].of))

FinishUndo(u) ==
    /\ undos[u].state = "running" /\ Settled(undos[u].call)
    /\ RecordUndo(u)
    /\ undos' = [undos EXCEPT ![u].state =
                    IF results[undos[u].call].outcome = "returned" THEN "done" ELSE "failed"]
    /\ UNCHANGED <<shellVars, run, attached>>

-----------------------------------------------------------------------------
Technician ==
    \/ \E s \in Commands : AskToUndo(s)
    \/ \E u \in DOMAIN undos : RefuseUndo(u) \/ StartUndo(u) \/ FinishUndo(u)

Serve == ShellStep /\ UNCHANGED undoVars

Next ==
    \/ MakeChange \/ RecordChange \/ FinishRun \/ UserStop \/ Unwind \/ WindowCloses
    \/ Technician \/ Serve

Spec == Init /\ [][Next]_vars

(***************************************************************************)
(* Fairness: the event loop serves what is ready and the timers fire.  The *)
(* people, the faults and the drops are free.                              *)
(***************************************************************************)
Served ==
    \/ Start \/ ControlOpens \/ LoginAnswered \/ RelayOpens
    \/ (ConnectionFails /\ UNCHANGED faults) \/ (CommandTimesOut /\ UNCHANGED faults)
    \/ \E r \in Relays : AgentJoins(r) \/ FrameArrives(r) \/ ShellRuns(r)

FairSpec ==
    /\ Spec
    /\ WF_vars(Served /\ UNCHANGED undoVars)
    /\ WF_vars(MakeChange \/ RecordChange \/ FinishRun \/ Unwind)
    /\ WF_vars(\E u \in DOMAIN undos : RefuseUndo(u) \/ StartUndo(u) \/ FinishUndo(u))

-----------------------------------------------------------------------------
TypeOK ==
    /\ ShellTypeOK
    /\ run \in {"working", "stopped", "finished", "over"}
    /\ \A i \in DOMAIN record : record[i].id \in Commands /\ record[i].undoes \in 0..MaxCommands
    /\ \A u \in DOMAIN undos : undos[u].state \in {"reading", "refused", "running", "done", "failed"}

(***************************************************************************)
(* An undo is of a recorded change that worked, is itself on the record    *)
(* once it was answered, and is never of a change whose rollback the       *)
(* policy refuses, however undos and undos of undos are asked for.         *)
(***************************************************************************)
UndoIsOnTheRecord ==
    \A u \in DOMAIN undos :
       /\ undos[u].call # 0 => \E i \in DOMAIN record :
             record[i].id = undos[u].of /\ record[i].ok /\ ~RollbackBlocked(undos[u].of)
       /\ undos[u].state \in {"done", "failed"} =>
             \E i \in DOMAIN record : /\ record[i].id = undos[u].call
                                      /\ record[i].undoes = undos[u].of
                                      /\ record[i].ok = (undos[u].state = "done")

(***************************************************************************)
(* Every request to undo is answered, whatever the window, the connection  *)
(* and the other requests do.                                              *)
(***************************************************************************)
UndoIsAnswered ==
    \A u \in 1..MaxUndos :
       Len(undos) >= u ~> (u \in DOMAIN undos /\ undos[u].state \notin {"reading", "running"})

(***************************************************************************)
(* Said of the program, and refuted: "It does not run twice.  An undo      *)
(* already applied is reported as such rather than repeated."              *)
(***************************************************************************)
UndoneOnce ==
    \A i, j \in DOMAIN record :
       record[i].ok /\ record[j].ok /\ record[i].undoes # 0 /\ i # j
          => record[i].undoes # record[j].undoes
=============================================================================
