------------------------------- MODULE Console -------------------------------
(***************************************************************************)
(* The technician console over several runs (server/index.ts, startRun and *)
(* the routes): each run opens the knowledge of the desk, works, and ends  *)
(* in one turn in which it learns, announces itself and finishes, while    *)
(* browsers follow and come back, users stop, technicians remove lessons   *)
(* and new runs make room for themselves.                                  *)
(***************************************************************************)
EXTENDS KnowledgeStore, EventStreams

CONSTANTS
    MaxKept,      \* RunRegistry's maxRuns
    MaxEvents     \* bound: events of a run before its end

ASSUME ConsoleAssumption == MaxKept \in Nat \ {0} /\ MaxEvents \in Nat

VARIABLE opened   \* the runs whose store is open

vars == <<storeVars, streamVars, opened>>

Init == StoreInit /\ StreamInit /\ opened = {}

CreateRun(r) == Create(r, MaxKept) /\ UNCHANGED <<storeVars, opened>>

\* After the model is selected: "started", the store and its seeds.
Starts(r) ==
    /\ status[r] = "running" /\ r \notin opened
    /\ opened' = opened \cup {r}
    /\ Emits(r, <<"started">>)
    /\ OpenStore(r)
    /\ UNCHANGED <<status, stopped, registry, drops>>

Working(r) == status[r] = "running" /\ r \in opened

Recalls(r) ==
    /\ Working(r) /\ r \notin stopped /\ Len(history[r]) < MaxEvents
    /\ Recall(r) /\ Emits(r, <<"knowledge">>)
    /\ UNCHANGED <<status, stopped, registry, drops, opened>>

\* From the loop's last look at the stop to finish() nothing else has a turn.
Ended(r, how, event, final) ==
    /\ Working(r) /\ r \notin stopped
    /\ Emits(r, event)
    /\ status' = [status EXCEPT ![r] = final]
    /\ UNCHANGED <<stopped, registry, drops, opened>>

RunEnds(r) ==
    \E how \in {"resolved", "escalated", "failed"} :
       EndInStore(r, how) /\ Ended(r, how, <<"done">>, "finished")

LearningFails(r) ==
    \E how \in {"resolved", "escalated"} :
       TornInStore(r, how) /\ Ended(r, how, <<"error">>, "failed")

\* Anything thrown: an error is announced, a stop that was heard is not.
RunThrows(r) ==
    /\ status[r] = "running"
    /\ IF r \in stopped
       THEN /\ status' = [status EXCEPT ![r] = "finished"]
            /\ UNCHANGED <<history, page>>
       ELSE /\ status' = [status EXCEPT ![r] = "failed"]
            /\ Emits(r, <<"error">>)
    /\ LeavesStore(r)
    /\ UNCHANGED <<stopped, registry, drops, opened>>

-----------------------------------------------------------------------------
Streams(b) == StreamEvents(b) \/ Finish(b) \/ Arrives(b)

Next ==
    \/ \E r \in Runs :
          \/ CreateRun(r) \/ Starts(r) \/ Recalls(r)
          \/ RunEnds(r) \/ LearningFails(r) \/ RunThrows(r)
          \/ UserStops(r) /\ UNCHANGED <<storeVars, opened>>
    \/ (\E l \in Lesson : RemoveLesson(l)) /\ UNCHANGED <<streamVars, opened>>
    \/ \E b \in Browsers :
          /\ Streams(b) \/ Drops(b) \/ \E r \in Runs : Watch(b, r)
          /\ UNCHANGED <<storeVars, opened>>

Spec == Init /\ [][Next]_vars

(***************************************************************************)
(* The server's turns come, frames that were not lost arrive and           *)
(* EventSource comes back.                                                 *)
(***************************************************************************)
FairSpec ==
    Spec /\ \A b \in Browsers : WF_vars(Streams(b) /\ UNCHANGED <<storeVars, opened>>)

-----------------------------------------------------------------------------
TypeOK == StoreTypeOK /\ StreamTypeOK /\ opened \subseteq Runs
=============================================================================
