---------------------------- MODULE EventStreams -----------------------------
(***************************************************************************)
(* The event streams of the technician console: the history of each run    *)
(* (server/run-registry.ts, RunSession) and the browsers that follow it    *)
(* over server-sent events (server/index.ts, streamEvents), with           *)
(* connections that drop, are ended by the server, and come back with the  *)
(* last id they saw.  Event n of a run has id n; ids start at 1.           *)
(***************************************************************************)
EXTENDS ConsoleRuns, Sequences, SequencesExt

CONSTANTS
    Browsers,
    MaxDrops      \* bound: connections lost

ASSUME StreamsAssumption == MaxDrops \in Nat

VARIABLES
    history,      \* the events of each run, by kind
    status,       \* of each run: "none", "running", "finished", "failed"
    stopped,      \* the runs the user has stopped
    registry,     \* the runs the server still knows
    page,         \* each browser: [run, at, seen, wire, next]
    drops

streamVars == <<history, status, stopped, registry, page, drops>>

\* `at` is where the connection is: "off", "connecting", "open" (subscribed),
\* "closing" (to be finished in the next turn), "ended", "closed" (for good).
Off == [run |-> 0, at |-> "off", seen |-> <<>>, wire |-> <<>>, next |-> 1]

StreamInit ==
    /\ history = [r \in Runs |-> <<>>] /\ status = [r \in Runs |-> "none"]
    /\ stopped = {} /\ registry = {}
    /\ page = [b \in Browsers |-> Off] /\ drops = 0

Over(r) == status[r] \in {"finished", "failed"}

-----------------------------------------------------------------------------
(***************************************************************************)
(* emit(): onto the history, and to every subscriber in the same turn; an  *)
(* ending event has the stream finished in the next one.                   *)
(***************************************************************************)
Ends(kind) == kind \in {"done", "error", "user-stop-requested"}

\* What a page that follows the run is sent.
Sent(p, events) ==
    [p EXCEPT !.wire = @ \o [i \in DOMAIN events |-> p.next + i - 1],
              !.next = @ + Len(events),
              !.at = IF \E i \in DOMAIN events : Ends(events[i]) THEN "closing" ELSE @]

Emits(r, events) ==
    /\ history' = [history EXCEPT ![r] = @ \o events]
    /\ page' = [b \in Browsers |->
                  IF page[b].run = r /\ page[b].at \in {"open", "closing"}
                  THEN Sent(page[b], events) ELSE page[b]]

\* requestUserStop(): the stop, and the end of what was being waited for.
UserStops(r) ==
    /\ status[r] = "running" /\ r \notin stopped
    /\ stopped' = stopped \cup {r}
    /\ Emits(r, <<"user-stop-requested", "question-cancelled">>)
    /\ UNCHANGED <<status, registry, drops>>

-----------------------------------------------------------------------------
(***************************************************************************)
(* RunRegistry.create(): oldest first, finished ones make room.  Runs are  *)
(* named in the order they are created.                                    *)
(***************************************************************************)
Evictable == {r \in registry : Over(r)}

Evicted(cap) ==
    LET over == Cardinality(registry) + 1 - cap
    IN  {r \in Evictable : Cardinality({q \in Evictable : q < r}) < over}

Create(r, cap) ==
    /\ status[r] = "none" /\ \A q \in Runs : q < r => status[q] # "none"
    /\ registry' = (registry \ Evicted(cap)) \cup {r}
    /\ status' = [status EXCEPT ![r] = "running"]
    /\ UNCHANGED <<history, stopped, page, drops>>

-----------------------------------------------------------------------------
(***************************************************************************)
(* The browser: following a run, from its first event.                     *)
(***************************************************************************)
Watch(b, r) ==
    /\ r \in registry /\ page[b].run # r
    /\ page' = [page EXCEPT ![b] = [Off EXCEPT !.run = r, !.at = "connecting"]]
    /\ UNCHANGED <<history, status, stopped, registry, drops>>

\* Mutant: a connection starts from the first event, whatever was seen.
ResumesFromStart(p) == 0
\* Last-Event-ID, of the events that have arrived.
LastEventId(p) == IF p.seen = <<>> THEN 0 ELSE Last(p.seen)

\* A subscriber that arrives after the end has had all there is.
OpensAs(r) == IF status[r] = "running" THEN "open" ELSE "closing"

\* Mutant: the last event counts as seen when the one before it was.
NothingLeftButOne(r, resumeAfter) ==
    status[r] # "running" /\ resumeAfter >= Len(history[r]) - 1
NothingLeft(r, resumeAfter) ==
    status[r] # "running" /\ resumeAfter >= Len(history[r])

(***************************************************************************)
(* streamEvents(): the replay from the last id, and the subscription, in   *)
(* one turn; 204 when there is nothing left, 404 when there is no run.     *)
(* EventSource comes back by itself after a loss, and when the server ends *)
(* the stream; only 204, 404 and its own close() stop it.                  *)
(***************************************************************************)
Connecting(p) == p.at = "connecting" \/ (p.at = "ended" /\ p.wire = <<>>)

StreamEvents(b) ==
    LET p == page[b]
        r == p.run
        resumeAfter == LastEventId(p)
        past == Len(history[r])
    IN  /\ Connecting(p)
        /\ page' = [page EXCEPT ![b] =
              IF r \notin registry \/ NothingLeft(r, resumeAfter)
              THEN [p EXCEPT !.at = "closed"]
              ELSE [p EXCEPT !.at = OpensAs(r), !.next = past + 1,
                             !.wire = [i \in 1..(past - resumeAfter) |-> resumeAfter + i]]]
        /\ UNCHANGED <<history, status, stopped, registry, drops>>

\* setImmediate(finish): the subscription ends; what was written still arrives.
Finish(b) ==
    /\ page[b].at = "closing"
    /\ page' = [page EXCEPT ![b].at = "ended"]
    /\ UNCHANGED <<history, status, stopped, registry, drops>>

\* The page closes its stream at the end of the run, and not at the stop.
Arrives(b) ==
    LET p == page[b]
    IN  /\ p.wire # <<>>
        /\ page' = [page EXCEPT ![b] =
              IF history[p.run][Head(p.wire)] \in {"done", "error"}
              THEN [p EXCEPT !.seen = Append(@, Head(p.wire)), !.wire = <<>>, !.at = "closed"]
              ELSE [p EXCEPT !.seen = Append(@, Head(p.wire)), !.wire = Tail(@)]]
        /\ UNCHANGED <<history, status, stopped, registry, drops>>

Drops(b) ==
    /\ drops < MaxDrops /\ page[b].at \in {"open", "closing", "ended"}
    /\ drops' = drops + 1
    /\ page' = [page EXCEPT ![b].at = "connecting", ![b].wire = <<>>]
    /\ UNCHANGED <<history, status, stopped, registry>>

-----------------------------------------------------------------------------
\* What a page has, and what is on its way to it, is where the server thinks it is.
StreamTypeOK ==
    /\ stopped \subseteq Runs /\ registry \subseteq Runs
    /\ \A b \in Browsers : page[b].at \in {"open", "closing"} =>
          page[b].next = Len(page[b].seen) + Len(page[b].wire) + 1

(***************************************************************************)
(* "Replaying from there rather than from the beginning is the difference  *)
(* between a brief blip and a console that draws the whole run a second    *)
(* time": a page has the events of its run from the first on, in order,    *)
(* each of them once.                                                      *)
(***************************************************************************)
DrawnOnce == \A b \in Browsers : \A i \in DOMAIN page[b].seen : page[b].seen[i] = i

\* However often the connection is lost or ended, whoever goes on watching a run
\* sees all of it, unless the server has forgotten the run.
WholeRunIsSeen ==
    \A b \in Browsers : \A r \in Runs :
       Over(r) /\ page[b].run = r ~>
          page[b].run # r \/ r \notin registry \/ Len(page[b].seen) = Len(history[r])
=============================================================================
