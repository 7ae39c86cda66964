------------------------------ MODULE ConsoleProofs ------------------------------
(***************************************************************************)
(* Theorems about the console over any number of runs, browsers, lost      *)
(* connections, torn lines and removed lessons.                            *)
(*                                                                         *)
(* The lessons and the streams meet only in the life of a run, so the      *)
(* invariant has a part for each and one, Turns, that joins them: a run    *)
(* has an outcome once it is over and not before, which is why it is       *)
(* credited at most once.                                                  *)
(***************************************************************************)
EXTENDS Console, FiniteSetTheorems, SequenceTheorems, TLAPS

\* A run has a store between its start and its end, and one outcome.
Turns ==
    /\ status \in [Runs -> {"none", "running", "finished", "failed"}]
    /\ outcome \in [Runs -> {"none", "resolved", "escalated", "failed"}]
    /\ opened \subseteq Runs
    /\ \A r \in Runs : (outcome[r] = "none") <=> status[r] \in {"none", "running"}

-----------------------------------------------------------------------------
\* The lessons: entries are counts by lesson, all of them learned once.
Entries == UNION {[S -> Nat] : S \in SUBSET Lesson}

\* The runs that were given a lesson and resolved their ticket.
Helped(l) == {r \in Runs : outcome[r] = "resolved" /\ l \in recalled[r]}

\* The credit each lesson has earned, and entries that claim no more of it.
Due == [l \in Lesson |-> Cardinality(Helped(l))]
Backed(entries, due) == \A l \in DOMAIN entries : entries[l] <= due[l]

Shelves ==
    /\ file \in Entries
    /\ torn \in BOOLEAN
    /\ copy \in [Runs -> Entries]
    /\ recalled \in [Runs -> SUBSET Lesson]
    /\ \A r \in Runs : outcome[r] = "none" => recalled[r] \subseteq DOMAIN copy[r]
    /\ \A r \in Runs \ opened : recalled[r] = {}

\* A lesson comes from a run that is over, or from the seeds.
Sources ==
    /\ removed \subseteq learned
    /\ DOMAIN file \subseteq learned
    /\ \A r \in Runs : DOMAIN copy[r] \subseteq learned
    /\ \A r \in Runs : r \in learned => outcome[r] # "none"

\* Copies carry credit too: one of them may be the next file.
Credit == Backed(file, Due) /\ \A r \in Runs : Backed(copy[r], Due)

Learning == Shelves /\ Sources /\ LessonsAreKept /\ Credit

-----------------------------------------------------------------------------
\* The streams.
Places == {"off", "connecting", "open", "closing", "ended", "closed"}

Page == [run: Runs \cup {0}, at: Places, seen: Seq(Nat), wire: Seq(Nat), next: Nat]

Kinds == {"started", "knowledge", "user-stop-requested", "question-cancelled", "done", "error"}

\* A page of a run with n events: it has the events from the first on, what is on
\* its way follows them, and the server goes on after that.
Follows(p, n) ==
    /\ \A i \in 1..Len(p.seen) : p.seen[i] = i
    /\ \A i \in 1..Len(p.wire) : p.wire[i] = Len(p.seen) + i
    /\ Len(p.seen) + Len(p.wire) <= n
    /\ p.at \in {"open", "closing"} => p.next = n + 1 /\ Len(p.seen) + Len(p.wire) = n
    /\ p.at \in {"off", "connecting", "closed"} => p.wire = <<>>

Streaming ==
    /\ history \in [Runs -> Seq(Kinds)]
    /\ stopped \subseteq Runs /\ registry \subseteq Runs
    /\ page \in [Browsers -> Page]

\* Where a page stands, by the history of its run.
Stands(p) == p = Off \/ (p.run \in Runs /\ Follows(p, Len(history[p.run])))

Watching == \A b \in Browsers : Stands(page[b])

Following == Streaming /\ Watching

IInv == Turns /\ Learning /\ Following
\* What the page is sent is where the server goes on.
LEMMA SentFollows ==
    ASSUME NEW p \in Page, NEW n \in Nat, Follows(p, n), p.at \in {"open", "closing"},
           NEW events \in Seq(Kinds)
    PROVE  /\ Sent(p, events) \in Page
           /\ Sent(p, events).run = p.run
           /\ Follows(Sent(p, events), n + Len(events))
<1>1. PICK m \in Nat : m = Len(events) /\ DOMAIN events = 1..m
  OBVIOUS
<1>2. PICK w \in Seq(Nat) : w = p.wire
  BY DEF Page
<1>3. PICK k \in Nat : k = Len(p.seen)
  BY DEF Page
<1>4. PICK x \in Nat : x = p.next
  BY DEF Page
<1>5. x = n + 1 /\ k + Len(w) = n
  BY <1>2, <1>3, <1>4 DEF Follows
<1>6. PICK more : more = [i \in 1..m |-> x + i - 1]
  OBVIOUS
<1>7. more \in Seq(Nat) /\ Len(more) = m /\ \A i \in 1..m : more[i] = x + i - 1
  BY <1>6
<1>8. PICK wire : wire = w \o more
  OBVIOUS
<1>9. wire \in Seq(Nat) /\ Len(wire) = Len(w) + m
  BY <1>2, <1>7, <1>8, ConcatProperties
<1>10. \A i \in 1..Len(wire) : wire[i] = k + i
  <2> SUFFICES ASSUME NEW i \in 1..Len(wire) PROVE wire[i] = k + i
    OBVIOUS
  <2>1. CASE i <= Len(w)
    <3>1. wire[i] = w[i]
      BY <1>2, <1>7, <1>8, <2>1
    <3>2. w[i] = k + i
      BY <1>2, <1>3, <2>1 DEF Follows
    <3> QED BY <3>1, <3>2
  <2>2. CASE i > Len(w)
    <3>1. PICK j \in 1..m : i = Len(w) + j
      <4>1. PICK a \in Nat : a = Len(w)
        BY <1>2
      <4>2. i \in 1..(a + m) /\ i > a
        BY <1>9, <2>2, <4>1
      <4>3. i - a \in 1..m /\ i = a + (i - a)
        BY <4>2
      <4> QED BY <4>1, <4>3
    <3>2. wire[i] = more[j]
      BY <1>2, <1>7, <1>8, <3>1
    <3>3. more[j] = x + j - 1
      BY <1>7
    <3> QED BY <1>2, <1>5, <3>1, <3>2, <3>3
  <2> QED BY <1>2, <2>1, <2>2
<1>11. PICK q : q = Sent(p, events)
  OBVIOUS
<1>12. /\ q \in Page /\ q.run = p.run /\ q.seen = p.seen /\ q.wire = wire /\ q.next = x + m
       /\ q.at \in {"open", "closing"}
  <2>1. wire = p.wire \o [i \in DOMAIN events |-> p.next + i - 1]
    BY <1>1, <1>2, <1>4, <1>6, <1>8
  <2>2. PICK at \in {"open", "closing"} :
          q = [p EXCEPT !.wire = wire, !.next = p.next + Len(events), !.at = at]
    BY <1>11, <2>1 DEF Sent
  <2>3. PICK y \in Nat : y = p.next + Len(events) /\ y = x + m
    BY <1>1, <1>4
  <2>4. q = [p EXCEPT !.wire = wire, !.next = y, !.at = at]
    BY <2>2, <2>3
  <2>5. q \in Page
    BY <1>9, <2>4 DEF Page, Places
  <2>6. q.run = p.run /\ q.seen = p.seen /\ q.wire = wire /\ q.next = y /\ q.at = at
    BY <2>4 DEF Page
  <2> QED BY <2>3, <2>5, <2>6
<1>13. Follows(q, n + m)
  <2>1. Len(q.seen) + Len(q.wire) = n + m /\ q.next = n + m + 1
    <3>1. PICK a \in Nat : a = Len(w)
      BY <1>2
    <3>2. k + (a + m) = n + m /\ x + m = n + m + 1
      BY <1>5, <3>1
    <3> QED BY <1>3, <1>9, <1>12, <3>1, <3>2
  <2>2. \A i \in 1..Len(q.seen) : q.seen[i] = i
    BY <1>12 DEF Follows
  <2>3. \A i \in 1..Len(q.wire) : q.wire[i] = Len(q.seen) + i
    BY <1>3, <1>10, <1>12
  <2> QED BY <1>12, <2>1, <2>2, <2>3 DEF Follows
<1> QED BY <1>1, <1>11, <1>12, <1>13

\* The last id of a page is the number of events it has.
LEMMA LastIdCounts ==
    ASSUME NEW p \in Page, NEW n, Follows(p, n)
    PROVE  LastEventId(p) = Len(p.seen)
<1>1. PICK s \in Seq(Nat) : s = p.seen
  BY DEF Page
<1>2. \A i \in 1..Len(s) : s[i] = i
  BY <1>1 DEF Follows
<1>3. s # <<>> => s[Len(s)] = Len(s)
  <2> SUFFICES ASSUME s # <<>> PROVE s[Len(s)] = Len(s)
    OBVIOUS
  <2>1. Len(s) \in 1..Len(s)
    OBVIOUS
  <2> QED BY <1>2, <2>1
<1>4. s = <<>> => Len(s) = 0
  OBVIOUS
<1> QED BY <1>1, <1>3, <1>4 DEF LastEventId, Last

\* A page that comes back is sent what it has not seen.
LEMMA OpenFollows ==
    ASSUME NEW p \in Page, NEW n \in Nat, Follows(p, n), p.wire = <<>>, NEW q \in Page,
           q.seen = p.seen, q.next = n + 1, q.at \in {"open", "closing"},
           q.wire = [i \in 1..(n - LastEventId(p)) |-> LastEventId(p) + i]
    PROVE  Follows(q, n)
<1>1. PICK k \in Nat : k = Len(p.seen)
  BY DEF Page
<1>2. LastEventId(p) = k /\ k <= n
  <2>1. LastEventId(p) = k
    BY <1>1, LastIdCounts
  <2>2. Len(p.wire) = 0
    OBVIOUS
  <2>3. k + 0 <= n
    BY <1>1, <2>2 DEF Follows
  <2> QED BY <2>1, <2>3
<1>3. PICK m \in Nat : m = n - k
  BY <1>2
<1>4. PICK w : w = [i \in 1..m |-> k + i]
  OBVIOUS
<1>5. w \in Seq(Nat) /\ Len(w) = m /\ \A i \in 1..m : w[i] = k + i
  BY <1>4
<1>6. q.wire = w
  BY <1>2, <1>3, <1>4
<1>7. Len(q.seen) + Len(q.wire) = n
  BY <1>1, <1>2, <1>3, <1>5, <1>6
<1>8. \A i \in 1..Len(q.seen) : q.seen[i] = i
  BY DEF Follows
<1>9. \A i \in 1..Len(q.wire) : q.wire[i] = Len(q.seen) + i
  BY <1>1, <1>5, <1>6
<1>10. Len(q.seen) + Len(q.wire) <= n
  <2>1. k + m <= n
    BY <1>2, <1>3
  <2> QED BY <1>1, <1>5, <1>6, <2>1
<1>11. q.at \notin {"off", "connecting", "closed"}
  OBVIOUS
<1> QED BY <1>7, <1>8, <1>9, <1>10, <1>11 DEF Follows

\* An event that arrives is the next one; the page may then close its stream.
LEMMA ArrivalFollows ==
    ASSUME NEW p \in Page, NEW n \in Nat, Follows(p, n), p.wire # <<>>, NEW q \in Page,
           q.seen = Append(p.seen, Head(p.wire)), q.next = p.next,
           \/ q.wire = Tail(p.wire) /\ q.at = p.at
           \/ q.wire = <<>> /\ q.at = "closed"
    PROVE  Follows(q, n)
<1>1. PICK s \in Seq(Nat) : s = p.seen
  BY DEF Page
<1>2. PICK w \in Seq(Nat) : w = p.wire /\ w # <<>>
  BY DEF Page
<1>3. PICK k \in Nat : k = Len(s)
  BY <1>1
<1>4. PICK m \in Nat : m = Len(w)
  BY <1>2
<1>5. \A i \in 1..k : s[i] = i
  BY <1>1, <1>3 DEF Follows
<1>6. \A i \in 1..m : w[i] = k + i
  BY <1>1, <1>2, <1>3, <1>4 DEF Follows
<1>7. m > 0 /\ k + m <= n
  <2>1. k + m <= n
    BY <1>1, <1>2, <1>3, <1>4 DEF Follows
  <2>2. m # 0
    BY <1>2, <1>4, EmptySeq
  <2> QED BY <2>1, <2>2
<1>8. Head(w) = k + 1
  BY <1>2, <1>4, <1>6, <1>7
<1>9. PICK t \in Seq(Nat) : t = Append(s, k + 1)
  <2>1. PICK e \in Nat : e = k + 1
    BY <1>3
  <2>2. Append(s, e) \in Seq(Nat)
    BY <1>1, <2>1, AppendProperties
  <2> QED BY <2>1, <2>2
<1>10. Len(t) = k + 1 /\ \A i \in 1..(k + 1) : t[i] = i
  BY <1>1, <1>3, <1>5, <1>9
<1>11. q.seen = t
  BY <1>1, <1>2, <1>8, <1>9
<1>12. CASE q.wire = Tail(p.wire) /\ q.at = p.at
  <2>1. PICK r \in Seq(Nat) : r = Tail(w)
    BY <1>2, HeadTailProperties
  <2>2. Len(r) = m - 1 /\ \A i \in 1..(m - 1) : r[i] = w[i + 1]
    BY <1>2, <1>4, <1>7, <2>1
  <2>3. \A i \in 1..(m - 1) : r[i] = (k + 1) + i
    BY <1>3, <1>4, <1>6, <2>2
  <2>4. q.wire = r
    BY <1>2, <1>12, <2>1
  <2>5. Len(q.seen) + Len(q.wire) = k + m
    <3>1. Len(q.seen) = k + 1
      BY <1>10, <1>11
    <3>2. Len(q.wire) = m - 1
      BY <2>2, <2>4
    <3>3. (k + 1) + (m - 1) = k + m
      BY <1>3, <1>4
    <3> QED BY <3>1, <3>2, <3>3
  <2>6. p.at \in {"open", "closing"} => p.next = n + 1 /\ k + m = n
    BY <1>1, <1>2, <1>3, <1>4 DEF Follows
  <2>7. p.at \notin {"off", "connecting", "closed"}
    BY DEF Follows
  <2>8. \A i \in 1..Len(q.seen) : q.seen[i] = i
    BY <1>10, <1>11
  <2>9. \A i \in 1..Len(q.wire) : q.wire[i] = Len(q.seen) + i
    BY <1>10, <1>11, <2>2, <2>3, <2>4
  <2>10. Len(q.seen) + Len(q.wire) <= n
    BY <1>7, <2>5
  <2>11. q.at \in {"open", "closing"} => q.next = n + 1 /\ Len(q.seen) + Len(q.wire) = n
    BY <1>12, <2>5, <2>6
  <2> QED BY <1>12, <2>7, <2>8, <2>9, <2>10, <2>11 DEF Follows
<1>13. CASE q.wire = <<>> /\ q.at = "closed"
  <2>1. Len(q.wire) = 0
    BY <1>13
  <2>2. Len(q.seen) + Len(q.wire) <= n
    BY <1>3, <1>4, <1>7, <1>10, <1>11, <2>1
  <2>3. \A i \in 1..Len(q.seen) : q.seen[i] = i
    BY <1>10, <1>11
  <2>4. \A i \in 1..Len(q.wire) : q.wire[i] = Len(q.seen) + i
    BY <2>1
  <2> QED BY <1>13, <2>2, <2>3, <2>4 DEF Follows
<1> QED BY <1>12, <1>13

-----------------------------------------------------------------------------
\* A run that goes on without a page leaves it where it was.
LEMMA BehindFollows ==
    ASSUME NEW p \in Page, NEW n \in Nat, Follows(p, n), p.at \notin {"open", "closing"},
           NEW m \in Nat
    PROVE  Follows(p, n + m)
<1>1. PICK k \in Nat : k = Len(p.seen)
  BY DEF Page
<1>2. PICK l \in Nat : l = Len(p.wire)
  BY DEF Page
<1>3. k + l <= n
  BY <1>1, <1>2 DEF Follows
<1>4. k + l <= n + m
  BY <1>3
<1>5. Len(p.seen) + Len(p.wire) <= n + m
  BY <1>1, <1>2, <1>4
<1> QED BY <1>5 DEF Follows

LEMMA StandsThen ==
    ASSUME Streaming, Watching, NEW b \in Browsers, page[b].at # "off"
    PROVE  /\ page[b] \in Page
           /\ page[b].run \in Runs
           /\ Len(history[page[b].run]) \in Nat
           /\ Follows(page[b], Len(history[page[b].run]))
<1>1. page[b] \in Page
  BY DEF Streaming
<1>2. page[b] # Off
  BY DEF Off
<1>3. page[b].run \in Runs /\ Follows(page[b], Len(history[page[b].run]))
  BY <1>2 DEF Watching, Stands
<1>4. history[page[b].run] \in Seq(Kinds)
  BY <1>3 DEF Streaming
<1> QED BY <1>1, <1>3, <1>4

LEMMA OffIsAPage == Off \in Page
BY DEF Off, Page, Places

\* One page moves, and the runs stand still.
LEMMA PageMoves ==
    ASSUME Streaming, Watching, NEW b \in Browsers, NEW q \in Page, Stands(q),
           page' = [page EXCEPT ![b] = q], UNCHANGED <<history, stopped, registry>>
    PROVE  Streaming' /\ Watching'
<1>1. Streaming'
  BY DEF Streaming
<1>2. ASSUME NEW c \in Browsers
      PROVE  \/ page'[c] = Off
             \/ page'[c].run \in Runs /\ Follows(page'[c], Len(history[page'[c].run]))
  <2>1. CASE c = b
    <3>1. page'[c] = q
      BY <2>1 DEF Streaming
    <3> QED BY <3>1 DEF Stands
  <2>2. CASE c # b
    <3>1. page'[c] = page[c]
      BY <2>2 DEF Streaming
    <3> QED BY <3>1 DEF Watching, Stands
  <2> QED BY <2>1, <2>2
<1>3. Watching'
  BY <1>2 DEF Watching, Stands
<1> QED BY <1>1, <1>3

\* What happens is put on the history and on the wire in one turn.
LEMMA EmitsKeeps ==
    ASSUME Streaming, Watching, NEW r \in Runs, NEW events \in Seq(Kinds), Emits(r, events)
    PROVE  /\ history' \in [Runs -> Seq(Kinds)]
           /\ page' \in [Browsers -> Page]
           /\ Watching'
<1>1. history[r] \in Seq(Kinds)
  BY DEF Streaming
<1>2. PICK h \in Seq(Kinds) : h = history[r] \o events
  BY <1>1, ConcatProperties
<1>3. history' = [history EXCEPT ![r] = h]
  BY <1>2 DEF Emits
<1>4. history' \in [Runs -> Seq(Kinds)] /\ history'[r] = h
  BY <1>3 DEF Streaming
<1>5. PICK n \in Nat : n = Len(history[r])
  BY <1>1
<1>6. PICK m \in Nat : m = Len(events)
  OBVIOUS
<1>7. Len(h) = n + m
  BY <1>1, <1>2, <1>5, <1>6, ConcatProperties
<1>8. ASSUME NEW b \in Browsers
      PROVE  /\ page'[b] \in Page
             /\ \/ page'[b] = Off
                \/ page'[b].run \in Runs /\ Follows(page'[b], Len(history'[page'[b].run]))
  <2>0. page[b] \in Page
    BY DEF Streaming
  <2>1. CASE page[b] = Off
    <3>1. page'[b] = page[b]
      BY <2>1 DEF Emits, Off
    <3> QED BY <2>0, <2>1, <3>1
  <2>2. CASE page[b] # Off /\ page[b].run # r
    <3>1. page'[b] = page[b]
      BY <2>2 DEF Emits
    <3>2. page[b].run \in Runs /\ Follows(page[b], Len(history[page[b].run]))
      BY <2>2 DEF Watching, Stands
    <3>3. history'[page[b].run] = history[page[b].run]
      BY <1>3, <2>2, <3>2 DEF Streaming
    <3> QED BY <2>0, <3>1, <3>2, <3>3
  <2>3. CASE page[b] # Off /\ page[b].run = r
    <3>1. Follows(page[b], n)
      BY <1>5, <2>3 DEF Watching, Stands
    <3>2. CASE page[b].at \in {"open", "closing"}
      <4>1. page'[b] = Sent(page[b], events)
        BY <2>3, <3>2 DEF Emits
      <4>2. /\ Sent(page[b], events) \in Page
            /\ Sent(page[b], events).run = page[b].run
            /\ Follows(Sent(page[b], events), n + Len(events))
        BY <2>0, <3>1, <3>2, SentFollows
      <4> QED BY <1>4, <1>6, <1>7, <2>3, <4>1, <4>2
    <3>3. CASE page[b].at \notin {"open", "closing"}
      <4>1. page'[b] = page[b]
        BY <3>3 DEF Emits
      <4>2. Follows(page[b], n + m)
        BY <2>0, <3>1, <3>3, BehindFollows
      <4> QED BY <1>4, <1>7, <2>0, <2>3, <4>1, <4>2
    <3> QED BY <3>2, <3>3
  <2> QED BY <2>1, <2>2, <2>3
<1>9. page' \in [Browsers -> Page]
  <2>1. page' = [b \in Browsers |-> page'[b]]
    BY DEF Emits
  <2> QED BY <1>8, <2>1
<1>10. Watching'
  BY <1>8 DEF Watching, Stands
<1> QED BY <1>4, <1>9, <1>10

-----------------------------------------------------------------------------
\* streamEvents: closed for good, or sent what the page has not seen.
LEMMA StreamEventsKeeps ==
    ASSUME Streaming, Watching, NEW b \in Browsers, StreamEvents(b)
    PROVE  Streaming' /\ Watching'
<1>1. PICK p \in Page : p = page[b]
  BY DEF Streaming
<1>2. Connecting(p)
  BY <1>1 DEF StreamEvents
<1>3. PICK n \in Nat : p.run \in Runs /\ n = Len(history[p.run]) /\ Follows(p, n)
  BY <1>1, <1>2, StandsThen DEF Connecting
<1>4. p.wire = <<>>
  BY <1>2, <1>3 DEF Connecting, Follows
<1>5. CASE page' = [page EXCEPT ![b] = [p EXCEPT !.at = "closed"]]
  <2>1. PICK q \in Page : q = [p EXCEPT !.at = "closed"]
    BY DEF Page, Places
  <2>2. q.run = p.run /\ q.seen = p.seen /\ q.wire = p.wire /\ q.at = "closed"
    BY <2>1 DEF Page
  <2>3. Follows(q, n)
    BY <1>3, <1>4, <2>2 DEF Follows
  <2>4. Stands(q)
    BY <1>3, <2>2, <2>3 DEF Stands
  <2> QED BY <1>5, <2>1, <2>4, PageMoves DEF StreamEvents
<1>6. CASE page' = [page EXCEPT ![b] =
                      [p EXCEPT !.at = OpensAs(p.run), !.next = n + 1,
                                !.wire = [i \in 1..(n - LastEventId(p)) |-> LastEventId(p) + i]]]
  <2>1. PICK w : w = [i \in 1..(n - LastEventId(p)) |-> LastEventId(p) + i]
    OBVIOUS
  <2>2. w \in Seq(Nat)
    <3>1. PICK k \in Nat : k = LastEventId(p) /\ k <= n
      <4>1. PICK k \in Nat : k = Len(p.seen)
        BY DEF Page
      <4>2. k + 0 <= n
        BY <1>3, <1>4, <4>1 DEF Follows
      <4> QED BY <1>3, <4>1, <4>2, LastIdCounts
    <3>2. PICK m \in Nat : m = n - k
      BY <3>1
    <3>3. w = [i \in 1..m |-> k + i]
      BY <2>1, <3>1, <3>2
    <3> QED BY <3>3
  <2>3. PICK at \in {"open", "closing"} : at = OpensAs(p.run)
    BY DEF OpensAs
  <2>4. PICK x \in Nat : x = n + 1
    OBVIOUS
  <2>5. PICK q : q = [p EXCEPT !.at = at, !.next = x, !.wire = w]
    OBVIOUS
  <2>6. q \in Page
    BY <2>2, <2>5 DEF Page, Places
  <2>7. q.run = p.run /\ q.seen = p.seen /\ q.wire = w /\ q.next = n + 1 /\ q.at = at
    BY <2>4, <2>5 DEF Page
  <2>8. Follows(q, n)
    BY <1>3, <1>4, <2>1, <2>3, <2>6, <2>7, OpenFollows
  <2>9. Stands(q)
    BY <1>3, <2>7, <2>8 DEF Stands
  <2>10. page' = [page EXCEPT ![b] = q]
    BY <1>6, <2>1, <2>3, <2>4, <2>5
  <2> QED BY <2>6, <2>9, <2>10, PageMoves DEF StreamEvents
<1> QED BY <1>1, <1>3, <1>5, <1>6 DEF StreamEvents

\* What was written before the end of a subscription is still on the wire.
LEMMA FinishKeeps ==
    ASSUME Streaming, Watching, NEW b \in Browsers, Finish(b)
    PROVE  Streaming' /\ Watching'
<1>1. PICK p \in Page : p = page[b]
  BY DEF Streaming
<1>2. p.at = "closing"
  BY <1>1 DEF Finish
<1>3. PICK n \in Nat : p.run \in Runs /\ n = Len(history[p.run]) /\ Follows(p, n)
  BY <1>1, <1>2, StandsThen
<1>4. PICK q \in Page : q = [p EXCEPT !.at = "ended"]
  BY DEF Page, Places
<1>5. q.run = p.run /\ q.seen = p.seen /\ q.wire = p.wire /\ q.at = "ended"
  BY <1>4 DEF Page
<1>6. Follows(q, n)
  BY <1>3, <1>5 DEF Follows
<1>7. Stands(q)
  BY <1>3, <1>5, <1>6 DEF Stands
<1>8. page' = [page EXCEPT ![b] = q]
  BY <1>1, <1>4 DEF Finish
<1> QED BY <1>7, <1>8, PageMoves DEF Finish

\* An event arrives.
LEMMA ArrivesKeeps ==
    ASSUME Streaming, Watching, NEW b \in Browsers, Arrives(b)
    PROVE  Streaming' /\ Watching'
<1>1. PICK p \in Page : p = page[b]
  BY DEF Streaming
<1>2. p.wire # <<>> /\ p.wire \in Seq(Nat) /\ p.seen \in Seq(Nat)
  BY <1>1 DEF Arrives, Page
<1>3. p.at # "off"
  <2>1. p # Off
    BY <1>2 DEF Off
  <2>2. Follows(p, Len(history[p.run]))
    BY <1>1, <2>1 DEF Watching, Stands
  <2> QED BY <1>2, <2>2 DEF Follows
<1>4. PICK n \in Nat : p.run \in Runs /\ n = Len(history[p.run]) /\ Follows(p, n)
  BY <1>1, <1>3, StandsThen
<1>5. PICK s \in Seq(Nat) : s = Append(p.seen, Head(p.wire))
  <2>1. Head(p.wire) \in Nat
    BY <1>2, HeadTailProperties
  <2> QED BY <1>2, <2>1, AppendProperties
<1>6. PICK t \in Seq(Nat) : t = Tail(p.wire)
  BY <1>2, HeadTailProperties
<1>7. CASE page' = [page EXCEPT ![b] = [p EXCEPT !.seen = s, !.wire = <<>>, !.at = "closed"]]
  <2>1. PICK q : q = [p EXCEPT !.seen = s, !.wire = <<>>, !.at = "closed"]
    OBVIOUS
  <2>2. q \in Page
    BY <2>1, EmptySeq DEF Page, Places
  <2>3. q.run = p.run /\ q.seen = s /\ q.wire = <<>> /\ q.next = p.next /\ q.at = "closed"
    BY <2>1 DEF Page
  <2>4. Follows(q, n)
    BY <1>2, <1>4, <1>5, <2>2, <2>3, ArrivalFollows
  <2>5. Stands(q)
    BY <1>4, <2>3, <2>4 DEF Stands
  <2> QED BY <1>7, <2>1, <2>2, <2>5, PageMoves DEF Arrives
<1>8. CASE page' = [page EXCEPT ![b] = [p EXCEPT !.seen = s, !.wire = t]]
  <2>1. PICK q : q = [p EXCEPT !.seen = s, !.wire = t]
    OBVIOUS
  <2>2. q \in Page
    BY <2>1 DEF Page
  <2>3. q.run = p.run /\ q.seen = s /\ q.wire = t /\ q.next = p.next /\ q.at = p.at
    BY <2>1 DEF Page
  <2>4. Follows(q, n)
    BY <1>2, <1>4, <1>5, <1>6, <2>2, <2>3, ArrivalFollows
  <2>5. Stands(q)
    BY <1>4, <2>3, <2>4 DEF Stands
  <2> QED BY <1>8, <2>1, <2>2, <2>5, PageMoves DEF Arrives
<1> QED BY <1>1, <1>5, <1>6, <1>7, <1>8 DEF Arrives

\* A lost connection takes what was on the wire with it.
LEMMA DropsKeeps ==
    ASSUME Streaming, Watching, NEW b \in Browsers, Drops(b)
    PROVE  Streaming' /\ Watching'
<1>1. PICK p \in Page : p = page[b]
  BY DEF Streaming
<1>2. p.at \in {"open", "closing", "ended"}
  BY <1>1 DEF Drops
<1>3. PICK n \in Nat : p.run \in Runs /\ n = Len(history[p.run]) /\ Follows(p, n)
  BY <1>1, <1>2, StandsThen
<1>4. PICK q : q = [p EXCEPT !.at = "connecting", !.wire = <<>>]
  OBVIOUS
<1>5. q \in Page
  BY <1>4, EmptySeq DEF Page, Places
<1>6. q.run = p.run /\ q.seen = p.seen /\ q.wire = <<>> /\ q.at = "connecting"
  BY <1>4 DEF Page
<1>7. Follows(q, n)
  <2>1. PICK k \in Nat : k = Len(p.seen)
    BY DEF Page
  <2>2. PICK l \in Nat : l = Len(p.wire)
    BY DEF Page
  <2>3. k + l <= n
    BY <1>3, <2>1, <2>2 DEF Follows
  <2>4. k + 0 <= n
    BY <2>3
  <2>5. Len(q.wire) = 0
    BY <1>6
  <2>6. Len(q.seen) + Len(q.wire) <= n
    BY <1>6, <2>1, <2>4, <2>5
  <2>7. \A i \in 1..Len(q.wire) : q.wire[i] = Len(q.seen) + i
    BY <2>5
  <2> QED BY <1>3, <1>6, <2>6, <2>7 DEF Follows
<1>8. Stands(q)
  BY <1>3, <1>6, <1>7 DEF Stands
<1>9. page' = [page EXCEPT ![b] = q]
  BY <1>1, <1>4 DEF Drops, Streaming
<1> QED BY <1>5, <1>8, <1>9, PageMoves DEF Drops

\* A page that turns to another run starts from nothing.
LEMMA WatchKeeps ==
    ASSUME Streaming, Watching, NEW b \in Browsers, NEW r \in Runs, Watch(b, r)
    PROVE  Streaming' /\ Watching'
<1>1. PICK n \in Nat : n = Len(history[r])
  BY DEF Streaming
<1>2. PICK q : q = [Off EXCEPT !.run = r, !.at = "connecting"]
  OBVIOUS
<1>3. q \in Page
  BY <1>2, OffIsAPage DEF Page, Places
<1>4. q.run = r /\ q.seen = <<>> /\ q.wire = <<>> /\ q.at = "connecting"
  BY <1>2 DEF Off
<1>5. Follows(q, n)
  <2>1. Len(q.seen) = 0 /\ Len(q.wire) = 0
    BY <1>4
  <2>2. Len(q.seen) + Len(q.wire) <= n
    BY <2>1
  <2> QED BY <1>4, <2>1, <2>2 DEF Follows
<1>6. Stands(q)
  BY <1>1, <1>4, <1>5 DEF Stands
<1> QED BY <1>2, <1>3, <1>6, PageMoves DEF Watch

-----------------------------------------------------------------------------
\* Entries are counts of lessons.
LEMMA EntriesAre ==
    ASSUME NEW e
    PROVE  e \in Entries <=> DOMAIN e \subseteq Lesson /\ e \in [DOMAIN e -> Nat]
BY DEF Entries

\* A lesson that is put on file starts without credit.
LEMMA WithKeeps ==
    ASSUME NEW e \in Entries, NEW l \in Lesson
    PROVE  /\ With(e, l) \in Entries
           /\ DOMAIN With(e, l) = DOMAIN e \cup {l}
           /\ \A due \in [Lesson -> Nat] : Backed(e, due) => Backed(With(e, l), due)
<1>1. DOMAIN e \subseteq Lesson /\ e \in [DOMAIN e -> Nat]
  BY EntriesAre
<1>2. PICK f : f = With(e, l)
  OBVIOUS
<1>3. DOMAIN f = DOMAIN e \cup {l}
  BY <1>2 DEF With
<1>4. f \in [DOMAIN f -> Nat]
  BY <1>1, <1>2 DEF With
<1>5. f \in Entries
  BY <1>1, <1>3, <1>4, EntriesAre
<1>6. ASSUME NEW due \in [Lesson -> Nat], Backed(e, due), NEW k \in DOMAIN f
      PROVE  f[k] <= due[k]
  <2>1. CASE k = l
    <3>1. f[k] = 0
      BY <1>2, <2>1 DEF With
    <3> QED BY <2>1, <3>1
  <2>2. CASE k # l
    <3>1. k \in DOMAIN e /\ f[k] = e[k]
      BY <1>2, <1>3, <1>6, <2>2 DEF With
    <3> QED BY <1>6, <3>1 DEF Backed
  <2> QED BY <2>1, <2>2
<1> QED BY <1>2, <1>3, <1>5, <1>6 DEF Backed

\* More that is due backs what was backed.
LEMMA BackedByMore ==
    ASSUME NEW e \in Entries, NEW due \in [Lesson -> Nat], NEW more \in [Lesson -> Nat],
           Backed(e, due), \A l \in Lesson : due[l] <= more[l]
    PROVE  Backed(e, more)
<1>1. DOMAIN e \subseteq Lesson /\ e \in [DOMAIN e -> Nat]
  BY EntriesAre
<1>2. ASSUME NEW l \in DOMAIN e PROVE e[l] <= more[l]
  <2>1. l \in Lesson /\ e[l] \in Nat /\ due[l] \in Nat /\ more[l] \in Nat
    BY <1>1
  <2>2. e[l] <= due[l] /\ due[l] <= more[l]
    BY <2>1 DEF Backed
  <2> QED BY <2>1, <2>2
<1> QED BY <1>2 DEF Backed

\* No lessons at all.
LEMMA NothingIsBacked ==
    /\ Nothing \in Entries /\ DOMAIN Nothing = {}
    /\ \A due \in [Lesson -> Nat] : Backed(Nothing, due)
<1>1. DOMAIN Nothing = {}
  BY DEF Nothing
<1>2. Nothing \in [DOMAIN Nothing -> Nat]
  BY DEF Nothing
<1>3. Nothing \in Entries
  BY <1>1, <1>2, EntriesAre
<1> QED BY <1>1, <1>3 DEF Backed

-----------------------------------------------------------------------------
\* Who helped is among the runs, of which there are finitely many.
LEMMA HelpedIsFinite ==
    \A l : IsFiniteSet(Helped(l)) /\ Cardinality(Helped(l)) \in Nat
<1>1. IsFiniteSet(Runs)
  BY RunsAssumption, FS_Interval DEF Runs
<1>2. ASSUME NEW l PROVE IsFiniteSet(Helped(l)) /\ Cardinality(Helped(l)) \in Nat
  <2>1. Helped(l) \subseteq Runs
    BY DEF Helped
  <2>2. IsFiniteSet(Helped(l))
    BY <1>1, <2>1, FS_Subset
  <2> QED BY <2>2, FS_CardinalityType
<1> QED BY <1>2

LEMMA DueIsCounted == Due \in [Lesson -> Nat]
BY HelpedIsFinite DEF Due

\* A run that ends adds one to what is due to each lesson it credits.
LEMMA DueGrows ==
    ASSUME Turns, Shelves, NEW r \in Runs, outcome[r] = "none", NEW how, Closes(r, how)
    PROVE  /\ Due' \in [Lesson -> Nat]
           /\ \A l \in Lesson : Due[l] <= Due'[l]
           /\ \A l \in Credits(r, how) : l \in Lesson /\ Due'[l] = Due[l] + 1
<1>1. /\ outcome' = [outcome EXCEPT ![r] = how]
      /\ recalled' = [recalled EXCEPT ![r] = IF how = "resolved" THEN recalled[r] ELSE {}]
      /\ outcome \in [Runs -> {"none", "resolved", "escalated", "failed"}]
      /\ recalled \in [Runs -> SUBSET Lesson]
  BY DEF Closes, Turns, Shelves
<1>2. ASSUME NEW l
      PROVE  /\ IsFiniteSet(Helped(l)) /\ Cardinality(Helped(l)) \in Nat /\ r \notin Helped(l)
             /\ Helped(l)' = IF l \in Credits(r, how) THEN Helped(l) \cup {r} ELSE Helped(l)
  <2>1. r \notin Helped(l)
    BY DEF Helped
  <2>2. ASSUME NEW q \in Runs, q # r
        PROVE  (outcome'[q] = "resolved" /\ l \in recalled'[q]) <=> q \in Helped(l)
    BY <1>1, <2>2 DEF Helped
  <2>3. (outcome'[r] = "resolved" /\ l \in recalled'[r]) <=> l \in Credits(r, how)
    BY <1>1 DEF Credits
  <2>4. Helped(l)' = {q \in Runs : outcome'[q] = "resolved" /\ l \in recalled'[q]}
    BY DEF Helped, Runs
  <2>5. Helped(l) \subseteq Runs
    BY DEF Helped
  <2> QED BY <2>1, <2>2, <2>3, <2>4, <2>5, HelpedIsFinite
<1>3. ASSUME NEW l
      PROVE  /\ Cardinality(Helped(l)') \in Nat
             /\ Cardinality(Helped(l)) <= Cardinality(Helped(l)')
             /\ l \in Credits(r, how) => Cardinality(Helped(l)') = Cardinality(Helped(l)) + 1
  <2>1. PICK H : H = Helped(l)
    OBVIOUS
  <2>2. IsFiniteSet(H) /\ Cardinality(H) \in Nat /\ r \notin H
    BY <1>2, <2>1
  <2>3. Cardinality(H \cup {r}) = Cardinality(H) + 1
    BY <2>2, FS_AddElement
  <2>4. PICK n \in Nat : n = Cardinality(H)
    BY <2>2
  <2>5. n <= n /\ n <= n + 1 /\ n + 1 \in Nat
    OBVIOUS
  <2> QED BY <1>2, <2>1, <2>3, <2>4, <2>5
<1>4. Due' = [l \in Lesson |-> Cardinality(Helped(l)')]
  BY DEF Due, Lesson, Runs, SEED
<1>5. Credits(r, how) \subseteq Lesson
  BY <1>1 DEF Credits
<1> QED BY <1>3, <1>4, <1>5 DEF Due

-----------------------------------------------------------------------------
\* The lessons do not move, whoever else does.
LEMMA LearningStands ==
    ASSUME Learning, UNCHANGED storeVars, UNCHANGED opened
    PROVE  Learning'
BY DEF Learning, storeVars, Shelves, Sources, LessonsAreKept, Credit, Backed, Due, Helped,
       Runs, Lesson, SEED, Entries

\* A run opens its store: an empty one is seeded.
LEMMA OpenStoreKeeps ==
    ASSUME Turns, Learning, NEW r \in Runs, r \notin opened, opened' = opened \cup {r},
           OpenStore(r)
    PROVE  Learning'
<1>1. file \in Entries /\ copy \in [Runs -> Entries] /\ recalled[r] = {}
  BY DEF Learning, Shelves
<1>2. PICK e \in Entries : e = With(file, SEED) /\ DOMAIN e = DOMAIN file \cup {SEED}
                           /\ (Backed(file, Due) => Backed(e, Due))
  BY <1>1, WithKeeps, DueIsCounted DEF Lesson
<1>3. Due' = Due
  BY DEF OpenStore, Due, Helped, Lesson, Runs, SEED
<1>4. PICK c \in Entries :
        /\ copy' = [copy EXCEPT ![r] = c] /\ Backed(c, Due)
        /\ IF NeedsSeeds(file)
           THEN c = e /\ learned' = learned \cup {SEED} /\ Append1(SEED)
           ELSE c = file /\ UNCHANGED <<file, torn, learned, excused>>
  BY <1>1, <1>2 DEF OpenStore, Learning, Credit
<1>5. /\ file' \in {file, e}
      /\ torn' \in BOOLEAN
      /\ DOMAIN file \subseteq DOMAIN file'
      /\ DOMAIN file' \cup DOMAIN c \subseteq learned'
      /\ (learned' \ learned) \subseteq DOMAIN file' \cup excused'
      /\ learned \subseteq learned' /\ learned' \subseteq learned \cup {SEED}
      /\ excused \subseteq excused'
  BY <1>2, <1>4 DEF Append1, NeedsSeeds, Learning, Shelves, Sources
<1>6. UNCHANGED <<recalled, outcome, removed>>
  BY DEF OpenStore
<1>7. Shelves'
  <2>1. copy' \in [Runs -> Entries]
    BY <1>1, <1>4
  <2>2. \A q \in Runs : outcome'[q] = "none" => recalled'[q] \subseteq DOMAIN copy'[q]
    BY <1>1, <1>4, <1>6 DEF Learning, Shelves
  <2>3. file' \in Entries
    BY <1>1, <1>2, <1>5
  <2>4. recalled' \in [Runs -> SUBSET Lesson]' /\ \A q \in Runs \ opened' : recalled'[q] = {}
    BY <1>6 DEF Learning, Shelves, Lesson, Runs, SEED
  <2> QED BY <1>5, <2>1, <2>2, <2>3, <2>4 DEF Shelves, Entries, Lesson, Runs, SEED
<1>8. Sources'
  <2>1. SEED \notin Runs
    BY RunsAssumption DEF SEED, Runs
  <2>2. \A q \in Runs : q \in learned' => outcome'[q] # "none"
    BY <1>5, <1>6, <2>1 DEF Learning, Sources
  <2>3. \A q \in Runs : DOMAIN copy'[q] \subseteq learned'
    BY <1>1, <1>4, <1>5 DEF Learning, Sources
  <2> QED BY <1>5, <1>6, <2>2, <2>3 DEF Learning, Sources, Runs
<1>9. LessonsAreKept'
  BY <1>5, <1>6 DEF Learning, LessonsAreKept
<1>10. Credit'
  <2>1. Backed(file', Due)
    BY <1>2, <1>5 DEF Learning, Credit
  <2>2. \A q \in Runs : Backed(copy'[q], Due)
    BY <1>1, <1>4 DEF Learning, Credit
  <2> QED BY <1>3, <2>1, <2>2 DEF Credit, Backed, Runs
<1> QED BY <1>7, <1>8, <1>9, <1>10 DEF Learning

\* What a run is given is in its copy, and due to nobody before the run resolves.
LEMMA RecallKeeps ==
    ASSUME Turns, Learning, NEW r \in Runs, r \in opened, outcome[r] = "none", Recall(r),
           UNCHANGED opened
    PROVE  Learning'
<1>1. PICK hits \in SUBSET DOMAIN copy[r] : recalled' = [recalled EXCEPT ![r] = hits]
  BY DEF Recall
<1>2. UNCHANGED <<file, torn, copy, outcome, learned, removed, excused>>
  BY DEF Recall
<1>3. copy[r] \in Entries /\ recalled \in [Runs -> SUBSET Lesson]
  BY DEF Learning, Shelves
<1>4. hits \subseteq Lesson
  BY <1>1, <1>3, EntriesAre
<1>5. Due' = Due
  <2>1. ASSUME NEW l PROVE Helped(l)' = Helped(l)
    <3>1. \A q \in Runs : (outcome'[q] = "resolved" /\ l \in recalled'[q])
                          <=> (outcome[q] = "resolved" /\ l \in recalled[q])
      BY <1>1, <1>2, <1>3
    <3> QED BY <3>1 DEF Helped, Runs
  <2> QED BY <2>1 DEF Due, Lesson, Runs, SEED
<1>6. recalled' \in [Runs -> SUBSET Lesson]
  BY <1>1, <1>3, <1>4
<1>7. \A q \in Runs : outcome'[q] = "none" => recalled'[q] \subseteq DOMAIN copy'[q]
  BY <1>1, <1>2, <1>3 DEF Learning, Shelves
<1>8. \A q \in Runs \ opened' : recalled'[q] = {}
  BY <1>1, <1>3 DEF Learning, Shelves
<1>9. Shelves'
  BY <1>2, <1>6, <1>7, <1>8 DEF Learning, Shelves, Entries, Lesson, Runs, SEED
<1>10. Sources' /\ LessonsAreKept'
  BY <1>2 DEF Learning, Sources, LessonsAreKept, Runs
<1>11. Credit'
  BY <1>2, <1>5 DEF Learning, Credit, Backed, Runs
<1> QED BY <1>9, <1>10, <1>11 DEF Learning

\* A technician removes a lesson, which was there to be removed.
LEMMA RemoveKeeps ==
    ASSUME Learning, NEW l \in Lesson, RemoveLesson(l), UNCHANGED opened
    PROVE  Learning'
<1>1. file \in Entries /\ l \in DOMAIN file
  BY DEF Learning, Shelves, RemoveLesson
<1>2. DOMAIN file \subseteq Lesson /\ file \in [DOMAIN file -> Nat]
  BY <1>1, EntriesAre
<1>3. file' = [k \in DOMAIN file \ {l} |-> file[k]]
  BY <1>1 DEF RemoveLesson, Restrict
<1>4. file' \in Entries
  <2>1. file' \in [DOMAIN file' -> Nat] /\ DOMAIN file' \subseteq Lesson
    BY <1>2, <1>3
  <2> QED BY <2>1, EntriesAre
<1>5. Due' = Due
  BY DEF RemoveLesson, Due, Helped, Lesson, Runs, SEED
<1>6. /\ torn' = FALSE /\ removed' = removed \cup {l}
      /\ UNCHANGED <<copy, recalled, outcome, learned, excused>>
  BY DEF RemoveLesson
<1>7. Shelves'
  BY <1>4, <1>6 DEF Learning, Shelves, Entries, Lesson, Runs, SEED
<1>8. Sources'
  BY <1>1, <1>3, <1>6 DEF Learning, Sources, Runs
<1>9. LessonsAreKept'
  BY <1>3, <1>6 DEF Learning, LessonsAreKept
<1>10. Credit'
  <2>1. Backed(file', Due)
    BY <1>3 DEF Learning, Credit, Backed
  <2> QED BY <1>5, <1>6, <2>1 DEF Learning, Credit, Backed, Runs
<1> QED BY <1>7, <1>8, <1>9, <1>10 DEF Learning

-----------------------------------------------------------------------------
\* A run is gone: its copy with it, and its credit is due if it resolved.
LEMMA ClosesKeeps ==
    ASSUME Turns, Learning, NEW r \in Runs, outcome[r] = "none", UNCHANGED opened,
           NEW how \in {"resolved", "escalated", "failed"}, Closes(r, how)
    PROVE  /\ copy' \in [Runs -> Entries] /\ recalled' \in [Runs -> SUBSET Lesson]
           /\ \A q \in Runs : outcome'[q] = "none" => recalled'[q] \subseteq DOMAIN copy'[q]
           /\ \A q \in Runs \ opened' : recalled'[q] = {}
           /\ \A q \in Runs : outcome'[q] # "none" <=> q = r \/ outcome[q] # "none"
           /\ \A q \in Runs : DOMAIN copy'[q] \subseteq learned
           /\ \A q \in Runs : Backed(copy'[q], Due')
           /\ Backed(file, Due')
<1>1. /\ copy' = [copy EXCEPT ![r] = Nothing]
      /\ recalled' = [recalled EXCEPT ![r] = IF how = "resolved" THEN recalled[r] ELSE {}]
      /\ outcome' = [outcome EXCEPT ![r] = how]
  BY DEF Closes
<1>2. /\ file \in Entries /\ copy \in [Runs -> Entries] /\ recalled \in [Runs -> SUBSET Lesson]
      /\ outcome \in [Runs -> {"none", "resolved", "escalated", "failed"}]
  BY DEF Turns, Learning, Shelves
<1>3. Nothing \in Entries /\ DOMAIN Nothing = {} /\ Backed(Nothing, Due')
  BY NothingIsBacked, DueGrows DEF Learning
<1>4. copy' \in [Runs -> Entries]
  BY <1>1, <1>2, <1>3
<1>5. recalled' \in [Runs -> SUBSET Lesson]
  BY <1>1, <1>2
<1>6. \A q \in Runs : outcome'[q] # "none" <=> q = r \/ outcome[q] # "none"
  BY <1>1, <1>2
<1>7. \A q \in Runs : outcome'[q] = "none" => recalled'[q] \subseteq DOMAIN copy'[q]
  BY <1>1, <1>2 DEF Learning, Shelves
<1>8. \A q \in Runs \ opened' : recalled'[q] = {}
  BY <1>1, <1>2 DEF Learning, Shelves
<1>9. \A q \in Runs : DOMAIN copy'[q] \subseteq learned
  BY <1>1, <1>2, <1>3 DEF Learning, Sources
<1>10. \A e \in Entries : Backed(e, Due) => Backed(e, Due')
  BY BackedByMore, DueGrows, DueIsCounted DEF Learning
<1>11. \A q \in Runs : Backed(copy'[q], Due')
  BY <1>1, <1>2, <1>3, <1>10 DEF Learning, Credit
<1>12. Backed(file, Due')
  BY <1>2, <1>10 DEF Learning, Credit
<1> QED BY <1>4, <1>5, <1>6, <1>7, <1>8, <1>9, <1>11, <1>12

\* The file after the credit: either as it was, or the run's own copy, and then
\* what the copy did not have is lost.
LEMMA CreditKeeps ==
    ASSUME Turns, Learning, NEW r \in Runs, outcome[r] = "none", UNCHANGED opened,
           NEW how \in {"resolved", "escalated", "failed"}, Closes(r, how)
    PROVE  /\ AfterCredit(r, how).entries \in Entries
           /\ AfterCredit(r, how).torn \in BOOLEAN
           /\ DOMAIN AfterCredit(r, how).entries \subseteq learned
           /\ DOMAIN file \subseteq DOMAIN AfterCredit(r, how).entries \cup AfterCredit(r, how).cost
           /\ Backed(AfterCredit(r, how).entries, Due')
<1>1. CASE Credits(r, how) = {}
  <2>1. /\ AfterCredit(r, how).entries = file
        /\ AfterCredit(r, how).torn = torn
    BY <1>1 DEF AfterCredit
  <2> QED BY <2>1, ClosesKeeps DEF Learning, Shelves, Sources
<1>2. CASE Credits(r, how) # {}
  <2>1. PICK e : e = Credited(r, how)
    OBVIOUS
  <2>2. /\ AfterCredit(r, how).entries = e
        /\ AfterCredit(r, how).torn = FALSE
        /\ AfterCredit(r, how).cost = DOMAIN file \ DOMAIN copy[r]
    BY <1>2, <2>1 DEF AfterCredit
  <2>3. /\ DOMAIN e = DOMAIN copy[r]
        /\ \A l \in DOMAIN e : e[l] = copy[r][l] + (IF l \in Credits(r, how) THEN 1 ELSE 0)
        /\ e = [l \in DOMAIN e |-> e[l]]
    BY <2>1 DEF Credited
  <2>4. DOMAIN copy[r] \subseteq Lesson /\ copy[r] \in [DOMAIN copy[r] -> Nat]
    BY EntriesAre DEF Learning, Shelves
  <2>5. e \in Entries
    <3>1. \A l \in DOMAIN e : e[l] \in Nat
      BY <2>3, <2>4
    <3>2. DOMAIN e \subseteq Lesson /\ e \in [DOMAIN e -> Nat]
      BY <2>3, <2>4, <3>1
    <3> QED BY <3>2, EntriesAre
  <2>6. ASSUME NEW l \in DOMAIN e PROVE e[l] <= Due'[l]
    <3>1. l \in Lesson /\ copy[r][l] \in Nat /\ copy[r][l] <= Due[l]
      BY <2>3, <2>4 DEF Learning, Credit, Backed
    <3>2. Due[l] \in Nat /\ Due'[l] \in Nat /\ Due[l] <= Due'[l]
      BY <3>1, DueGrows, DueIsCounted DEF Learning
    <3>3. l \in Credits(r, how) => Due'[l] = Due[l] + 1
      BY DueGrows DEF Learning
    <3>4. e[l] = copy[r][l] + (IF l \in Credits(r, how) THEN 1 ELSE 0)
      BY <2>3
    <3> QED BY <3>1, <3>2, <3>3, <3>4
  <2>7. Backed(e, Due')
    BY <2>6 DEF Backed
  <2>8. DOMAIN e \subseteq learned
    BY <2>3 DEF Learning, Sources
  <2> QED BY <2>2, <2>3, <2>5, <2>7, <2>8
<1> QED BY <1>1, <1>2

\* What is left of a run in the store, whatever it put on file.
LEMMA LeavesKeeps ==
    ASSUME Turns, Learning, NEW r \in Runs, outcome[r] = "none", UNCHANGED opened,
           NEW how \in {"resolved", "escalated", "failed"}, Closes(r, how),
           NEW e \in Entries, file' = e, Backed(e, Due'), torn' \in BOOLEAN,
           removed' = removed, learned \subseteq learned', learned' \subseteq learned \cup {r},
           DOMAIN e \subseteq learned', excused \subseteq excused',
           DOMAIN file \subseteq DOMAIN e \cup excused',
           learned' \ learned \subseteq DOMAIN e \cup excused'
    PROVE  Learning'
<1>1. Shelves'
  BY ClosesKeeps DEF Shelves, Entries, Lesson, Runs, SEED
<1>2. Sources'
  <2>1. \A q \in Runs : q \in learned' => outcome'[q] # "none"
    BY ClosesKeeps DEF Learning, Sources
  <2>2. \A q \in Runs : DOMAIN copy'[q] \subseteq learned'
    BY ClosesKeeps
  <2> QED BY <2>1, <2>2 DEF Learning, Sources, Runs
<1>3. LessonsAreKept'
  BY DEF Learning, LessonsAreKept
<1>4. Credit'
  BY ClosesKeeps DEF Credit, Backed, Runs
<1> QED BY <1>1, <1>2, <1>3, <1>4 DEF Learning

\* The end of a run that may have learned something.
LEMMA EndKeeps ==
    ASSUME Turns, Learning, NEW r \in Runs, outcome[r] = "none", UNCHANGED opened,
           NEW how \in {"resolved", "escalated", "failed"}, EndInStore(r, how)
    PROVE  Learning'
<1>1. Closes(r, how) /\ removed' = removed
  BY DEF EndInStore
<1>2. PICK w : w = AfterCredit(r, how)
  OBVIOUS
<1>3. /\ w.entries \in Entries /\ w.torn \in BOOLEAN /\ Backed(w.entries, Due')
      /\ DOMAIN w.entries \subseteq learned
      /\ DOMAIN file \subseteq DOMAIN w.entries \cup w.cost
  BY <1>1, <1>2, CreditKeeps
<1>4. CASE ~Learns(how)
  <2>1. /\ file' = w.entries /\ torn' = w.torn /\ learned' = learned
        /\ excused' = excused \cup w.cost
    BY <1>2, <1>4 DEF EndInStore
  <2> QED BY <1>1, <1>3, <2>1, LeavesKeeps
<1>5. CASE Learns(how) /\ w.torn
  <2>1. /\ file' = w.entries /\ torn' = FALSE /\ learned' = learned \cup {r}
        /\ excused' = excused \cup w.cost \cup {r}
    BY <1>2, <1>5 DEF EndInStore
  <2> QED BY <1>1, <1>3, <2>1, LeavesKeeps
<1>6. CASE Learns(how) /\ ~w.torn
  <2>1. PICK e : e = With(w.entries, r)
    OBVIOUS
  <2>2. e \in Entries /\ DOMAIN e = DOMAIN w.entries \cup {r} /\ Backed(e, Due')
    <3>1. r \in Lesson /\ Due' \in [Lesson -> Nat]
      BY <1>1, DueGrows DEF Learning, Lesson
    <3> QED BY <1>3, <2>1, <3>1, WithKeeps
  <2>3. /\ file' = e /\ torn' = FALSE /\ learned' = learned \cup {r}
        /\ excused' = excused \cup w.cost
    BY <1>2, <1>6, <2>1 DEF EndInStore, AddAppends
  <2> QED BY <1>1, <1>3, <2>2, <2>3, LeavesKeeps
<1> QED BY <1>3, <1>4, <1>5, <1>6

\* The end of a run whose lesson is torn.
LEMMA TornKeeps ==
    ASSUME Turns, Learning, NEW r \in Runs, outcome[r] = "none", UNCHANGED opened,
           NEW how \in {"resolved", "escalated"}, TornInStore(r, how)
    PROVE  Learning'
<1>1. Closes(r, how) /\ removed' = removed /\ learned' = learned /\ torn' = TRUE
  BY DEF TornInStore
<1>2. PICK w : w = AfterCredit(r, how)
  OBVIOUS
<1>3. /\ w.entries \in Entries /\ Backed(w.entries, Due')
      /\ DOMAIN w.entries \subseteq learned
      /\ DOMAIN file \subseteq DOMAIN w.entries \cup w.cost
  BY <1>1, <1>2, CreditKeeps
<1>4. file' = w.entries /\ excused' = excused \cup w.cost
  BY <1>2 DEF TornInStore
<1> QED BY <1>1, <1>3, <1>4, LeavesKeeps

\* The end of a run that is stopped or throws.
LEMMA ThrowKeeps ==
    ASSUME Turns, Learning, NEW r \in Runs, outcome[r] = "none", UNCHANGED opened,
           LeavesStore(r)
    PROVE  Learning'
<1>1. Closes(r, "failed") /\ UNCHANGED <<file, torn, learned, removed, excused>>
  BY DEF LeavesStore
<1>2. Backed(file, Due')
  BY <1>1, ClosesKeeps
<1>3. file \in Entries /\ torn \in BOOLEAN /\ DOMAIN file \subseteq learned
  BY DEF Learning, Shelves, Sources
<1> QED BY <1>1, <1>2, <1>3, LeavesKeeps

-----------------------------------------------------------------------------
LEMMA InitHolds == Init => IInv
<1> SUFFICES ASSUME Init PROVE IInv
  OBVIOUS
<1>1. /\ file = Nothing /\ torn = FALSE
      /\ copy = [r \in Runs |-> Nothing] /\ recalled = [r \in Runs |-> {}]
      /\ outcome = [r \in Runs |-> "none"]
      /\ learned = {} /\ removed = {} /\ excused = {}
  BY DEF Init, StoreInit
<1>2. /\ history = [r \in Runs |-> <<>>] /\ status = [r \in Runs |-> "none"]
      /\ stopped = {} /\ registry = {} /\ page = [b \in Browsers |-> Off] /\ opened = {}
  BY DEF Init, StreamInit
<1>3. Turns
  BY <1>1, <1>2 DEF Turns
<1>4. Nothing \in Entries /\ DOMAIN Nothing = {} /\ Backed(Nothing, Due)
  BY NothingIsBacked, DueIsCounted
<1>5. Learning
  BY <1>1, <1>4 DEF Learning, Shelves, Sources, LessonsAreKept, Credit
<1>6. Following
  BY <1>2, OffIsAPage, EmptySeq DEF Following, Streaming, Watching, Stands
<1> QED BY <1>3, <1>5, <1>6 DEF IInv

LEMMA FollowingStands ==
    ASSUME Following, UNCHANGED <<history, stopped, registry, page>>
    PROVE  Following'
BY DEF Following, Streaming, Watching, Stands, Follows

\* The life of a run, with what it does to the store and to the pages.
LEMMA RunKeeps ==
    ASSUME IInv, NEW r \in Runs,
           \/ CreateRun(r) \/ Starts(r) \/ Recalls(r)
           \/ RunEnds(r) \/ LearningFails(r) \/ RunThrows(r)
           \/ UserStops(r) /\ UNCHANGED <<storeVars, opened>>
    PROVE  IInv'
<1>1. Turns /\ Learning /\ Following /\ Streaming /\ Watching
  BY DEF IInv, Following
<1>2. status[r] = "running" => outcome[r] = "none"
  BY <1>1 DEF Turns
<1>3. ASSUME NEW events \in Seq(Kinds), Emits(r, events), registry' = registry,
             stopped' \subseteq stopped \cup {r}
      PROVE  Following'
  <2>1. history' \in [Runs -> Seq(Kinds)] /\ page' \in [Browsers -> Page] /\ Watching'
    BY <1>1, <1>3, EmitsKeeps
  <2> QED BY <1>1, <1>3, <2>1 DEF Following, Streaming, Runs, Page, Kinds, Places
<1>4. CASE CreateRun(r)
  <2>1. /\ status[r] = "none" /\ status' = [status EXCEPT ![r] = "running"]
        /\ registry' = (registry \ Evicted(MaxKept)) \cup {r}
        /\ UNCHANGED <<history, stopped, page, opened>> /\ UNCHANGED storeVars
    BY <1>4 DEF CreateRun, Create
  <2>2. Turns'
    BY <1>1, <2>1 DEF Turns, storeVars, Runs
  <2>3. Learning'
    BY <1>1, <2>1, LearningStands
  <2>4. Following'
    BY <1>1, <2>1 DEF Following, Streaming, Watching, Stands, Follows, Runs, Page, Kinds, Places
  <2> QED BY <2>2, <2>3, <2>4 DEF IInv
<1>5. CASE Starts(r)
  <2>1. /\ r \notin opened /\ opened' = opened \cup {r} /\ OpenStore(r)
        /\ Emits(r, <<"started">>) /\ UNCHANGED <<status, stopped, registry>>
    BY <1>5 DEF Starts
  <2>2. Turns'
    BY <1>1, <2>1 DEF Turns, OpenStore, Runs
  <2>3. Learning'
    BY <1>1, <2>1, OpenStoreKeeps
  <2>4. <<"started">> \in Seq(Kinds)
    BY DEF Kinds
  <2>5. Following'
    BY <1>3, <2>1, <2>4
  <2> QED BY <2>2, <2>3, <2>5 DEF IInv
<1>6. CASE Recalls(r)
  <2>1. /\ status[r] = "running" /\ r \in opened /\ Recall(r)
        /\ Emits(r, <<"knowledge">>) /\ UNCHANGED <<status, stopped, registry, opened>>
    BY <1>6 DEF Recalls, Working
  <2>2. Turns'
    BY <1>1, <2>1 DEF Turns, Recall, Runs
  <2>3. Learning'
    BY <1>1, <1>2, <2>1, RecallKeeps
  <2>4. <<"knowledge">> \in Seq(Kinds)
    BY DEF Kinds
  <2>5. Following'
    BY <1>3, <2>1, <2>4
  <2> QED BY <2>2, <2>3, <2>5 DEF IInv
<1>7. CASE RunEnds(r)
  <2>1. PICK how \in {"resolved", "escalated", "failed"} :
          EndInStore(r, how) /\ Ended(r, how, <<"done">>, "finished")
    BY <1>7 DEF RunEnds
  <2>2. /\ status[r] = "running" /\ status' = [status EXCEPT ![r] = "finished"]
        /\ Emits(r, <<"done">>) /\ UNCHANGED <<stopped, registry, opened>>
        /\ outcome' = [outcome EXCEPT ![r] = how]
    BY <2>1 DEF Ended, Working, EndInStore, Closes
  <2>3. Turns'
    BY <1>1, <2>2 DEF Turns, Runs
  <2>4. Learning'
    BY <1>1, <1>2, <2>1, <2>2, EndKeeps
  <2>5. <<"done">> \in Seq(Kinds)
    BY DEF Kinds
  <2>6. Following'
    BY <1>3, <2>2, <2>5
  <2> QED BY <2>3, <2>4, <2>6 DEF IInv
<1>8. CASE LearningFails(r)
  <2>1. PICK how \in {"resolved", "escalated"} :
          TornInStore(r, how) /\ Ended(r, how, <<"error">>, "failed")
    BY <1>8 DEF LearningFails
  <2>2. /\ status[r] = "running" /\ status' = [status EXCEPT ![r] = "failed"]
        /\ Emits(r, <<"error">>) /\ UNCHANGED <<stopped, registry, opened>>
        /\ outcome' = [outcome EXCEPT ![r] = how]
    BY <2>1 DEF Ended, Working, TornInStore, Closes
  <2>3. Turns'
    BY <1>1, <2>2 DEF Turns, Runs
  <2>4. Learning'
    BY <1>1, <1>2, <2>1, <2>2, TornKeeps
  <2>5. <<"error">> \in Seq(Kinds)
    BY DEF Kinds
  <2>6. Following'
    BY <1>3, <2>2, <2>5
  <2> QED BY <2>3, <2>4, <2>6 DEF IInv
<1>9. CASE RunThrows(r)
  <2>1. /\ status[r] = "running" /\ LeavesStore(r) /\ UNCHANGED <<stopped, registry, opened>>
        /\ \/ /\ status' = [status EXCEPT ![r] = "finished"] /\ UNCHANGED <<history, page>>
           \/ /\ status' = [status EXCEPT ![r] = "failed"] /\ Emits(r, <<"error">>)
        /\ outcome' = [outcome EXCEPT ![r] = "failed"]
    BY <1>9 DEF RunThrows, LeavesStore, Closes
  <2>2. Turns'
    BY <1>1, <2>1 DEF Turns, Runs
  <2>3. Learning'
    BY <1>1, <1>2, <2>1, ThrowKeeps
  <2>4. <<"error">> \in Seq(Kinds)
    BY DEF Kinds
  <2>5. Following'
    BY <1>1, <1>3, <2>1, <2>4, FollowingStands
  <2> QED BY <2>2, <2>3, <2>5 DEF IInv
<1>10. CASE UserStops(r) /\ UNCHANGED <<storeVars, opened>>
  <2>1. /\ stopped' = stopped \cup {r} /\ UNCHANGED <<status, registry>>
        /\ Emits(r, <<"user-stop-requested", "question-cancelled">>)
    BY <1>10 DEF UserStops
  <2>2. Turns'
    BY <1>1, <1>10, <2>1 DEF Turns, storeVars, Runs
  <2>3. Learning'
    BY <1>1, <1>10, LearningStands
  <2>4. <<"user-stop-requested", "question-cancelled">> \in Seq(Kinds)
    BY DEF Kinds
  <2>5. Following'
    BY <1>3, <2>1, <2>4
  <2> QED BY <2>2, <2>3, <2>5 DEF IInv
<1> QED BY <1>4, <1>5, <1>6, <1>7, <1>8, <1>9, <1>10

\* What a browser does leaves runs and lessons alone.
LEMMA BrowserKeeps ==
    ASSUME IInv, NEW b \in Browsers,
           Streams(b) \/ Drops(b) \/ \E r \in Runs : Watch(b, r),
           UNCHANGED <<storeVars, opened>>
    PROVE  IInv'
<1>1. Turns /\ Learning /\ Streaming /\ Watching
  BY DEF IInv, Following
<1>2. Streaming' /\ Watching'
  BY <1>1, StreamEventsKeeps, FinishKeeps, ArrivesKeeps, DropsKeeps, WatchKeeps DEF Streams
<1>3. UNCHANGED status
  BY DEF Streams, StreamEvents, Finish, Arrives, Drops, Watch
<1>4. Turns'
  BY <1>1, <1>3 DEF Turns, storeVars, Runs
<1>5. Learning'
  BY <1>1, LearningStands
<1> QED BY <1>2, <1>4, <1>5 DEF IInv, Following

LEMMA StepKeeps == IInv /\ [Next]_vars => IInv'
<1> SUFFICES ASSUME IInv, [Next]_vars PROVE IInv'
  OBVIOUS
<1>1. CASE \E r \in Runs :
             \/ CreateRun(r) \/ Starts(r) \/ Recalls(r)
             \/ RunEnds(r) \/ LearningFails(r) \/ RunThrows(r)
             \/ UserStops(r) /\ UNCHANGED <<storeVars, opened>>
  BY <1>1, RunKeeps
<1>2. CASE (\E l \in Lesson : RemoveLesson(l)) /\ UNCHANGED <<streamVars, opened>>
  <2>1. Learning'
    BY <1>2, RemoveKeeps DEF IInv
  <2>2. Turns'
    BY <1>2 DEF IInv, Turns, RemoveLesson, streamVars, Runs
  <2>3. Following'
    BY <1>2, FollowingStands DEF IInv, streamVars
  <2> QED BY <2>1, <2>2, <2>3 DEF IInv
<1>3. CASE \E b \in Browsers :
             /\ Streams(b) \/ Drops(b) \/ \E r \in Runs : Watch(b, r)
             /\ UNCHANGED <<storeVars, opened>>
  BY <1>3, BrowserKeeps
<1>4. CASE UNCHANGED vars
  <2>1. UNCHANGED storeVars /\ UNCHANGED streamVars /\ UNCHANGED opened
    BY <1>4 DEF vars
  <2>2. Turns'
    BY <2>1 DEF IInv, Turns, storeVars, streamVars, Runs
  <2>3. Learning'
    BY <2>1, LearningStands DEF IInv
  <2>4. Following'
    BY <2>1, FollowingStands DEF IInv, streamVars
  <2> QED BY <2>2, <2>3, <2>4 DEF IInv
<1> QED BY <1>1, <1>2, <1>3, <1>4 DEF Next

\* The inductive invariant holds in every state of the console.
LEMMA Invariance == Spec => []IInv
BY InitHolds, StepKeeps, PTL DEF Spec

-----------------------------------------------------------------------------
(***************************************************************************)
(* The store, its copies and the pages are well formed, and the server     *)
(* goes on with a page where what it sent it ends (load() of store.ts,     *)
(* streamEvents in server/index.ts).                                       *)
(***************************************************************************)
THEOREM TypeCorrect == Spec => []TypeOK
<1>1. IInv => TypeOK
  <2> SUFFICES ASSUME IInv PROVE TypeOK
    OBVIOUS
  <2>1. StoreTypeOK
    BY EntriesAre DEF IInv, Turns, Learning, Shelves, StoreTypeOK
  <2>2. ASSUME NEW b \in Browsers, page[b].at \in {"open", "closing"}
        PROVE  page[b].next = Len(page[b].seen) + Len(page[b].wire) + 1
    <3>1. page[b] \in Page /\ Follows(page[b], Len(history[page[b].run]))
      BY <2>2, StandsThen DEF IInv, Following
    <3> QED BY <2>2, <3>1 DEF Follows
  <2>3. StreamTypeOK /\ opened \subseteq Runs
    BY <2>2 DEF IInv, Turns, Following, Streaming, StreamTypeOK
  <2> QED BY <2>1, <2>3 DEF TypeOK
<1> QED BY <1>1, Invariance, PTL

(***************************************************************************)
(* However many runs load, credit and append to the one file, a lesson     *)
(* that was learned and that nobody removed is on it, unless a rewrite     *)
(* from an older copy or a torn line cost it (add, markApplied and remove  *)
(* of knowledge/store.ts).                                                 *)
(***************************************************************************)
THEOREM LessonsStay == Spec => []LessonsAreKept
<1>1. IInv => LessonsAreKept
  BY DEF IInv, Learning
<1> QED BY <1>1, Invariance, PTL

(***************************************************************************)
(* No lesson is credited with more resolutions than it was recalled for,   *)
(* although each run writes the counts of its own copy back over the       *)
(* others' (loop.ts:539, markApplied of knowledge/store.ts).               *)
(***************************************************************************)
THEOREM CreditIsDue == Spec => []CreditIsEarned
<1>1. IInv => CreditIsEarned
  <2> SUFFICES ASSUME IInv, NEW l \in DOMAIN file
               PROVE  file[l] <= Cardinality(Helped(l))
    BY DEF CreditIsEarned, Helped
  <2>1. l \in Lesson
    BY EntriesAre DEF IInv, Learning, Shelves
  <2> QED BY <2>1 DEF IInv, Learning, Credit, Backed, Due
<1> QED BY <1>1, Invariance, PTL

(***************************************************************************)
(* A lesson a technician removed comes back only by the credit of a run    *)
(* that had loaded it, or by the seeding of an emptied store               *)
(* (markApplied of knowledge/store.ts, demo/seed-knowledge.ts).            *)
(***************************************************************************)
THEOREM OnlyTheseReturn == Spec => RemovedReturns
<1>1. IInv /\ [Next]_vars =>
        [\A l \in removed \ DOMAIN file :
           l \in DOMAIN file' =>
              \/ l = SEED /\ DOMAIN file = {}
              \/ \E r \in Runs : /\ outcome[r] = "none" /\ outcome'[r] = "resolved"
                                 /\ l \in DOMAIN copy[r] /\ recalled[r] # {}]_storeVars
  <2> SUFFICES ASSUME IInv, [Next]_vars, NEW l \in removed, l \notin DOMAIN file,
                      l \in DOMAIN file'
               PROVE  \/ l = SEED /\ DOMAIN file = {}
                      \/ \E r \in Runs : /\ outcome[r] = "none" /\ outcome'[r] = "resolved"
                                         /\ l \in DOMAIN copy[r] /\ recalled[r] # {}
    OBVIOUS
  <2>1. file' # file
    OBVIOUS
  <2>2. CASE \E r \in Runs : OpenStore(r)
    <3>1. NeedsSeeds(file) /\ file' = With(file, SEED)
      BY <2>1, <2>2 DEF OpenStore, Append1
    <3> QED BY <3>1 DEF NeedsSeeds, With
  <2>3. ASSUME NEW r \in Runs, NEW how, status[r] = "running",
               EndInStore(r, how) \/ TornInStore(r, how)
        PROVE  /\ outcome[r] = "none" /\ outcome'[r] = "resolved"
               /\ l \in DOMAIN copy[r] /\ recalled[r] # {}
    <3>1. outcome[r] = "none" /\ outcome'[r] = how
      BY <2>3 DEF IInv, Turns, EndInStore, TornInStore, Closes
    <3>2. l # r
      BY <3>1 DEF IInv, Learning, Sources
    <3>3. l \in DOMAIN AfterCredit(r, how).entries
      <4>1. \/ file' = AfterCredit(r, how).entries
            \/ file' = With(AfterCredit(r, how).entries, r)
        BY <2>3 DEF EndInStore, TornInStore, AddAppends
      <4> QED BY <3>2, <4>1 DEF With
    <3>4. Credits(r, how) # {} /\ l \in DOMAIN copy[r]
      BY <3>3 DEF AfterCredit, Credited
    <3> QED BY <3>1, <3>4 DEF Credits
  <2>4. CASE \E k \in Lesson : RemoveLesson(k)
    BY <2>4 DEF RemoveLesson, Restrict
  <2>5. CASE \E r \in Runs : OpenStore(r) \/ RunEnds(r) \/ LearningFails(r)
    BY <2>2, <2>3, <2>5 DEF RunEnds, LearningFails, Ended, Working
  <2> QED BY <2>1, <2>4, <2>5
          DEF Next, vars, storeVars, CreateRun, Starts, Recalls, Recall, RunThrows, LeavesStore
<1> QED BY <1>1, Invariance, PTL DEF Spec, RemovedReturns

(***************************************************************************)
(* "Replaying from there rather than from the beginning": whatever drops,  *)
(* ends or comes back, and however many runs and browsers there are, a     *)
(* page has the events of its run from the first on, each of them once     *)
(* (streamEvents in server/index.ts, emit() of run-registry.ts).           *)
(***************************************************************************)
THEOREM EventsAreDrawnOnce == Spec => []DrawnOnce
<1>1. IInv => DrawnOnce
  <2> SUFFICES ASSUME IInv, NEW b \in Browsers, NEW i \in DOMAIN page[b].seen
               PROVE  page[b].seen[i] = i
    BY DEF DrawnOnce
  <2>1. CASE page[b] = Off
    BY <2>1 DEF Off
  <2>2. CASE page[b] # Off
    <3>1. Follows(page[b], Len(history[page[b].run]))
      BY <2>2 DEF IInv, Following, Watching, Stands
    <3>2. page[b].seen \in Seq(Nat)
      BY DEF IInv, Following, Streaming, Page
    <3>3. i \in 1..Len(page[b].seen)
      BY <3>2
    <3> QED BY <3>1, <3>3 DEF Follows
  <2> QED BY <2>1, <2>2
<1> QED BY <1>1, Invariance, PTL
=============================================================================
