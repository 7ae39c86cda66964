--------------------------- MODULE KnowledgeStore ----------------------------
(***************************************************************************)
(* What the desk has learned (src/src/knowledge): one file of lessons, of  *)
(* which every run, and every request of the console, loads a copy of its  *)
(* own.  A lesson is added by appending to the file; crediting or removing *)
(* one rewrites the file from the copy.                                    *)
(***************************************************************************)
EXTENDS ConsoleRuns, Functions

CONSTANTS
    MaxTorn,      \* bound: writes that fail half way
    MaxRemoved    \* bound: lessons technicians remove

ASSUME KnowledgeAssumption == MaxTorn \in Nat /\ MaxRemoved \in Nat

\* A lesson has the name of the run it is from; the seeds count as one.
SEED == 0
Lesson == Runs \cup {SEED}

VARIABLES
    file,         \* the lessons on file, each with its times_applied
    torn,         \* the last line has no end
    copy,         \* each run's own entries, while it runs
    recalled,     \* the lessons each run was given, kept if it resolved
    outcome,      \* how each run ended, or "none"
    learned,      \* history: every lesson ever added
    removed,      \* history: every lesson a technician removed
    excused,      \* history: the lessons another store's rewrite or a torn line cost
    tornWrites

storeVars == <<file, torn, copy, recalled, outcome, learned, removed, excused, tornWrites>>

Nothing == [l \in {} |-> 0]
With(entries, l) == [k \in DOMAIN entries \cup {l} |-> IF k = l THEN 0 ELSE entries[k]]

StoreInit ==
    /\ file = Nothing /\ torn = FALSE
    /\ copy = [r \in Runs |-> Nothing] /\ recalled = [r \in Runs |-> {}]
    /\ outcome = [r \in Runs |-> "none"]
    /\ learned = {} /\ removed = {} /\ excused = {} /\ tornWrites = 0

-----------------------------------------------------------------------------
(***************************************************************************)
(* #load and seedKnowledge: an empty store is seeded, into memory and onto *)
(* the end of the file, where a torn line swallows what is appended to it. *)
(***************************************************************************)
\* Mutant: the demonstration lessons are put in whenever they are missing.
NeedsSeedsAgain(entries) == SEED \notin DOMAIN entries
NeedsSeeds(entries) == DOMAIN entries = {}

Append1(l) ==
    IF torn
    THEN file' = file /\ torn' = FALSE /\ excused' = excused \cup {l}
    ELSE file' = With(file, l) /\ UNCHANGED <<torn, excused>>

OpenStore(r) ==
    /\ IF NeedsSeeds(file)
       THEN /\ copy' = [copy EXCEPT ![r] = With(file, SEED)]
            /\ learned' = learned \cup {SEED}
            /\ Append1(SEED)
       ELSE copy' = [copy EXCEPT ![r] = file] /\ UNCHANGED <<file, torn, learned, excused>>
    /\ UNCHANGED <<recalled, outcome, removed, tornWrites>>

\* retrieve(): up to three of the entries this run's store holds.
Recall(r) ==
    /\ \E hits \in SUBSET DOMAIN copy[r] :
          /\ Cardinality(hits) <= 3
          /\ recalled' = [recalled EXCEPT ![r] = hits]
    /\ UNCHANGED <<file, torn, copy, outcome, learned, removed, excused, tornWrites>>

-----------------------------------------------------------------------------
(***************************************************************************)
(* The end of a run (step 7 of the loop): a resolution credits every       *)
(* lesson it was given, and a settled run appends its own.                 *)
(***************************************************************************)
\* Mutant: whatever was recalled is credited, however the run ended.
CreditsRecalled(r, how) == recalled[r]
Credits(r, how) == IF how = "resolved" THEN recalled[r] ELSE {}

Credited(r, how) ==
    [l \in DOMAIN copy[r] |-> copy[r][l] + IF l \in Credits(r, how) THEN 1 ELSE 0]

\* markApplied rewrites the whole file, the torn line included.
AfterCredit(r, how) ==
    IF Credits(r, how) = {} THEN [entries |-> file, torn |-> torn, cost |-> {}]
    ELSE [entries |-> Credited(r, how), torn |-> FALSE,
          cost |-> DOMAIN file \ DOMAIN copy[r]]

\* Mutant: add() rewrites the file from the run's own copy.
AddRewrites(r, how) == With(Credited(r, how), r)
AddAppends(r, how) == With(AfterCredit(r, how).entries, r)

\* learnFromRun: only a run that resolved or escalated has a lesson.
Learns(how) == how \in {"resolved", "escalated"}

\* The run is gone, and its copy with it.
Closes(r, how) ==
    /\ copy' = [copy EXCEPT ![r] = Nothing]
    /\ recalled' = [recalled EXCEPT ![r] = IF how = "resolved" THEN @ ELSE {}]
    /\ outcome' = [outcome EXCEPT ![r] = how]

EndInStore(r, how) ==
    LET written == AfterCredit(r, how)
    IN  /\ Closes(r, how)
        /\ IF ~Learns(how)
           THEN file' = written.entries /\ torn' = written.torn
                  /\ excused' = excused \cup written.cost /\ UNCHANGED learned
           ELSE /\ learned' = learned \cup {r}
                /\ file' = IF written.torn THEN written.entries ELSE AddAppends(r, how)
                /\ torn' = FALSE
                /\ excused' = excused \cup written.cost \cup (IF written.torn THEN {r} ELSE {})
        /\ UNCHANGED <<removed, tornWrites>>

\* The append fails half way: the lesson is not learned, and the run has an error.
TornInStore(r, how) ==
    LET written == AfterCredit(r, how)
    IN  /\ Learns(how) /\ tornWrites < MaxTorn
        /\ tornWrites' = tornWrites + 1
        /\ file' = written.entries /\ torn' = TRUE
        /\ excused' = excused \cup written.cost
        /\ Closes(r, how)
        /\ UNCHANGED <<learned, removed>>

\* A run that is stopped or throws before it learns.
LeavesStore(r) ==
    Closes(r, "failed") /\ UNCHANGED <<file, torn, learned, removed, excused, tornWrites>>

\* DELETE /api/knowledge/:id, on a store loaded for this request.
RemoveLesson(l) ==
    /\ l \in DOMAIN file /\ Cardinality(removed \cup {l}) <= MaxRemoved
    /\ file' = Restrict(file, DOMAIN file \ {l}) /\ torn' = FALSE
    /\ removed' = removed \cup {l}
    /\ UNCHANGED <<copy, recalled, outcome, learned, excused, tornWrites>>

-----------------------------------------------------------------------------
StoreTypeOK ==
    /\ DOMAIN file \subseteq Lesson /\ torn \in BOOLEAN
    /\ \A r \in Runs : outcome[r] = "none" => recalled[r] \subseteq DOMAIN copy[r]
    /\ outcome \in [Runs -> {"none", "resolved", "escalated", "failed"}]

(***************************************************************************)
(* A lesson nobody removed is on file, unless a store that was loaded      *)
(* before it was added has rewritten the file, or it was appended to a     *)
(* line an earlier failure left without an end.                            *)
(***************************************************************************)
LessonsAreKept == (learned \ removed) \ excused \subseteq DOMAIN file

\* "An entry that was recalled and then led to a resolution has earned the
\* credit": no lesson on file has more of it than runs that did so.
CreditIsEarned ==
    \A l \in DOMAIN file :
       file[l] <= Cardinality({r \in Runs : outcome[r] = "resolved" /\ l \in recalled[r]})

\* Not what the code does: "what is on disk is always exactly what the assistant
\* will use", so that what a technician removed stays removed.  It returns when a
\* run that had loaded it is credited, or when the store is seeded again.
RemovedReturns ==
    [][\A l \in removed \ DOMAIN file :
          l \in DOMAIN file' =>
             \/ l = SEED /\ DOMAIN file = {}
             \/ \E r \in Runs : /\ outcome[r] = "none" /\ outcome'[r] = "resolved"
                                /\ l \in DOMAIN copy[r] /\ recalled[r] # {}]_storeVars
=============================================================================
