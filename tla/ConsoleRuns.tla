----------------------------- MODULE ConsoleRuns -----------------------------
(***************************************************************************)
(* The runs of one console process, each named by its turn                 *)
(* (server/run-registry.ts, RunSession.id and startedAt).                  *)
(***************************************************************************)
EXTENDS Naturals, FiniteSets

CONSTANT MaxRuns      \* bound: the runs there will be

ASSUME RunsAssumption == MaxRuns \in Nat \ {0}

Runs == 1..MaxRuns
=============================================================================
