----------------------------- MODULE MCGraphLoad -----------------------------
(***************************************************************************)
(* What reads the database while collections commit, in small instances:   *)
(* a graph loaded statement by statement, and a coverage report read in    *)
(* one snapshot.  They share no state: a behaviour moves one of them.      *)
(***************************************************************************)
EXTENDS GraphLoad

CONSTANTS
  Covered, Person,                     \* repositories and developers of the report
  Category, Recipe, Catalog, Day, Stars, StaleAfter, MaxCommits

VARIABLES part, now, tables, commits, at, assessed, view, report

coverage == <<now, tables, commits, at, assessed, view, report>>

MCTags == {{"go"}, {"go", "ml"}}
MCMomentum == [r \in Repo |-> IF r = 1 THEN 4500 ELSE None]
MCLanguage == [r \in Repo |-> IF r = 1 THEN "rust" ELSE "c"]
MCEvidence == {[n |-> 3, seen |-> FALSE, delta |-> None], [n |-> 3, seen |-> TRUE, delta |-> 2],
               [n |-> 12, seen |-> TRUE, delta |-> 9]}

Q == INSTANCE QualityReport WITH Repo <- Covered, Developer <- Person, db <- tables, pc <- at

MCInit == part \in {"graph", "coverage"} /\ Init /\ Q!Init

MCNext ==
  /\ UNCHANGED part
  /\ \/ part = "graph" /\ Next /\ UNCHANGED coverage
     \/ part = "coverage" /\ Q!Next /\ UNCHANGED vars

MCSpec == MCInit /\ [][MCNext]_<<part, vars, coverage>>

(* What QualityReport promises of a finished report.                       *)
ReportIsSound == Q!ReportIsSound
=============================================================================
