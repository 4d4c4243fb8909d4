----------------------------- MODULE MCTracking -----------------------------
(***************************************************************************)
(* Records in small instances: two repositories that are renamed, searches *)
(* of three cohorts, four repositories to refresh, and the log of one      *)
(* repository and one contributor.                                         *)
(***************************************************************************)
EXTENDS Records, FiniteSets

CONSTANTS
  r1, n1, n2, d1,
  MaxObservations   \* bound: rows of the three logs together

MCHeldBy == [r \in Repo |-> IF r = r1 THEN n1 ELSE n2]
MCLimit == <<3, 1, 2>>
MCKnown == <<1, 2, 3>>

MCInit == /\ RecordsInit
          /\ part # "names" => owner = [r \in Repo |-> d1]
          /\ part \notin {"collector", "library"} => clock = 0

Bounds == Len(snapshots) + Cardinality(contributions) + Cardinality(profiles) <= MaxObservations

MCSpec == MCInit /\ [][RecordsNext /\ Bounds']_recordsVars /\ RecordsFairness

(* Names alone, with every repository found again and again.               *)
MCNamesSpec == MCInit /\ part = "names"
               /\ [][RecordsNext /\ Bounds']_recordsVars /\ RecordsFairness /\ FoundAgain
=============================================================================
