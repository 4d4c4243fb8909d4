----------------------------- MODULE MCAutomation -----------------------------
(***************************************************************************)
(* Scheduled invocations s1, s2 of one kind and s3 of the other beside a   *)
(* manual one, m1; two clients that search and fetch repositories.         *)
(***************************************************************************)
EXTENDS Unattended, TLC

CONSTANTS s1, s2, s3, m1

MCKind == [p \in Proc |-> IF p \in {s1, s2, m1} THEN "discover" ELSE "refresh"]
MCScheduled == Proc \ {m1}
MCLimit == [total |-> 3, search |-> 2, repository_details |-> 2, contributors |-> 0, profiles |-> 0]
MCThreshold == [core |-> 1, search |-> 0]
Interchangeable == Permutations({s1, s2}) \cup Permutations(Client)
=============================================================================
