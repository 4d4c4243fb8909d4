--------------------------- MODULE MCCollectionRun ---------------------------
(* An instance of CollectionService for TLC.                               *)
EXTENDS CollectionService, TLC

CONSTANTS r1, r2, r3   \* repositories; r2 is known before the run

(* Cohorts whose searches may overlap in a new and a known repository, or  *)
(* find little or nothing.  The candidates may reach the limit in the      *)
(* middle of a cohort or between two, or all of them be handled.           *)
MCCohort ==
  <<[limit |-> 3, answers |-> {<<r1, r2, r3>>, <<r2, r3>>, <<r2>>}],
    [limit |-> 2, answers |-> {<<r3, r1>>, <<>>}],
    [limit |-> 1, answers |-> {<<r1>>}]>>
MCKnown == {r2}

(* One repository was never observed, two were, one of them later.         *)
MCObserved == (1 :> {1}) @@ (2 :> {}) @@ (3 :> {2})

(* The batch of the first repository is too small.  That of the second is  *)
(* more than large enough, but an earlier run left the profiles of its     *)
(* other contributors behind.                                              *)
MCTracked == {1, 2}
MCDev == {11, 12, 13}
MCRowsBefore ==
  LET links(r) == IF r = 1 THEN {11} ELSE MCDev
  IN [batch |-> (1 :> [at |-> 1, limit |-> 1]) @@ (2 :> [at |-> 1, limit |-> 3]),
      link |-> [r \in MCTracked |-> [d \in MCDev |-> IF d \in links(r) THEN 1 ELSE -1]],
      contributed |-> [r \in MCTracked |-> links(r) \X {1}],
      profile |-> [d \in MCDev |-> IF d = 11 THEN 1 ELSE -1],
      observed |-> [d \in MCDev |-> IF d = 11 THEN {1} ELSE {}],
      fetched |-> {}]

(* Both repositories; the second twice, with everything fetched again,     *)
(* also at the instant of an existing observation; and no contributors, of *)
(* a repository and of one that is not tracked.                            *)
MCRequests ==
  {[references |-> <<1, 2>>, limit |-> 2, fetchProfiles |-> TRUE, refreshAge |-> 1],
   [references |-> <<2, 2>>, limit |-> 2, fetchProfiles |-> TRUE, refreshAge |-> 0],
   [references |-> <<1, 3>>, limit |-> 0, fetchProfiles |-> FALSE, refreshAge |-> 1]}

(* Only an enrichment looks at its request; the others start with one.     *)
MCInit == ServiceInit /\ (kind # "enrich" => request.limit = 0)

MCSpec == MCInit /\ [][ServiceNext]_serviceVars /\ ServiceFairness
=============================================================================
