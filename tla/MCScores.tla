------------------------------ MODULE MCScores ------------------------------
(***************************************************************************)
(* The scores in small instances: two repositories with three observations *)
(* each in any order, and two developers who contribute to two             *)
(* repositories.  The machines share no state: a behaviour moves one.      *)
(***************************************************************************)
EXTENDS RepositoryScores

CONSTANTS
  Developer, Source,         \* developers, and repositories they contribute to
  SourceOwner, SourceTopics, SourceDigests,
  SourceDay, Counts, Followers, MaxLinkObservations, MaxLinks

VARIABLES part, now, digest, links, seen, profile, since

people == <<now, digest, links, seen, profile, since>>

Said(stars, forks, pushed) == [stars |-> stars, forks |-> forks, pushed |-> pushed]
MCTopicsOf == [r \in Repo |-> IF r = 1 THEN {"go", "ml"} ELSE {"ml"}]
MCReading == {Said(100, 10, 80), Said(300, 40, 90), Said(0, 0, None)}

MCSourceOwner == [r \in Source |-> IF r = 2 THEN 1 ELSE None]
MCSourceTopics == [r \in Source |-> IF r = 1 THEN {"go"} ELSE {"ml"}]
MCSourceDigests == {[momentum |-> 1000, rising |-> FALSE], [momentum |-> None, rising |-> TRUE]}

D == INSTANCE DeveloperScores
       WITH Repo <- Source, Owner <- SourceOwner, TopicsOf <- SourceTopics, Digests <- SourceDigests,
            Day <- SourceDay, MaxObservations <- MaxLinkObservations

MCInit ==
  /\ part \in {"repositories", "developers"}
  /\ Init /\ D!Init
  /\ digest[1].rising /\ ~digest[2].rising

MCNext ==
  /\ UNCHANGED part
  /\ \/ part = "repositories" /\ Next /\ UNCHANGED people
     \/ part = "developers" /\ D!Next /\ UNCHANGED vars

MCSpec == MCInit /\ [][MCNext]_<<part, vars, people>>

GrowthIsEarned == part = "repositories" => ScoresAreEarned
ReportsAreEarned == part = "developers" => D!ReportsAreEarned
=============================================================================
