------------------------------- MODULE Records -------------------------------
(***************************************************************************)
(* What is stored of GitHub: which repository a row stands for, what the   *)
(* searches that find repositories read, in which order those that were    *)
(* found are polled, and what the polls leave in the observation log --    *)
(* under the collector's commands, or under discover() and update() too.   *)
(* The machines share no state: a behaviour moves one of them.             *)
(***************************************************************************)
EXTENDS Tracking, Sequences

CONSTANTS
  Item, Limit, PerPage, MaxCandidates, Moved,            \* Pagination
  Refreshed, Known, Fragile, MinAge, MaxTargets,         \* RefreshRotation
  Observed, Contributor, Topic, Counter, LastInstant, MaxRows, RefreshDays

VARIABLES
  part,
  listing, initial, cohort, most, page, got, pc, asked, examined,
  order, age, targets, running, broken, gap, tried,
  clock, snapshots, contributions, profiles, links, tags, fetched

reading == <<listing, initial, cohort, most, page, got, pc, asked, examined>>
rotating == <<order, age, targets, running, broken, gap, tried>>
log == <<clock, snapshots, contributions, profiles, links, tags, fetched>>
recordsVars == <<part, vars, reading, rotating, log>>

P == INSTANCE Pagination
R == INSTANCE RefreshRotation WITH Repo <- Refreshed
O == INSTANCE Observations WITH Repo <- Observed, Developer <- Contributor

ASSUME RecordsParameters == P!Parameters /\ R!Parameters /\ O!Parameters

RecordsInit ==
  /\ part \in {"names", "searches", "refreshes", "collector", "library"}
  /\ Init /\ P!Init /\ R!Init /\ O!Init

RecordsNext ==
  /\ UNCHANGED part
  /\ \/ part = "names" /\ Next /\ UNCHANGED <<reading, rotating, log>>
     \/ part = "searches" /\ P!Next /\ UNCHANGED <<vars, rotating, log>>
     \/ part = "refreshes" /\ R!Next /\ UNCHANGED <<vars, reading, log>>
     \/ part = "collector" /\ O!Collect /\ UNCHANGED <<vars, reading, rotating>>
     \/ part = "library" /\ O!Next /\ UNCHANGED <<vars, reading, rotating>>

RecordsSpec == RecordsInit /\ [][RecordsNext]_recordsVars

RecordsFairness ==
  \/ part = "names" /\ Fairness
  \/ part = "searches" /\ P!Fairness
  \/ part = "refreshes" /\ R!Fairness
  \/ part \in {"collector", "library"}

(* Tracking: no row holds what was observed of another repository.         *)
RowsAreTheirs == TypeOK /\ NoMixUp

(* Tracking: a row comes to have the name and the owner of its repository. *)
LinksCatchUp == part = "names" => NamesCatchUp /\ OwnersCatchUp

(* Pagination: what a search reads of a listing that shifts.               *)
SearchIsRead == P!SearchIsRead

(* RefreshRotation: who is polled, and in which order.                     *)
TakenInTurn == [](R!TypeOK /\ R!NoHurry) /\ [][R!NoOvertaking]_rotating

(* A search ends, and a repository that answers is polled for ever.        *)
NothingStalls ==
  /\ part = "searches" => P!ReadingEnds
  /\ part = "refreshes" => R!NobodyStarves

(* Observations: one observation of an instant, counts that were observed, *)
(* and one latest observation for all readers unless discover() and        *)
(* update() are used.                                                      *)
LogIsSound ==
  /\ O!TypeOK /\ O!LinksObserved
  /\ part = "collector" => O!LatestAgree

(* Observations: a history that stays, and an anchor that covers it.       *)
HistoryIsKept == [][O!HistoryUntouched /\ O!AnchorCovers]_log
=============================================================================
