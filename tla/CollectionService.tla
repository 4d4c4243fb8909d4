-------------------------- MODULE CollectionService --------------------------
(***************************************************************************)
(* A run of any kind: CollectionService.run() is one function that keeps   *)
(* one receipt, and the kind decides which body it has: the enrichment     *)
(* that this module extends, a discovery or a refresh.                     *)
(***************************************************************************)
EXTENDS EnrichRun

CONSTANTS
  Cohort, SearchPerPage, Known, MaxCandidates, MaxNew,  \* of a discovery
  Observed, LastPoll, MinAge, MaxTargets                \* of a refresh

VARIABLES
  kind,
  cohort, found, remaining, pages, index, seen, duplicate,
  targets, target, latest

discovering == <<cohort, found, remaining, pages, index, seen, duplicate>>
refreshing == <<targets, target, latest>>
enriching == <<request, reference, seenRepos, seenProfiles, fetched, listed, queue, existing>>
serviceVars == <<kind, runVars, discovering, refreshing, enriching, now>>

D == INSTANCE DiscoverRun WITH PerPage <- SearchPerPage
R == INSTANCE RefreshRun WITH LastInstant <- LastPoll

ASSUME KindParameters == Parameters /\ D!Parameters /\ R!Parameters
---------------------------------------------------------------------------
ServiceInit ==
  /\ D!PlaceInit /\ R!PlaceInit /\ PlaceInit /\ request \in Requests
  /\ \/ kind = "discover" /\ RunInit(D!Empty, D!NoRows)
     \/ kind = "refresh" /\ RunInit(R!Empty, R!InitialRows)
     \/ kind = "enrich" /\ RunInit(Empty, RowsBefore)

Discovery == kind = "discover" /\ UNCHANGED <<kind, refreshing, enriching, now>>
Refresh == kind = "refresh" /\ UNCHANGED <<kind, discovering, enriching>>
Enrichment == kind = "enrich" /\ UNCHANGED <<kind, discovering, refreshing>>

ServiceStep ==
  \/ Discovery /\ D!RunStep
  \/ Refresh /\ R!RunStep
  \/ Enrichment /\ RunStep

ServiceDies ==
  \/ Discovery /\ D!Dies
  \/ Refresh /\ R!Dies
  \/ Enrichment /\ Dies

ServiceNext == ServiceStep \/ ServiceDies

ServiceSpec == ServiceInit /\ [][ServiceNext]_serviceVars

(* Every await of a run is bounded: HTTP by its timeouts and the run's     *)
(* deadline, database I/O by the driver's.                                 *)
ServiceFairness == WF_serviceVars(ServiceStep)
---------------------------------------------------------------------------
(* Each kind keeps its types.                                              *)
KindsAreTyped ==
  /\ kind = "discover" => D!TypeOK
  /\ kind = "refresh" => R!TypeOK
  /\ kind = "enrich" => TypeOK

(* Whatever was interrupted, the receipt counts exactly the rows that the  *)
(* run, of whichever kind, has committed.                                  *)
RowsAreCounted ==
  /\ kind = "discover" => D!ReceiptMatchesRows
  /\ kind = "refresh" => R!ReceiptMatchesRows
  /\ kind = "enrich" => ReceiptMatchesRows

(* "completed" is said only of a run that did all it was asked to do.      *)
CompletedIsDone ==
  /\ kind = "discover" => D!CompletedMeansDone
  /\ kind = "refresh" => R!CompletedMeansDone
  /\ kind = "enrich" => CompletedMeansDone

(* The limits of the reviewed plan bind a discovery in the middle of a     *)
(* cohort, too.                                                            *)
LimitsHold == kind = "discover" => D!LimitsHold

(* What is on record stays on record: a finished receipt, the counts of an *)
(* unfinished one, and the histories, which only grow at their ends.       *)
KindsKeepRecords ==
  /\ kind = "discover" => D!RecordsAreKept
  /\ kind = "refresh" => R!RecordsAreKept
  /\ kind = "enrich" => RecordsAreKept

EveryRecordIsKept == [][KindsKeepRecords]_serviceVars
=============================================================================
