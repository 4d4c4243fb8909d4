------------------------------ MODULE EnrichRun ------------------------------
(***************************************************************************)
(* An enrichment run: for each repository asked for, its contributors are  *)
(* fetched as one batch, or reused while the last batch is fresh, and then *)
(* the profile of each contributor that is stale or was never fetched.     *)
(* The batch and each profile are committed on their own.  Instants stand  *)
(* for readings of a wall clock, which may stand still or be set back.     *)
(***************************************************************************)
EXTENDS CollectionRun, Integers, Sequences, FiniteSets, FiniteSetsExt

CONSTANTS
  Requests,    \* what the caller may ask for
  Tracked,     \* the tracked repositories
  Dev,         \* developers, numbered by falling contributions
  RowsBefore,  \* the committed rows before the run
  PerPage,     \* contributors per page
  LastInstant  \* bound: clock readings are in 0..LastInstant

Instant == 0..LastInstant
Never == -1

VARIABLES
  request,       \* what is asked for
  reference,     \* index of the reference being handled
  seenRepos,     \* repositories met
  seenProfiles,  \* developers met
  now,           \* the clock reading of the batch or profile
  fetched,       \* contributors read from the pages so far
  listed,        \* each repository's contributors as this run has them
  queue,         \* those whose profile is still to come; the least is next
  existing       \* whether that developer has an observation at this instant

place == <<reference, seenRepos, seenProfiles, now, fetched, listed, queue, existing>>
vars == <<runVars, request, place>>

(* The repositories asked for, in order and not all of them tracked, and   *)
(* contributors_limit, fetch_profiles and profile_refresh_days.            *)
References == request.references
Limit == request.limit
FetchProfiles == request.fetchProfiles
RefreshAge == request.refreshAge

Counters == {"batchesReused", "contributions", "profilesFetched", "profilesReused",
             "observations", "completed", "skipped", "failed"}
Empty == [c \in Counters |-> 0]
Checkpoints == {"batchsave", "profilesave", "profilefailsave", "failsave"}

(* The rows: the last batch of each repository and which contributors were *)
(* in it or in an earlier one, every observation of a contribution, and    *)
(* the profiles, their observations and which of them this run fetched.    *)
Rows ==
  [batch : [Tracked -> [at : Instant \cup {Never}, limit : Nat]],
   link : [Tracked -> [Dev -> Instant \cup {Never}]],
   contributed : [Tracked -> SUBSET (Dev \X Instant)],
   profile : [Dev -> Instant \cup {Never}],
   observed : [Dev -> SUBSET Instant],
   fetched : SUBSET Dev]

(* What options and settings are validated for.  A profile is stamped with *)
(* the instant of its last observation.                                    *)
Parameters ==
  /\ MaxRequests \in Nat /\ PerPage \in Nat /\ LastInstant \in Nat
  /\ IsFiniteSet(Tracked) /\ IsFiniteSet(Dev) /\ Dev \subseteq Nat
  /\ \A asked \in Requests :
       /\ Len(asked.references) \in Nat
       /\ DOMAIN asked.references = 1..Len(asked.references)
       /\ asked.limit \in Nat /\ asked.refreshAge \in Nat
       /\ asked.fetchProfiles \in BOOLEAN
  /\ RowsBefore \in Rows /\ RowsBefore.fetched = {}
  /\ \A d \in Dev : \A t \in RowsBefore.observed[d] : t <= RowsBefore.profile[d]

PlaceInit ==
  /\ reference = 1 /\ seenRepos = {} /\ seenProfiles = {}
  /\ now = 0 /\ fetched = 0 /\ existing = FALSE
  /\ listed = [r \in Tracked |-> {}] /\ queue = {}

Init == RunInit(Empty, RowsBefore) /\ PlaceInit /\ request \in Requests

Repo == References[reference]
InBody == pc = "body" /\ reference <= Len(References)

---------------------------------------------------------------------------
Start == Begin(Checkpoints, Empty) /\ UNCHANGED place

AllReferencesDone ==
  /\ pc = "body"
  /\ reference > Len(References)
  /\ pc' = "finish"
  /\ UNCHANGED <<receipt, store, memory, ending, place>>

(* "Repository is not tracked".                                            *)
NotTracked ==
  /\ InBody
  /\ Repo \notin Tracked
  /\ pc' = "failure"
  /\ UNCHANGED <<receipt, store, memory, ending, place>>

(* Two references, an ID and a name, may mean one repository.              *)
DuplicateReference ==
  /\ InBody
  /\ Repo \in seenRepos
  /\ report' = Count(report, {"skipped"})
  /\ queue' = {}
  /\ pc' = "batchsave"
  /\ UNCHANGED <<receipt, store, work, used, sent, http, stop, ending, reference,
                 seenRepos, seenProfiles, now, fetched, listed, existing>>

(* A batch is reused while it is young and if it covers the limit.         *)
Covered(rows, r) == rows.batch[r].limit >= Limit
Fresh(rows, r, t) ==
  /\ rows.batch[r].at # Never
  /\ rows.batch[r].at > t - RefreshAge
  /\ Covered(rows, r)

(* cached_contributors(): those of the last batch, most contributions first. *)
Cached(rows, r) ==
  LET last == {d \in Dev : rows.link[r][d] # Never /\ rows.link[r][d] = rows.batch[r].at}
  IN {d \in last : Cardinality({e \in last : e < d}) < Limit}

Enter(r, t) ==
  /\ InBody
  /\ r = Repo /\ r \in Tracked \ seenRepos
  /\ seenRepos' = seenRepos \cup {r}
  /\ now' = t
  /\ fetched' = 0

(* The contributors are known: what follows the batch's checkpoint.        *)
Listed(r, devs) ==
  /\ listed' = [listed EXCEPT ![r] = devs]
  /\ queue' = IF FetchProfiles THEN devs ELSE {}
  /\ pc' = "batchsave"

ReuseBatch(r, t) ==
  /\ Enter(r, t)
  /\ Fresh(work, r, t)
  /\ Listed(r, Cached(work, r))
  /\ report' = Count(report, {"batchesReused", "completed"})
  /\ UNCHANGED <<receipt, store, work, used, sent, http, stop, ending, reference,
                 seenProfiles, existing>>

NoBatchWanted(r, t) ==
  /\ Enter(r, t)
  /\ ~Fresh(work, r, t)
  /\ Limit = 0
  /\ Listed(r, {})
  /\ report' = Count(report, {"completed"})
  /\ UNCHANGED <<receipt, store, work, used, sent, http, stop, ending, reference,
                 seenProfiles, existing>>

FetchBatch(r, t) ==
  /\ Enter(r, t)
  /\ ~Fresh(work, r, t)
  /\ Limit > 0
  /\ pc' = "detail"
  /\ UNCHANGED <<receipt, store, memory, ending, reference, seenProfiles, listed,
                 queue, existing>>

---------------------------------------------------------------------------
(* HTTP: the repository's identity, a page of contributors, a profile.     *)
Fetching == pc \in {"detail", "contributors", "request"}

ChargeAttempt == Fetching /\ (Charge \/ ChargeRefused) /\ UNCHANGED place
ReserveAttempt == Reserve /\ UNCHANGED place
RetryAttempt == Retry /\ UNCHANGED place
LeaveAttempt == (Rejected \/ Interrupted) /\ UNCHANGED place

Answered(l) ==
  /\ http = "flight"
  /\ http' = "idle"
  /\ pc' = l
  /\ UNCHANGED <<receipt, store, used, sent, stop, ending>>

(* The name may belong to another repository by now.                       *)
IdentityArrives ==
  /\ pc = "detail"
  /\ Answered("contributors") \/ Answered("failure")
  /\ UNCHANGED <<work, report, place>>

(* A page of contributors; GitHub may repeat one of an earlier page.       *)
WithinLimit(page) == fetched + Cardinality(page) <= Limit

Pages == {page \in SUBSET Dev : Cardinality(page) <= PerPage /\ WithinLimit(page)}

MorePages(page) == Cardinality(page) = PerPage /\ fetched + PerPage < Limit

PageArrives ==
  /\ pc = "contributors"
  /\ \E page \in Pages :
       /\ MorePages(page)
       /\ fetched' = fetched + Cardinality(page)
       /\ listed' = [listed EXCEPT ![Repo] = @ \cup page]
  /\ Answered("contributors")
  /\ UNCHANGED <<work, report, reference, seenRepos, seenProfiles, now, queue, existing>>

(* sync_contributors(): links and observations, and the batch is marked.   *)
Synced(rows, r, devs) ==
  [rows EXCEPT !.batch[r] = [at |-> now, limit |-> Limit],
               !.link[r] = [d \in Dev |-> IF d \in devs THEN now ELSE @[d]],
               !.contributed[r] = @ \cup (devs \X {now})]

BatchCounted(rows, devs, r) ==
  [Count(report, {"completed"}) EXCEPT
     !.contributions = @ + Cardinality((devs \X {now}) \ rows.contributed[r])]

BatchArrives ==
  /\ pc = "contributors"
  /\ \E page \in Pages :
       LET devs == listed[Repo] \cup page
       IN /\ Listed(Repo, devs)
          /\ work' = Synced(work, Repo, devs)
          /\ report' = BatchCounted(work, devs, Repo)
  /\ Answered("batchsave")
  /\ UNCHANGED <<reference, seenRepos, seenProfiles, now, fetched, existing>>

---------------------------------------------------------------------------
(* Profiles.                                                               *)
NextReference == reference' = reference + 1 /\ queue' = {}
Contributor == Min(queue)

SeenProfile ==
  /\ pc = "profile" /\ queue # {}
  /\ Contributor \in seenProfiles
  /\ queue' = queue \ {Contributor}
  /\ UNCHANGED <<runVars, reference, seenRepos, seenProfiles, now, fetched, listed, existing>>

ProfilesDone ==
  /\ pc = "profile" /\ queue = {}
  /\ NextReference
  /\ pc' = "body"
  /\ UNCHANGED <<receipt, store, memory, ending, seenRepos, seenProfiles, now,
                 fetched, listed, existing>>

(* _needs_refresh().                                                       *)
NeedsRefresh(rows, d, t) == rows.profile[d] = Never \/ rows.profile[d] <= t - RefreshAge

NextProfile(d, t) ==
  /\ pc = "profile" /\ queue # {}
  /\ d = Contributor /\ d \notin seenProfiles
  /\ seenProfiles' = seenProfiles \cup {d}
  /\ now' = t
  /\ existing' = (t \in work.observed[d])
  /\ UNCHANGED <<receipt, store, work, used, sent, http, stop, ending, reference,
                 seenRepos, fetched, listed, queue>>

ReuseProfile(d, t) ==
  /\ NextProfile(d, t)
  /\ ~NeedsRefresh(work, d, t)
  /\ report' = Count(report, {"profilesReused", "completed"})
  /\ pc' = "profilesave"

FetchProfile(d, t) ==
  /\ NextProfile(d, t)
  /\ NeedsRefresh(work, d, t)
  /\ pc' = "request"
  /\ UNCHANGED report

(* sync_profile(), which updates the observation of the same instant.      *)
Profiled(rows, d) ==
  [rows EXCEPT !.profile[d] = now, !.observed[d] = @ \cup {now}, !.fetched = @ \cup {d}]

(* The login may belong to another developer by now.                       *)
OtherDeveloperArrives ==
  /\ pc = "request"
  /\ Answered("profilefailure")
  /\ UNCHANGED <<work, report, place>>

ProfileArrives ==
  /\ pc = "request"
  /\ work' = Profiled(work, Contributor)
  /\ report' = Count(report, {"profilesFetched", "completed"} \cup
                             (IF existing THEN {} ELSE {"observations"}))
  /\ Answered("profilesave")
  /\ UNCHANGED place

---------------------------------------------------------------------------
(* Failures.  One of a profile is noted for the profile and the next one   *)
(* follows; any other is noted for the reference.  A database error while  *)
(* the former is being noted becomes the latter.                           *)
OfProfile == pc \in {"profile", "request", "profilesave"}

OperationFails ==
  /\ \/ InBody
     \/ Fetching /\ http \in {"reserve", "flight"}
     \/ pc = "profile" /\ queue # {} /\ Contributor \notin seenProfiles
     \/ pc \in {"batchsave", "profilesave"}
  /\ http' = "idle"
  /\ pc' = IF OfProfile THEN "profilefailure" ELSE "failure"
  /\ seenRepos' \in IF InBody THEN {seenRepos, seenRepos \cup ({Repo} \cap Tracked)}
                              ELSE {seenRepos}
  /\ seenProfiles' = IF pc = "profile" THEN seenProfiles \cup {Contributor} ELSE seenProfiles
  /\ UNCHANGED <<receipt, store, work, report, used, sent, stop, ending, reference,
                 now, fetched, listed, queue, existing>>

Failure ==
  /\ pc \in {"failure", "profilefailure"}
  /\ Rollback({"failed"})
  /\ pc' = IF pc = "failure" THEN "failsave" ELSE "profilefailsave"
  /\ UNCHANGED <<receipt, store, used, sent, http, stop, ending, place>>

FailureFails ==
  /\ pc \in {"profilefailure", "profilefailsave"}
  /\ pc' = "failure"
  /\ UNCHANGED <<receipt, store, memory, ending, place>>

DatabaseError ==
  /\ pc \in {"failure", "failsave"}
  /\ StopWith("error")
  /\ UNCHANGED place

(* After a checkpoint: the contributors of the batch, the next one of      *)
(* them, or the next reference.                                            *)
Done ==
  /\ \/ pc = "batchsave" /\ Checkpoint("profile") /\ UNCHANGED <<reference, queue>>
     \/ /\ pc \in {"profilesave", "profilefailsave"}
        /\ Checkpoint("profile")
        /\ queue' = queue \ {Contributor} /\ UNCHANGED reference
     \/ pc = "failsave" /\ Checkpoint("body") /\ NextReference
  /\ UNCHANGED <<seenRepos, seenProfiles, now, fetched, listed, existing>>

---------------------------------------------------------------------------
Step ==
  \/ Start \/ AllReferencesDone \/ NotTracked \/ DuplicateReference
  \/ \E r \in Tracked, t \in Instant :
       ReuseBatch(r, t) \/ NoBatchWanted(r, t) \/ FetchBatch(r, t)
  \/ ChargeAttempt \/ ReserveAttempt \/ RetryAttempt \/ LeaveAttempt
  \/ IdentityArrives \/ PageArrives \/ BatchArrives
  \/ SeenProfile \/ ProfilesDone
  \/ \E d \in Dev, t \in Instant : ReuseProfile(d, t) \/ FetchProfile(d, t)
  \/ ProfileArrives \/ OtherDeveloperArrives
  \/ OperationFails \/ Failure \/ FailureFails \/ DatabaseError \/ Done
  \/ Unwind /\ UNCHANGED place
  \/ Finish(Checkpoints, Empty) /\ UNCHANGED place
  \/ Raises /\ UNCHANGED place

RunStep == Step /\ UNCHANGED request

Dies ==
  /\ \/ LoseOwnership(Checkpoints, Empty)
     \/ Crash(Checkpoints, Empty)
  /\ UNCHANGED <<request, place>>

Next == RunStep \/ Dies

Spec == Init /\ [][Next]_vars

---------------------------------------------------------------------------
(* Properties.                                                             *)

TypeOK ==
  /\ HasReceipt => /\ receipt.status \in {"running", "completed", "partial"}
                   /\ receipt.report \in [Counters -> Nat]
                   /\ receipt.requests \in 0..MaxRequests
  /\ reference \in 1..Len(References) + 1
  /\ seenRepos \subseteq Tracked /\ seenProfiles \subseteq Dev
  /\ now \in Instant /\ fetched \in 0..Limit /\ existing \in BOOLEAN
  /\ \A r \in Tracked : listed[r] \subseteq Dev /\ Cardinality(listed[r]) <= Limit
  /\ store \in Rows

(* The three counts of rows are the rows there are more than before the    *)
(* run, though a fetch may overwrite one of its instant and a failure may  *)
(* undo what was staged; nothing is there uncounted.                       *)
Contributions(rows) ==
  {x \in Tracked \X (Dev \X Instant) :
     x[2] \in rows.contributed[x[1]] \ RowsBefore.contributed[x[1]]}
Observations(rows) ==
  {x \in Dev \X Instant : x[2] \in rows.observed[x[1]] \ RowsBefore.observed[x[1]]}

ReceiptMatchesRows ==
  IF HasReceipt
  THEN /\ receipt.report.contributions = Cardinality(Contributions(store))
       /\ receipt.report.observations = Cardinality(Observations(store))
       /\ receipt.report.profilesFetched = Cardinality(store.fetched)
  ELSE store = RowsBefore

(* A completed enrichment has, of every repository asked for, a batch that *)
(* covers the limit, and of every contributor in it a profile, whether it  *)
(* was this reference or an earlier one that was to fetch it.              *)
CompletedMeansDone ==
  HasReceipt /\ receipt.status = "completed" =>
    \A i \in DOMAIN References :
      LET r == References[i]
      IN /\ r \in Tracked
         /\ Limit > 0 => store.batch[r].at # Never /\ store.batch[r].limit >= Limit
         /\ FetchProfiles => \A d \in listed[r] : store.profile[d] # Never

(* A clock that was set back makes nothing stale: no profile is observed   *)
(* before the newest observation of its developer, and no contribution     *)
(* before the last batch, unless that was too small and had to be fetched  *)
(* again.                                                                  *)
HistoryAdvances ==
  /\ \A d \in Dev : \A t \in store'.observed[d] \ store.observed[d] :
       \A s \in store.observed[d] : t >= s
  /\ \A r \in Tracked : \A x \in store'.contributed[r] \ store.contributed[r] :
       Covered(store, r) => x[2] >= store.batch[r].at

(* What is on record stays on record: a finished receipt, the counts of an *)
(* unfinished one, and the histories, which only grow at their ends.       *)
RecordsAreKept == FinalIsFinal /\ AccountGrows /\ HistoryAdvances
=============================================================================
