---------------------- MODULE CollectionService_proofs ----------------------
(***************************************************************************)
(* The receipt of an enrichment counts the contributions, observations and *)
(* profiles that are committed, profiles and batches are not fetched again *)
(* at an earlier instant, and "completed" means that every repository has  *)
(* its batch and every contributor of it a profile, for every request,     *)
(* every answer of GitHub and every place where a run may be cut off.  The *)
(* last part is about a run of any kind, as CollectionService has it.      *)
(***************************************************************************)
EXTENDS CollectionService, CollectionRun_proofs, FiniteSetTheorems, WellFoundedInduction, TLAPS

InBatch == {"detail", "contributors"}
AtProfile == {"request", "profilesave", "profilefailure", "profilefailsave"}
AtContributors == {"batchsave", "profile"} \cup AtProfile
InHand == InBatch \cup AtContributors \cup {"failure", "failsave"}
Body == InHand \cup {"body"}
FetchPlaces == InBatch \cup {"request"}

---------------------------------------------------------------------------
(* Where the run stands among the repositories asked for and the           *)
(* contributors of the present one.                                        *)
PlaceInv ==
  /\ pc \in Special \cup Body
  /\ request \in Requests
  /\ reference \in 1..Len(References) + 1
  /\ pc = "start" => reference = 1 /\ seenRepos = {} /\ seenProfiles = {}
  /\ pc \in InHand => reference <= Len(References)
  /\ pc \in InBatch \cup AtContributors => Repo \in seenRepos
  /\ seenRepos \subseteq Tracked /\ seenProfiles \subseteq Dev
  /\ now \in Instant /\ existing \in BOOLEAN
  /\ queue \subseteq Dev
  /\ pc \in AtProfile => queue # {}

(* What is known of contributors stays within the limit, also while their  *)
(* pages arrive.                                                           *)
ListedInv ==
  /\ fetched \in 0..Limit
  /\ listed \in [Tracked -> SUBSET Dev]
  /\ \A r \in Tracked : /\ Cardinality(listed[r]) <= Limit
                        /\ r \notin seenRepos => listed[r] = {}
  /\ pc \in InBatch => Cardinality(listed[Repo]) <= fetched

(* Rows and the report that was counted with them.                         *)
Accounted(rows, r) ==
  /\ rows \in Rows
  /\ \A x \in Tracked : RowsBefore.contributed[x] \subseteq rows.contributed[x]
  /\ \A d \in Dev : RowsBefore.observed[d] \subseteq rows.observed[d]
  /\ \A d \in Dev : \A t \in rows.observed[d] : t <= rows.profile[d]
  /\ r.contributions = Cardinality(Contributions(rows))
  /\ r.observations = Cardinality(Observations(rows))
  /\ r.profilesFetched = Cardinality(rows.fetched)

Staging == {"batchsave", "profilesave", "failure", "profilefailure", "unwind", "end"}

RowsInv ==
  /\ Accounted(work, report)
  /\ HasReceipt => Accounted(store, receipt.report)
  /\ ~HasReceipt => store = RowsBefore
  /\ pc \notin Staging => work = store

(* What is fetched is fetched once, and nothing is staged before the end   *)
(* of a history.                                                           *)
Advanced(rows, from) ==
  /\ \A d \in Dev : \A t \in rows.observed[d] \ from.observed[d] :
       \A s \in from.observed[d] : t >= s
  /\ \A r \in Tracked : \A x \in rows.contributed[r] \ from.contributed[r] :
       Covered(from, r) => x[2] >= from.batch[r].at

AheadInv ==
  /\ work.fetched \subseteq seenProfiles /\ store.fetched \subseteq seenProfiles
  /\ pc = "request" =>
       /\ Contributor \in seenProfiles /\ Contributor \notin work.fetched
       /\ existing = (now \in work.observed[Contributor])
       /\ work.profile[Contributor] <= now
  /\ pc \in InBatch => (Covered(work, Repo) => now >= work.batch[Repo].at)
  /\ Advanced(work, store)

(* What has been handled is complete, unless something failed.             *)
StopInv ==
  /\ pc \notin {"unwind", "finish", "end"} => stop = "none"
  /\ pc = "unwind" => stop # "none"
  /\ pc \in {"failsave", "profilefailsave"} => report.failed > 0

Clean ==
  /\ pc \in ((Body \cup {"start", "finish"}) \ {"failure", "profilefailure", "failsave", "profilefailsave"})
  /\ stop = "none" /\ report.failed = 0

HasBatch(rows, r) ==
  Limit > 0 => rows.batch[r].at # Never /\ rows.batch[r].limit >= Limit
HasProfiles(rows, devs) ==
  FetchProfiles => \A d \in devs : rows.profile[d] # Never

Complete ==
  /\ \A i \in 1..reference - 1 : References[i] \in seenRepos
  /\ \A r \in seenRepos :
       pc \notin InHand \/ r # Repo => HasBatch(work, r) /\ HasProfiles(work, listed[r])
  /\ pc \in AtContributors => /\ HasBatch(work, Repo)
                              /\ HasProfiles(work, listed[Repo] \ queue)
  /\ \A d \in seenProfiles :
       pc # "request" \/ d # Contributor => work.profile[d] # Never
  /\ pc = "profilesave" => work.profile[Contributor] # Never
  /\ pc = "finish" => reference > Len(References)

CoverInv == StopInv /\ (Clean => Complete) /\ CompletedMeansDone

IInv ==
  /\ RunInv(Counters, FetchPlaces)
  /\ PlaceInv /\ ListedInv /\ RowsInv /\ AheadInv /\ CoverInv
---------------------------------------------------------------------------
(* A run keeps to the request it was started with.                         *)
LEMMA SameRequest ==
  ASSUME [Next]_vars
  PROVE request' = request /\ (UNCHANGED place => Repo' = Repo /\ Contributor' = Contributor)
  BY DEF Next, RunStep, Dies, vars, place, Repo, Contributor, References

(* Developers are numbers, so those in a queue have a least one.           *)
LEMMA LeastIs ==
  ASSUME Parameters, queue \subseteq Dev, queue # {}
  PROVE Contributor \in queue
<1>1. queue \subseteq Nat
  BY DEF Parameters
<1>2. \E m \in queue : \A k \in queue : <<k, m>> \notin OpToRel(<, Nat)
  BY <1>1, WFMin, NatLessThanWellFounded, Zenon
<1>3. PICK m \in queue : \A k \in queue : ~(k < m)
  BY <1>1, <1>2, Zenon DEF OpToRel
<1>4. \A k \in queue : m <= k
  BY <1>1, <1>3
<1> QED BY <1>3, <1>4 DEF Contributor, Min

(* cached_contributors() returns no more than it was asked for: whoever is *)
(* returned has fewer than that many before him, each another number.      *)
LEMMA CachedIs ==
  ASSUME Parameters, request \in Requests, NEW rows, NEW r
  PROVE Cached(rows, r) \subseteq Dev /\ Cardinality(Cached(rows, r)) <= Limit
<1> DEFINE last == {d \in Dev : rows.link[r][d] # Never /\ rows.link[r][d] = rows.batch[r].at}
           before(d) == {e \in last : e < d}
           S == {d \in last : Cardinality(before(d)) < Limit}
           rank == [d \in S |-> Cardinality(before(d))]
<1>1. Cached(rows, r) = S
  BY DEF Cached
<1>2. Limit \in Nat /\ last \subseteq Dev /\ Dev \subseteq Nat /\ IsFiniteSet(Dev)
  BY DEF Parameters, Limit
<1>3. IsFiniteSet(last)
  BY <1>2, FS_Subset
<1> HIDE DEF last
<1>4. \A d : before(d) \in SUBSET last /\ IsFiniteSet(before(d)) /\ Cardinality(before(d)) \in Nat
  BY <1>3, FS_Subset, FS_CardinalityType
<1>5. ASSUME NEW d \in S, NEW e \in S, d < e
      PROVE Cardinality(before(d)) # Cardinality(before(e))
  <2>1. d \in Nat /\ e \in Nat
    BY <1>2
  <2>2. before(d) \subseteq before(e)
    <3>1. \A c \in Nat : c < d => c < e
      BY <1>5, <2>1
    <3> QED BY <1>2, <3>1
  <2>3. d \in before(e) /\ d \notin before(d)
    BY <1>5, <2>1
  <2> HIDE DEF before
  <2> QED BY <1>4, <2>2, <2>3, FS_Subset
<1> HIDE DEF before
<1>6. rank \in [S -> 0..(Limit - 1)]
  BY <1>2, <1>4
<1>7. \A d, e \in S : rank[d] = rank[e] => d = e
  <2> SUFFICES ASSUME NEW d \in S, NEW e \in S, d # e PROVE rank[d] # rank[e]
    OBVIOUS
  <2>1. d \in Nat /\ e \in Nat
    BY <1>2
  <2>2. d < e \/ e < d
    BY <2>1
  <2> QED BY <1>5, <2>2
<1>8. rank \in Injection(S, 0..(Limit - 1))
  BY <1>6, <1>7 DEF Injection, IsInjective
<1>9. IsFiniteSet(0..(Limit - 1)) /\ Cardinality(0..(Limit - 1)) = Limit
  BY <1>2, FS_Interval
<1>10. Cardinality(S) <= Limit
  <2> HIDE DEF S, rank
  <2> QED BY <1>8, <1>9, FS_Injection
<1> QED BY <1>1, <1>2, <1>10

(* A batch is counted once, and its contributions are those of its instant *)
(* that were not there.                                                    *)
LEMMA BatchCounts ==
  ASSUME Parameters, report \in [Counters -> Nat], NEW rows, NEW devs \in SUBSET Dev, NEW r
  PROVE /\ Cardinality((devs \X {now}) \ rows.contributed[r]) \in Nat
        /\ BatchCounted(rows, devs, r) \in [Counters -> Nat]
        /\ BatchCounted(rows, devs, r).completed = report.completed + 1
        /\ BatchCounted(rows, devs, r).contributions
              = report.contributions + Cardinality((devs \X {now}) \ rows.contributed[r])
        /\ \A c \in Counters \ {"completed", "contributions"} :
             BatchCounted(rows, devs, r)[c] = report[c]
<1> DEFINE n == Cardinality((devs \X {now}) \ rows.contributed[r])
<1>1. IsFiniteSet(devs) /\ IsFiniteSet({now})
  BY FS_Subset, FS_Singleton DEF Parameters
<1>2. IsFiniteSet(devs \X {now})
  BY <1>1, FS_Product
<1>3. IsFiniteSet((devs \X {now}) \ rows.contributed[r])
  BY <1>2, FS_Difference
<1>4. n \in Nat
  BY <1>3, FS_CardinalityType
<1> DEFINE one == Count(report, {"completed"})
<1>5. one \in [Counters -> Nat]
  BY CountType
<1>6. \A c \in Counters : one[c] = IF c = "completed" THEN report[c] + 1 ELSE report[c]
  BY CountType
<1>7. BatchCounted(rows, devs, r) = [one EXCEPT !.contributions = one.contributions + n]
  BY DEF BatchCounted
<1> HIDE DEF n, one
<1>8. "contributions" \in Counters
  BY DEF Counters
<1>9. BatchCounted(rows, devs, r) \in [Counters -> Nat]
  BY <1>4, <1>5, <1>7, <1>8
<1>10. \A c \in Counters : BatchCounted(rows, devs, r)[c]
                              = IF c = "contributions" THEN one[c] + n ELSE one[c]
  BY <1>5, <1>7, <1>8
<1>11. "completed" \in Counters
  BY DEF Counters
<1> QED BY <1>4, <1>6, <1>8, <1>9, <1>10, <1>11 DEF n

(* A page adds at most as many contributors as are on it.                  *)
LEMMA MoreListed ==
  ASSUME Parameters, request \in Requests, NEW devs \in SUBSET Dev, NEW page \in SUBSET Dev,
         fetched \in Nat, Cardinality(devs) <= fetched, fetched + Cardinality(page) <= Limit
  PROVE /\ Cardinality(page) \in Nat
        /\ Cardinality(devs \cup page) <= fetched + Cardinality(page)
        /\ Cardinality(devs \cup page) <= Limit
<1>1. IsFiniteSet(devs) /\ IsFiniteSet(page)
  BY FS_Subset DEF Parameters
<1>2. IsFiniteSet(devs \cap page)
  BY <1>1, FS_Subset
<1>3. /\ Cardinality(devs) \in Nat /\ Cardinality(page) \in Nat
      /\ Cardinality(devs \cap page) \in Nat
  BY <1>1, <1>2, FS_CardinalityType
<1>4. Cardinality(devs \cup page)
        = Cardinality(devs) + Cardinality(page) - Cardinality(devs \cap page)
  BY <1>1, FS_Union
<1>5. Limit \in Nat
  BY DEF Parameters, Limit
<1> QED BY <1>3, <1>4, <1>5

(* The batch that arrives with the last page is within the limit.          *)
LEMMA BatchIs ==
  ASSUME Parameters, PlaceInv, ListedInv, BatchArrives
  PROVE /\ pc = "contributors" /\ pc' = "batchsave" /\ Repo \in Tracked
        /\ UNCHANGED <<receipt, store, reference, seenRepos, seenProfiles, now, fetched>>
        /\ \E devs \in SUBSET Dev :
             /\ Cardinality(devs) <= Limit
             /\ Listed(Repo, devs)
             /\ work' = Synced(work, Repo, devs)
             /\ report' = BatchCounted(work, devs, Repo)
<1>1. /\ pc = "contributors" /\ pc' = "batchsave"
      /\ UNCHANGED <<receipt, store, reference, seenRepos, seenProfiles, now, fetched>>
  BY DEF BatchArrives, Answered
<1>2. Repo \in Tracked /\ request \in Requests /\ Limit \in Nat /\ fetched \in Nat
      /\ listed[Repo] \subseteq Dev /\ Cardinality(listed[Repo]) <= fetched
  BY <1>1 DEF PlaceInv, ListedInv, InBatch, Parameters, Limit
<1>3. PICK page \in Pages :
        /\ Listed(Repo, listed[Repo] \cup page)
        /\ work' = Synced(work, Repo, listed[Repo] \cup page)
        /\ report' = BatchCounted(work, listed[Repo] \cup page, Repo)
  BY DEF BatchArrives
<1>4. page \subseteq Dev /\ fetched + Cardinality(page) <= Limit
  BY DEF Pages, WithinLimit
<1>5. Cardinality(listed[Repo] \cup page) <= Limit
  BY <1>2, <1>4, MoreListed
<1> QED BY <1>1, <1>2, <1>3, <1>4, <1>5

---------------------------------------------------------------------------
(* An enrichment is a kind of run as CollectionRun_proofs has it.          *)
LEMMA EnrichIsKind ==
  ASSUME Parameters
  PROVE KindOK(Counters, Empty, Checkpoints, FetchPlaces)
  BY DEF Parameters, KindOK, Empty, Checkpoints, FetchPlaces, InBatch, Special

(* Every step of an enrichment is one that any run may take.               *)
LEMMA StepsAreMoves ==
  ASSUME Parameters, RunInv(Counters, FetchPlaces), PlaceInv, ListedInv, [Next]_vars
  PROVE RunMove(Counters, Empty, Checkpoints, FetchPlaces) \/ UNCHANGED runVars
<1> DEFINE Resting == BodyMove(Counters, FetchPlaces)
           Between == /\ pc \notin Special /\ pc' \notin {"start", "unwind", "end"}
                      /\ UNCHANGED <<receipt, store, used, sent, stop, ending>>
                      /\ http' \in {http, "idle"}
                      /\ http' # "idle" => pc' \in FetchPlaces
<1>1. /\ http \in {"idle", "reserve", "flight"}
      /\ http # "idle" => pc \in FetchPlaces
      /\ http # "idle" => pc \notin Special
  BY DEF RunInv, TypesKept, PlacesKept, FetchPlaces, InBatch, Special
<1>2. ASSUME Between, UNCHANGED report PROVE Resting
  BY <1>2, CountingOn DEF BodyMove
<1>3. ASSUME Between, \E cs : report' = Count(report, cs) \/ report' = Count(receipt.report, cs)
      PROVE Resting
  <2>1. PICK cs : report' = Count(report, cs) \/ report' = Count(receipt.report, cs)
    BY <1>3
  <2> QED BY <1>3, <2>1, CountingOn DEF BodyMove
<1>4. CASE AllReferencesDone \/ NotTracked \/ SeenProfile \/ ProfilesDone \/ FailureFails
  <2>1. Between /\ UNCHANGED report
    BY <1>1, <1>4 DEF AllReferencesDone, NotTracked, InBody, SeenProfile, ProfilesDone, FailureFails,
       memory, runVars, Special, FetchPlaces, InBatch
  <2> QED BY <1>2, <2>1 DEF RunMove
<1>5. CASE \/ \E r \in Tracked, t \in Instant : FetchBatch(r, t)
           \/ \E d \in Dev, t \in Instant : FetchProfile(d, t)
  <2>1. Between /\ UNCHANGED report
    BY <1>1, <1>5 DEF FetchBatch, Enter, InBody, FetchProfile, NextProfile, memory, Special,
       FetchPlaces, InBatch
  <2> QED BY <1>2, <2>1 DEF RunMove
<1>6. CASE IdentityArrives \/ PageArrives \/ OtherDeveloperArrives \/ OperationFails
  <2>1. Between /\ UNCHANGED report
    BY <1>1, <1>6 DEF IdentityArrives, PageArrives, OtherDeveloperArrives, Answered, OperationFails,
       InBody, Fetching, OfProfile, Special, FetchPlaces, InBatch
  <2> QED BY <1>2, <2>1 DEF RunMove
<1>7. CASE \/ DuplicateReference
           \/ \E r \in Tracked, t \in Instant : ReuseBatch(r, t) \/ NoBatchWanted(r, t)
           \/ \E d \in Dev, t \in Instant : ReuseProfile(d, t)
  <2>1. Between /\ \E cs : report' = Count(report, cs)
    BY <1>1, <1>7 DEF DuplicateReference, ReuseBatch, NoBatchWanted, Enter, Listed, InBody,
       ReuseProfile, NextProfile, Special, FetchPlaces, InBatch
  <2> QED BY <1>3, <2>1 DEF RunMove
<1>8. CASE ProfileArrives \/ Failure
  <2>1. Between
    BY <1>1, <1>8 DEF ProfileArrives, Answered, Failure, Special, FetchPlaces, InBatch
  <2>2. \E cs : report' = Count(report, cs) \/ report' = Count(receipt.report, cs)
    BY <1>8 DEF ProfileArrives, Failure, Rollback
  <2> QED BY <1>3, <2>1, <2>2 DEF RunMove
<1>9. CASE BatchArrives
  <2>1. Between
    BY <1>1, <1>9 DEF BatchArrives, Answered, Listed, Special, FetchPlaces, InBatch
  <2>2. PICK devs \in SUBSET Dev : report' = BatchCounted(work, devs, Repo)
    BY <1>9, BatchIs
  <2>3. report \in [Counters -> Nat] /\ HasReceipt
        /\ \A c \in Counters : report[c] >= receipt.report[c]
        /\ receipt.report \in [Counters -> Nat]
    BY <2>1, CountingOn
  <2>4. /\ report' \in [Counters -> Nat]
        /\ \A c \in Counters : report'[c] >= report[c]
    <3> DEFINE n == Cardinality((devs \X {now}) \ work.contributed[Repo])
    <3>1. /\ n \in Nat /\ report' \in [Counters -> Nat]
          /\ report'.completed = report.completed + 1
          /\ report'.contributions = report.contributions + n
          /\ \A c \in Counters \ {"completed", "contributions"} : report'[c] = report[c]
      <4>1. report \in [Counters -> Nat] /\ devs \in SUBSET Dev
        BY <2>2, <2>3
      <4>2. LET counted == BatchCounted(work, devs, Repo)
            IN /\ n \in Nat /\ counted \in [Counters -> Nat]
               /\ counted.completed = report.completed + 1
               /\ counted.contributions = report.contributions + n
               /\ \A c \in Counters \ {"completed", "contributions"} : counted[c] = report[c]
        BY <4>1, BatchCounts
      <4> QED BY <2>2, <4>2
    <3> HIDE DEF n
    <3>2. \A c \in Counters : report[c] \in Nat
      BY <2>3
    <3> QED BY <3>1, <3>2
  <2>5. \A c \in Counters : report'[c] >= receipt.report[c]
    BY <2>3, <2>4
  <2> QED BY <2>1, <2>4, <2>5 DEF BodyMove, RunMove
<1>10. CASE Done
  BY <1>10 DEF Done, Checkpoint, RunMove, CheckpointMove, Checkpoints, Special
<1>11. CASE ChargeAttempt
  <2>1. CASE Charge
    BY <1>11, <2>1 DEF ChargeAttempt, Fetching, RunMove, ChargeMove, FetchPlaces, InBatch
  <2>2. CASE ChargeRefused
    BY <1>11, <2>2 DEF ChargeAttempt, Fetching, ChargeRefused, RunMove, StopMove, Reasons, Special
  <2> QED BY <1>11, <2>1, <2>2 DEF ChargeAttempt
<1>12. CASE ReserveAttempt \/ RetryAttempt
  BY <1>12 DEF ReserveAttempt, RetryAttempt, RunMove
<1>13. CASE LeaveAttempt
  BY <1>1, <1>13 DEF LeaveAttempt, Rejected, Interrupted, RunMove, StopMove, Reasons
<1>14. CASE DatabaseError
  BY <1>14 DEF DatabaseError, RunMove, StopMove, Reasons, Special
<1>15. CASE \/ Start \/ Dies
            \/ (Unwind \/ Finish(Checkpoints, Empty) \/ Raises) /\ UNCHANGED place
  BY <1>15 DEF Start, Dies, RunMove
<1>16. CASE UNCHANGED vars
  BY <1>16 DEF vars
<1> QED BY <1>4, <1>5, <1>6, <1>7, <1>8, <1>9, <1>10, <1>11, <1>12, <1>13, <1>14, <1>15, <1>16
        DEF Next, RunStep, Step
---------------------------------------------------------------------------
(* The repositories are taken in order, and each contributor that is       *)
(* handled comes from the queue.                                           *)
LEMMA PlaceKept ==
  ASSUME Parameters, RunInv(Counters, FetchPlaces), PlaceInv, ListedInv, [Next]_vars
  PROVE PlaceInv'
<1> DEFINE Stays ==
      /\ UNCHANGED <<reference, seenRepos, seenProfiles, now, existing, queue>>
      /\ pc' \in Special \cup Body
      /\ pc' = "start" => pc = "start"
      /\ pc' \in InHand => pc \in InHand \/ reference <= Len(References)
      /\ pc' \in InBatch \cup AtContributors => pc \in InBatch \cup AtContributors
      /\ pc' \in AtProfile => pc \in AtProfile
<1>1. /\ http \in {"idle", "reserve", "flight"}
      /\ http # "idle" => pc \in FetchPlaces
      /\ pc \in Special \cup Body
      /\ Len(References) \in Nat /\ Len(References) = Len(References)'
      /\ reference \in Nat /\ reference <= Len(References) + 1 /\ reference >= 1
      /\ request' = request /\ request' \in Requests /\ References' = References
  BY SameRequest DEF RunInv, TypesKept, PlacesKept, PlaceInv, Parameters, References
<1>2. CASE Stays
  <2>1. Repo' = Repo
    BY <1>1, <1>2 DEF Repo
  <2> QED BY <1>1, <1>2, <2>1 DEF PlaceInv
<1>3. CASE \/ Start \/ AllReferencesDone \/ NotTracked \/ IdentityArrives \/ PageArrives
           \/ OtherDeveloperArrives \/ ProfileArrives
  <2>1. Stays
    BY <1>1, <1>3 DEF Start, Begin, AllReferencesDone, NotTracked, InBody, IdentityArrives, PageArrives,
       OtherDeveloperArrives, ProfileArrives, Answered, memory, place,
       Special, Body, InHand, InBatch, AtContributors, AtProfile
  <2> QED BY <1>2, <2>1
<1>4. CASE \/ ChargeAttempt \/ ReserveAttempt \/ RetryAttempt \/ LeaveAttempt
  <2>1. Stays
    BY <1>1, <1>4 DEF ChargeAttempt, Charge, ChargeRefused, Fetching, ReserveAttempt, Reserve,
       RetryAttempt, Retry, LeaveAttempt, Rejected, Interrupted, StopWith, place,
       Special, Body, InHand, InBatch, AtContributors, AtProfile
  <2> QED BY <1>2, <2>1
<1>5. CASE \/ Failure \/ FailureFails \/ DatabaseError \/ Dies \/ UNCHANGED vars
           \/ (Unwind \/ Finish(Checkpoints, Empty) \/ Raises) /\ UNCHANGED place
  <2>1. Stays
    BY <1>1, <1>5 DEF Failure, FailureFails, DatabaseError, StopWith, Dies, LoseOwnership, Crash, Vanish,
       Unwind, Finish, Raises, vars, runVars, memory, place,
       Special, Body, InHand, InBatch, AtContributors, AtProfile
  <2> QED BY <1>2, <2>1
<1>6. CASE DuplicateReference
  <2>1. /\ UNCHANGED <<reference, seenRepos, seenProfiles, now, existing>>
        /\ pc' = "batchsave" /\ queue' = {} /\ Repo \in seenRepos /\ reference <= Len(References)
    BY <1>6 DEF DuplicateReference, InBody
  <2>2. Repo' = Repo
    BY <1>1, <2>1 DEF Repo
  <2> QED BY <1>1, <2>1, <2>2 DEF PlaceInv, Body, InHand, AtContributors, AtProfile
<1>7. ASSUME NEW r \in Tracked, NEW t \in Instant,
             ReuseBatch(r, t) \/ NoBatchWanted(r, t) \/ FetchBatch(r, t)
      PROVE PlaceInv'
  <2>1. /\ UNCHANGED <<reference, seenProfiles, existing>> /\ now' = t
        /\ seenRepos' = seenRepos \cup {r} /\ r = Repo /\ reference <= Len(References)
        /\ pc' \in {"batchsave", "detail"}
    BY <1>7 DEF ReuseBatch, NoBatchWanted, FetchBatch, Enter, InBody, Listed
  <2>2. queue' \subseteq Dev
    BY <1>7, CachedIs DEF ReuseBatch, NoBatchWanted, FetchBatch, Listed, PlaceInv
  <2>3. Repo' = Repo
    BY <1>1, <2>1 DEF Repo
  <2> QED BY <1>1, <1>7, <2>1, <2>2, <2>3 DEF PlaceInv, Body, InHand, InBatch, AtContributors, AtProfile
<1>8. CASE BatchArrives
  <2>1. /\ UNCHANGED <<reference, seenRepos, seenProfiles, now, existing>>
        /\ pc = "contributors" /\ pc' = "batchsave"
    BY <1>8 DEF BatchArrives, Answered
  <2>2. queue' \subseteq Dev
    BY <1>8, BatchIs DEF Listed
  <2>3. Repo' = Repo
    BY <1>1, <2>1 DEF Repo
  <2> QED BY <1>1, <2>1, <2>2, <2>3 DEF PlaceInv, Body, InHand, InBatch, AtContributors, AtProfile
<1>9. CASE SeenProfile
  <2>1. /\ UNCHANGED <<reference, seenRepos, seenProfiles, now, existing, pc>>
        /\ pc = "profile" /\ queue' \subseteq queue
    BY <1>9 DEF SeenProfile, runVars
  <2>2. Repo' = Repo
    BY <1>1, <2>1 DEF Repo
  <2> QED BY <1>1, <2>1, <2>2 DEF PlaceInv, AtProfile
<1>10. CASE ProfilesDone
  <2>1. /\ UNCHANGED <<seenRepos, seenProfiles, now, existing>> /\ reference' = reference + 1
        /\ pc = "profile" /\ pc' = "body" /\ queue' = {}
    BY <1>10 DEF ProfilesDone, NextReference
  <2>2. reference <= Len(References)
    BY <2>1 DEF PlaceInv, InHand, AtContributors
  <2> QED BY <1>1, <2>1, <2>2 DEF PlaceInv, Body, InHand, InBatch, AtContributors, AtProfile
<1>11. ASSUME NEW d \in Dev, NEW t \in Instant, ReuseProfile(d, t) \/ FetchProfile(d, t)
       PROVE PlaceInv'
  <2>0. existing' \in BOOLEAN
    <3>1. NextProfile(d, t)
      BY <1>11 DEF ReuseProfile, FetchProfile
    <3>2. existing' = (t \in work.observed[d])
      BY <3>1 DEF NextProfile
    <3>3. (t \in work.observed[d]) \in BOOLEAN
      BY SMT
    <3> QED BY <3>2, <3>3, Zenon
  <2>1. /\ UNCHANGED <<reference, seenRepos, queue>> /\ now' = t
        /\ seenProfiles' = seenProfiles \cup {d} /\ queue # {}
        /\ pc = "profile" /\ pc' \in {"profilesave", "request"}
    BY <1>11 DEF ReuseProfile, FetchProfile, NextProfile
  <2>2. Repo' = Repo
    BY <1>1, <2>1 DEF Repo
  <2> QED BY <1>1, <1>11, <2>0, <2>1, <2>2 DEF PlaceInv, Body, InHand, InBatch, AtContributors, AtProfile
<1>12. CASE OperationFails
  <2>1. /\ UNCHANGED <<reference, now, existing, queue>>
        /\ pc' = IF pc \in {"profile", "request", "profilesave"} THEN "profilefailure" ELSE "failure"
        /\ pc \in {"request", "profilesave", "profile"} => queue # {}
        /\ pc \in InHand \cup {"body"} /\ reference <= Len(References)
    BY <1>12 DEF OperationFails, OfProfile, InBody, Fetching, PlaceInv, InHand, InBatch,
       AtContributors, AtProfile
  <2>2. seenRepos' \subseteq Tracked /\ seenRepos \subseteq seenRepos'
    BY <1>12 DEF OperationFails, PlaceInv
  <2>3. seenProfiles' \subseteq Dev
    <3>1. CASE pc = "profile"
      <4>1. queue # {} /\ queue \subseteq Dev
        BY <2>1, <3>1 DEF PlaceInv
      <4>2. Contributor \in Dev
        BY <4>1, LeastIs
      <4> QED BY <1>12, <4>2 DEF OperationFails, PlaceInv
    <3>2. CASE pc # "profile"
      BY <1>12, <3>2 DEF OperationFails, PlaceInv
    <3> QED BY <3>1, <3>2
  <2>4. Repo' = Repo
    BY <1>1, <2>1 DEF Repo
  <2> QED BY <1>1, <2>1, <2>2, <2>3, <2>4 DEF PlaceInv, Body, InHand, InBatch, AtContributors, AtProfile
<1>13. CASE Done
  <2>1. UNCHANGED <<seenRepos, seenProfiles, now, existing>>
    BY <1>13 DEF Done
  <2>2. CASE pc \in {"batchsave", "profilesave", "profilefailsave"}
    <3>1. UNCHANGED reference /\ pc' = "profile" /\ queue' \subseteq queue
      BY <1>13, <2>2 DEF Done, Checkpoint
    <3>2. Repo' = Repo
      BY <1>1, <3>1 DEF Repo
    <3> QED BY <1>1, <2>1, <2>2, <3>1, <3>2 DEF PlaceInv, Body, InHand, InBatch, AtContributors, AtProfile
  <2>3. CASE pc = "failsave"
    <3>1. reference' = reference + 1 /\ pc' = "body" /\ queue' = {}
      BY <1>13, <2>3 DEF Done, Checkpoint, NextReference
    <3>2. reference <= Len(References)
      BY <2>3 DEF PlaceInv, InHand
    <3> QED BY <1>1, <2>1, <3>1, <3>2 DEF PlaceInv, Body, InHand, InBatch, AtContributors, AtProfile
  <2> QED BY <1>13, <2>2, <2>3 DEF Done
<1> QED BY <1>3, <1>4, <1>5, <1>6, <1>7, <1>8, <1>9, <1>10, <1>11, <1>12, <1>13 DEF Next, RunStep, Step

(* Neither a reused batch nor the pages of a new one go over the limit.    *)
LEMMA ListedKept ==
  ASSUME Parameters, RunInv(Counters, FetchPlaces), PlaceInv, ListedInv, [Next]_vars
  PROVE ListedInv'
<1>1. /\ http \in {"idle", "reserve", "flight"}
      /\ http # "idle" => pc \in FetchPlaces
      /\ request' = request /\ request \in Requests /\ Limit' = Limit
      /\ Limit \in Nat /\ fetched \in Nat /\ fetched <= Limit
      /\ reference' = reference => Repo' = Repo
  BY SameRequest DEF RunInv, TypesKept, PlacesKept, PlaceInv, ListedInv, Parameters, Limit, Repo, References
<1> DEFINE Stays ==
      /\ UNCHANGED <<listed, fetched>> /\ seenRepos \subseteq seenRepos'
      /\ pc' \in InBatch => pc \in InBatch /\ UNCHANGED reference
<1>2. CASE Stays
  BY <1>1, <1>2 DEF ListedInv
<1>3. CASE \/ Start \/ AllReferencesDone \/ NotTracked \/ IdentityArrives
           \/ OtherDeveloperArrives \/ ProfileArrives \/ DuplicateReference \/ SeenProfile
  <2>1. Stays
    BY <1>1, <1>3 DEF Start, Begin, AllReferencesDone, NotTracked, IdentityArrives,
       OtherDeveloperArrives, ProfileArrives, DuplicateReference, SeenProfile, Answered,
       memory, runVars, place, InBatch
  <2> QED BY <1>2, <2>1
<1>4. CASE \/ ChargeAttempt \/ ReserveAttempt \/ RetryAttempt \/ LeaveAttempt
  <2>1. Stays
    BY <1>1, <1>4 DEF ChargeAttempt, Charge, ChargeRefused, Fetching, ReserveAttempt, Reserve,
       RetryAttempt, Retry, LeaveAttempt, Rejected, Interrupted, StopWith, place, InBatch
  <2> QED BY <1>2, <2>1
<1>5. CASE \/ Failure \/ FailureFails \/ DatabaseError \/ Dies \/ UNCHANGED vars
           \/ (Unwind \/ Finish(Checkpoints, Empty) \/ Raises) /\ UNCHANGED place
  <2>1. Stays
    BY <1>1, <1>5 DEF Failure, FailureFails, DatabaseError, StopWith, Dies, LoseOwnership, Crash, Vanish,
       Unwind, Finish, Raises, vars, runVars, memory, place, InBatch
  <2> QED BY <1>2, <2>1
<1>6. CASE ProfilesDone \/ OperationFails \/ Done
  <2>1. /\ UNCHANGED <<listed, fetched>> /\ seenRepos \subseteq seenRepos'
        /\ pc' \in {"body", "profile", "failure", "profilefailure"}
    BY <1>6 DEF ProfilesDone, OperationFails, Done, Checkpoint
  <2> QED BY <1>2, <2>1 DEF InBatch
<1>7. ASSUME NEW d \in Dev, NEW t \in Instant, ReuseProfile(d, t) \/ FetchProfile(d, t)
      PROVE ListedInv'
  <2>1. UNCHANGED <<listed, fetched, seenRepos>> /\ pc' \in {"profilesave", "request"}
    BY <1>7 DEF ReuseProfile, FetchProfile, NextProfile
  <2> QED BY <1>2, <2>1 DEF InBatch
<1>8. ASSUME NEW r \in Tracked, NEW devs \in SUBSET Dev, Cardinality(devs) <= Limit,
             listed' = [listed EXCEPT ![r] = devs],
             fetched' \in 0..Limit, seenRepos' = seenRepos \cup {r}, pc' \notin InBatch
      PROVE ListedInv'
  <2>1. listed' \in [Tracked -> SUBSET Dev]
    BY <1>8 DEF ListedInv
  <2>2. \A x \in Tracked : listed'[x] = IF x = r THEN devs ELSE listed[x]
    BY <1>8 DEF ListedInv
  <2> QED BY <1>1, <1>8, <2>1, <2>2 DEF ListedInv
<1>9. ASSUME NEW r \in Tracked, NEW t \in Instant, ReuseBatch(r, t) \/ NoBatchWanted(r, t)
      PROVE ListedInv'
  <2>1. /\ fetched' = 0 /\ seenRepos' = seenRepos \cup {r} /\ pc' = "batchsave"
        /\ listed' = [listed EXCEPT ![r] = Cached(work, r)]
             \/ listed' = [listed EXCEPT ![r] = {}]
    BY <1>9 DEF ReuseBatch, NoBatchWanted, Enter, Listed
  <2>2. Cached(work, r) \subseteq Dev /\ Cardinality(Cached(work, r)) <= Limit
    BY <1>1, CachedIs
  <2>3. {} \in SUBSET Dev /\ Cardinality({}) <= Limit
    BY <1>1, FS_EmptySet
  <2>4. fetched' \in 0..Limit /\ pc' \notin InBatch
    BY <1>1, <2>1 DEF InBatch
  <2>5. CASE listed' = [listed EXCEPT ![r] = Cached(work, r)]
    BY <1>8, <2>1, <2>2, <2>4, <2>5
  <2>6. CASE listed' = [listed EXCEPT ![r] = {}]
    BY <1>8, <2>1, <2>3, <2>4, <2>6
  <2> QED BY <2>1, <2>5, <2>6
<1>10. ASSUME NEW r \in Tracked, NEW t \in Instant, FetchBatch(r, t) PROVE ListedInv'
  <2>1. /\ UNCHANGED listed /\ fetched' = 0 /\ seenRepos' = seenRepos \cup {r}
        /\ r = Repo /\ r \notin seenRepos /\ UNCHANGED reference
    BY <1>10 DEF FetchBatch, Enter
  <2>2. Cardinality(listed[r]) = 0
    BY <2>1, FS_EmptySet DEF ListedInv
  <2> QED BY <1>1, <2>1, <2>2 DEF ListedInv
<1>11. CASE PageArrives
  <2>1. PICK page \in Pages :
          /\ fetched' = fetched + Cardinality(page)
          /\ listed' = [listed EXCEPT ![Repo] = @ \cup page]
    BY <1>11 DEF PageArrives
  <2>2. /\ pc = "contributors" /\ UNCHANGED <<reference, seenRepos>>
    BY <1>11 DEF PageArrives
  <2>3. Repo \in Tracked /\ Repo \in seenRepos /\ Repo' = Repo
    BY <1>1, <2>2 DEF PlaceInv, InBatch
  <2>4. listed[Repo] \in SUBSET Dev /\ Cardinality(listed[Repo]) <= fetched
    BY <2>2, <2>3 DEF ListedInv, InBatch
  <2>5. page \in SUBSET Dev /\ fetched + Cardinality(page) <= Limit
    BY DEF Pages, WithinLimit
  <2>6. /\ Cardinality(page) \in Nat
        /\ Cardinality(listed[Repo] \cup page) <= fetched + Cardinality(page)
        /\ Cardinality(listed[Repo] \cup page) <= Limit
    BY <1>1, <2>4, <2>5, MoreListed
  <2>7. listed' \in [Tracked -> SUBSET Dev]
    BY <2>1, <2>3, <2>5 DEF ListedInv
  <2>8. \A x \in Tracked : listed'[x] = IF x = Repo THEN listed[Repo] \cup page ELSE listed[x]
    BY <2>1, <2>3 DEF ListedInv
  <2>9. fetched' \in 0..Limit
    BY <1>1, <2>1, <2>5, <2>6
  <2> QED BY <1>1, <2>1, <2>2, <2>3, <2>6, <2>7, <2>8, <2>9 DEF ListedInv
<1>12. CASE BatchArrives
  <2>1. /\ pc' = "batchsave" /\ Repo \in Tracked /\ UNCHANGED <<seenRepos, fetched>>
        /\ pc = "contributors"
        /\ \E devs \in SUBSET Dev : Cardinality(devs) <= Limit /\ Listed(Repo, devs)
    BY <1>12, BatchIs
  <2>2. Repo \in seenRepos
    BY <2>1 DEF PlaceInv, InBatch
  <2>3. seenRepos' = seenRepos \cup {Repo} /\ fetched' \in 0..Limit
    BY <1>1, <2>1, <2>2
  <2> QED BY <1>8, <2>1, <2>3 DEF Listed, InBatch
<1> QED BY <1>3, <1>4, <1>5, <1>6, <1>7, <1>9, <1>10, <1>11, <1>12 DEF Next, RunStep, Step
---------------------------------------------------------------------------
(* The batch as sync_contributors() stages it.                             *)
SyncedOf(after, rows, r, devs) ==
  /\ after \in Rows
  /\ \A x \in Tracked :
       /\ after.batch[x] = IF x = r THEN [at |-> now, limit |-> Limit] ELSE rows.batch[x]
       /\ after.contributed[x] = IF x = r THEN rows.contributed[x] \cup (devs \X {now})
                                          ELSE rows.contributed[x]
  /\ after.profile = rows.profile /\ after.observed = rows.observed
  /\ after.fetched = rows.fetched

LEMMA SyncedIs ==
  ASSUME NEW rows \in Rows, NEW r \in Tracked, NEW devs \in SUBSET Dev,
         now \in Instant, Limit \in Nat
  PROVE SyncedOf(Synced(rows, r, devs), rows, r, devs)
<1>1. PICK B \in [Tracked -> [at : Instant \cup {Never}, limit : Nat]],
           L \in [Tracked -> [Dev -> Instant \cup {Never}]],
           C \in [Tracked -> SUBSET (Dev \X Instant)],
           P \in [Dev -> Instant \cup {Never}], O \in [Dev -> SUBSET Instant], F \in SUBSET Dev :
        rows = [batch |-> B, link |-> L, contributed |-> C, profile |-> P, observed |-> O,
                fetched |-> F]
  BY DEF Rows
<1> DEFINE mark == [at |-> now, limit |-> Limit]
           linked == [d \in Dev |-> IF d \in devs THEN now ELSE L[r][d]]
           B1 == [B EXCEPT ![r] = mark]
           L1 == [L EXCEPT ![r] = linked]
           C1 == [C EXCEPT ![r] = C[r] \cup (devs \X {now})]
           one == [rows EXCEPT !.batch = B1]
           two == [one EXCEPT !.link = L1]
<1>2. Synced(rows, r, devs) = [two EXCEPT !.contributed = C1]
  BY <1>1 DEF Synced
<1>3. mark \in [at : Instant \cup {Never}, limit : Nat] /\ linked \in [Dev -> Instant \cup {Never}]
  BY <1>1
<1>4. B1 \in [Tracked -> [at : Instant \cup {Never}, limit : Nat]]
  BY <1>3
<1>5. L1 \in [Tracked -> [Dev -> Instant \cup {Never}]]
  BY <1>3
<1>6. C1 \in [Tracked -> SUBSET (Dev \X Instant)]
  OBVIOUS
<1>7. /\ \A x \in Tracked : B1[x] = IF x = r THEN mark ELSE B[x]
      /\ \A x \in Tracked : C1[x] = IF x = r THEN C[x] \cup (devs \X {now}) ELSE C[x]
  OBVIOUS
<1> HIDE DEF B1, L1, C1
<1>8. Synced(rows, r, devs) = [batch |-> B1, link |-> L1, contributed |-> C1, profile |-> P,
                               observed |-> O, fetched |-> F]
  BY <1>1, <1>2
<1>9. Synced(rows, r, devs) \in Rows
  BY <1>1, <1>4, <1>5, <1>6, <1>8 DEF Rows
<1> DEFINE after == Synced(rows, r, devs)
<1>10. /\ after.batch = B1 /\ after.contributed = C1
       /\ after.profile = P /\ after.observed = O /\ after.fetched = F
  BY <1>8
<1>11. /\ rows.batch = B /\ rows.contributed = C
       /\ rows.profile = P /\ rows.observed = O /\ rows.fetched = F
  BY <1>1
<1> HIDE DEF after, mark
<1>12. /\ \A x \in Tracked : after.batch[x] = IF x = r THEN mark ELSE rows.batch[x]
       /\ \A x \in Tracked : after.contributed[x]
             = IF x = r THEN rows.contributed[x] \cup (devs \X {now}) ELSE rows.contributed[x]
  BY <1>7, <1>10, <1>11
<1> QED BY <1>9, <1>10, <1>11, <1>12 DEF SyncedOf, after, mark

(* A profile as sync_profile() stages it.                                  *)
ProfiledOf(after, rows, d) ==
  /\ after \in Rows
  /\ after.batch = rows.batch /\ after.contributed = rows.contributed
  /\ \A x \in Dev :
       /\ after.profile[x] = IF x = d THEN now ELSE rows.profile[x]
       /\ after.observed[x] = IF x = d THEN rows.observed[x] \cup {now} ELSE rows.observed[x]
  /\ after.fetched = rows.fetched \cup {d}

LEMMA ProfiledIs ==
  ASSUME NEW rows \in Rows, NEW d \in Dev, now \in Instant
  PROVE ProfiledOf(Profiled(rows, d), rows, d)
<1>1. PICK B \in [Tracked -> [at : Instant \cup {Never}, limit : Nat]],
           L \in [Tracked -> [Dev -> Instant \cup {Never}]],
           C \in [Tracked -> SUBSET (Dev \X Instant)],
           P \in [Dev -> Instant \cup {Never}], O \in [Dev -> SUBSET Instant], F \in SUBSET Dev :
        rows = [batch |-> B, link |-> L, contributed |-> C, profile |-> P, observed |-> O,
                fetched |-> F]
  BY DEF Rows
<1> DEFINE P1 == [P EXCEPT ![d] = now]
           O1 == [O EXCEPT ![d] = O[d] \cup {now}]
           F1 == F \cup {d}
           one == [rows EXCEPT !.profile = P1]
           two == [one EXCEPT !.observed = O1]
<1>2. Profiled(rows, d) = [two EXCEPT !.fetched = F1]
  BY <1>1 DEF Profiled
<1>3. /\ P1 \in [Dev -> Instant \cup {Never}] /\ O1 \in [Dev -> SUBSET Instant]
      /\ F1 \in SUBSET Dev
  OBVIOUS
<1>4. /\ \A x \in Dev : P1[x] = IF x = d THEN now ELSE P[x]
      /\ \A x \in Dev : O1[x] = IF x = d THEN O[x] \cup {now} ELSE O[x]
      /\ F1 = F \cup {d}
  OBVIOUS
<1> HIDE DEF P1, O1, F1
<1>5. Profiled(rows, d) = [batch |-> B, link |-> L, contributed |-> C, profile |-> P1,
                           observed |-> O1, fetched |-> F1]
  BY <1>1, <1>2
<1>6. Profiled(rows, d) \in Rows
  BY <1>1, <1>3, <1>5 DEF Rows
<1> DEFINE after == Profiled(rows, d)
<1>7. /\ after.batch = B /\ after.contributed = C
      /\ after.profile = P1 /\ after.observed = O1 /\ after.fetched = F1
  BY <1>5
<1>8. /\ rows.batch = B /\ rows.contributed = C
      /\ rows.profile = P /\ rows.observed = O /\ rows.fetched = F
  BY <1>1
<1> HIDE DEF after
<1>9. /\ \A x \in Dev : after.profile[x] = IF x = d THEN now ELSE rows.profile[x]
      /\ \A x \in Dev : after.observed[x]
            = IF x = d THEN rows.observed[x] \cup {now} ELSE rows.observed[x]
  BY <1>4, <1>7, <1>8
<1> QED BY <1>4, <1>6, <1>7, <1>8, <1>9 DEF ProfiledOf, after
---------------------------------------------------------------------------
(* The rows of a run are finitely many.                                    *)
LEMMA RowsAreFinite ==
  ASSUME Parameters, NEW rows
  PROVE IsFiniteSet(Contributions(rows)) /\ IsFiniteSet(Observations(rows))
<1>1. IsFiniteSet(Instant) /\ IsFiniteSet(Tracked) /\ IsFiniteSet(Dev)
  BY FS_Interval DEF Instant, Parameters
<1>2. IsFiniteSet(Dev \X Instant)
  BY <1>1, FS_Product
<1>3. IsFiniteSet(Tracked \X (Dev \X Instant))
  BY <1>1, <1>2, FS_Product
<1>4. /\ Contributions(rows) \subseteq Tracked \X (Dev \X Instant)
      /\ Observations(rows) \subseteq Dev \X Instant
  BY DEF Contributions, Observations
<1> QED BY <1>2, <1>3, <1>4, FS_Subset

(* Nothing is counted of the rows that were there.                         *)
LEMMA NothingAccounted ==
  ASSUME Parameters
  PROVE Accounted(RowsBefore, Empty)
<1>1. Contributions(RowsBefore) = {} /\ Observations(RowsBefore) = {} /\ RowsBefore.fetched = {}
  BY DEF Contributions, Observations, Parameters
<1>2. Cardinality({}) = 0
  BY FS_EmptySet
<1>3. Empty.contributions = 0 /\ Empty.observations = 0 /\ Empty.profilesFetched = 0
  BY DEF Empty, Counters
<1> QED BY <1>1, <1>2, <1>3 DEF Accounted, Parameters

(* Counters that speak of no row may be counted freely.                    *)
RowCounters == {"contributions", "observations", "profilesFetched"}

LEMMA OtherCounts ==
  ASSUME NEW rows, NEW r \in [Counters -> Nat], Accounted(rows, r),
         NEW cs, cs \cap RowCounters = {}
  PROVE Accounted(rows, Count(r, cs))
<1>1. /\ Count(r, cs).contributions = r.contributions
      /\ Count(r, cs).observations = r.observations
      /\ Count(r, cs).profilesFetched = r.profilesFetched
  BY DEF Count, Counters, RowCounters
<1> QED BY <1>1 DEF Accounted

(* A batch adds the contributions of its instant that were not there.      *)
LEMMA BatchAccounted ==
  ASSUME Parameters, now \in Instant, NEW rows, NEW r \in Tracked, NEW devs \in SUBSET Dev,
         NEW after, SyncedOf(after, rows, r, devs),
         NEW c \in [Counters -> Nat], Accounted(rows, c),
         NEW counted,
         counted.contributions
           = c.contributions + Cardinality((devs \X {now}) \ rows.contributed[r]),
         counted.observations = c.observations, counted.profilesFetched = c.profilesFetched
  PROVE Accounted(after, counted)
<1> DEFINE new == (devs \X {now}) \ rows.contributed[r]
<1>1. /\ after \in Rows
      /\ \A x \in Tracked : after.contributed[x]
            = IF x = r THEN rows.contributed[x] \cup (devs \X {now}) ELSE rows.contributed[x]
      /\ after.profile = rows.profile /\ after.observed = rows.observed
      /\ after.fetched = rows.fetched
  BY DEF SyncedOf
<1>2. /\ \A x \in Tracked : RowsBefore.contributed[x] \subseteq rows.contributed[x]
      /\ c.contributions = Cardinality(Contributions(rows))
      /\ c.observations = Cardinality(Observations(rows))
      /\ c.profilesFetched = Cardinality(rows.fetched)
  BY DEF Accounted
<1>3. devs \X {now} \subseteq Dev \X Instant
  OBVIOUS
<1>4. new \subseteq Dev \X Instant /\ new \cap rows.contributed[r] = {}
      /\ rows.contributed[r] \cup (devs \X {now}) = rows.contributed[r] \cup new
  BY <1>3
<1> HIDE DEF new
<1>5. \A x \in Tracked \X (Dev \X Instant) :
        x \in Contributions(after) <=> x \in Contributions(rows) \cup ({r} \X new)
  <2> TAKE x \in Tracked \X (Dev \X Instant)
  <2>1. x = <<x[1], x[2]>> /\ x[1] \in Tracked
    OBVIOUS
  <2>2. x \in {r} \X new <=> x[1] = r /\ x[2] \in new
    BY <2>1
  <2>3. CASE x[1] = r
    <3>1. after.contributed[x[1]] = rows.contributed[x[1]] \cup new
      BY <1>1, <1>4, <2>3
    <3>2. x[2] \in new => x[2] \notin RowsBefore.contributed[x[1]]
      BY <1>2, <1>4, <2>3
    <3> QED BY <2>2, <2>3, <3>1, <3>2 DEF Contributions
  <2>4. CASE x[1] # r
    BY <1>1, <2>1, <2>2, <2>4 DEF Contributions
  <2> QED BY <2>3, <2>4
<1>6. Contributions(after) = Contributions(rows) \cup ({r} \X new)
  <2>1. /\ Contributions(after) \subseteq Tracked \X (Dev \X Instant)
        /\ Contributions(rows) \subseteq Tracked \X (Dev \X Instant)
    BY DEF Contributions
  <2>2. {r} \X new \subseteq Tracked \X (Dev \X Instant)
    BY <1>4
  <2> QED BY <1>5, <2>1, <2>2
<1>7. Contributions(rows) \cap ({r} \X new) = {}
  <2> SUFFICES ASSUME NEW x \in Contributions(rows), x \in {r} \X new PROVE FALSE
    OBVIOUS
  <2>1. x[1] = r /\ x[2] \in new
    OBVIOUS
  <2> QED BY <1>4, <2>1 DEF Contributions
<1>8. IsFiniteSet(new) /\ Cardinality(new) \in Nat
  <2>1. IsFiniteSet(devs) /\ IsFiniteSet({now})
    BY FS_Subset, FS_Singleton DEF Parameters
  <2>2. IsFiniteSet(devs \X {now})
    BY <2>1, FS_Product
  <2> QED BY <2>2, FS_Difference, FS_CardinalityType DEF new
<1>9. IsFiniteSet({r} \X new) /\ Cardinality({r} \X new) = Cardinality(new)
  <2>1. IsFiniteSet({r}) /\ Cardinality({r}) = 1
    BY FS_Singleton
  <2>2. Cardinality({r} \X new) = 1 * Cardinality(new) /\ IsFiniteSet({r} \X new)
    BY <1>8, <2>1, FS_Product
  <2> QED BY <1>8, <2>2
<1>10. Cardinality(Contributions(after)) = Cardinality(Contributions(rows)) + Cardinality(new)
  <2>1. IsFiniteSet(Contributions(rows)) /\ Cardinality(Contributions(rows)) \in Nat
    BY RowsAreFinite, FS_CardinalityType
  <2>2. Cardinality(Contributions(after))
          = Cardinality(Contributions(rows)) + Cardinality({r} \X new) - Cardinality({})
    BY <1>6, <1>7, <1>9, <2>1, FS_Union
  <2> QED BY <1>8, <1>9, <2>1, <2>2, FS_EmptySet
<1>11. Observations(after) = Observations(rows)
  BY <1>1 DEF Observations
<1>12. \A x \in Tracked : RowsBefore.contributed[x] \subseteq after.contributed[x]
  BY <1>1, <1>2
<1>13. counted.contributions = c.contributions + Cardinality(new)
  BY DEF new
<1>14. /\ \A d \in Dev : RowsBefore.observed[d] \subseteq after.observed[d]
       /\ \A d \in Dev : \A t \in after.observed[d] : t <= after.profile[d]
  BY <1>1 DEF Accounted
<1> QED BY <1>1, <1>2, <1>10, <1>11, <1>12, <1>13, <1>14 DEF Accounted

(* A profile adds itself, and an observation unless there is one of its    *)
(* instant.                                                                *)
LEMMA ProfileAccounted ==
  ASSUME Parameters, now \in Instant, NEW rows, NEW d \in Dev,
         NEW after, ProfiledOf(after, rows, d),
         d \notin rows.fetched, rows.profile[d] <= now,
         NEW c \in [Counters -> Nat], Accounted(rows, c),
         NEW counted,
         counted.contributions = c.contributions,
         counted.observations = c.observations + (IF now \in rows.observed[d] THEN 0 ELSE 1),
         counted.profilesFetched = c.profilesFetched + 1
  PROVE Accounted(after, counted)
<1>1. /\ after \in Rows /\ after.contributed = rows.contributed
      /\ \A x \in Dev : after.profile[x] = IF x = d THEN now ELSE rows.profile[x]
      /\ \A x \in Dev : after.observed[x]
            = IF x = d THEN rows.observed[x] \cup {now} ELSE rows.observed[x]
      /\ after.fetched = rows.fetched \cup {d}
  BY DEF ProfiledOf
<1>2. /\ rows \in Rows
      /\ \A x \in Dev : RowsBefore.observed[x] \subseteq rows.observed[x]
      /\ \A x \in Dev : \A t \in rows.observed[x] : t <= rows.profile[x]
      /\ c.contributions = Cardinality(Contributions(rows))
      /\ c.observations = Cardinality(Observations(rows))
      /\ c.profilesFetched = Cardinality(rows.fetched)
  BY DEF Accounted
<1>3. Contributions(after) = Contributions(rows)
  BY <1>1 DEF Contributions
<1>4. /\ \A x \in Tracked : RowsBefore.contributed[x] \subseteq after.contributed[x]
      /\ \A x \in Dev : RowsBefore.observed[x] \subseteq after.observed[x]
  BY <1>1, <1>2 DEF Accounted
<1>5. \A x \in Dev : \A t \in after.observed[x] : t <= after.profile[x]
  <2> SUFFICES ASSUME NEW x \in Dev, NEW t \in after.observed[x] PROVE t <= after.profile[x]
    OBVIOUS
  <2>1. CASE x # d
    BY <1>1, <1>2, <2>1
  <2>2. CASE x = d
    <3>0. after.observed[d] = rows.observed[d] \cup {now} /\ after.profile[d] = now
      BY <1>1
    <3>1. after.profile[x] = now /\ (t = now \/ t \in rows.observed[d])
      BY <2>2, <3>0
    <3>2. t \in rows.observed[d] => t <= rows.profile[d]
      BY <1>2
    <3>3. now \in Int /\ rows.profile[d] \in Int /\ (t \in rows.observed[d] => t \in Int)
      BY <1>2 DEF Rows, Instant, Never
    <3> QED BY <3>1, <3>2, <3>3
  <2> QED BY <2>1, <2>2
<1>6. Cardinality(after.fetched) = Cardinality(rows.fetched) + 1
  <2>0. rows.fetched \in SUBSET Dev /\ IsFiniteSet(Dev)
    BY <1>2 DEF Rows, Parameters
  <2>1. IsFiniteSet(rows.fetched)
    BY <2>0, FS_Subset
  <2>2. Cardinality(rows.fetched \cup {d}) = Cardinality(rows.fetched) + 1
    BY <2>1, FS_AddElement
  <2> QED BY <1>1, <2>2
<1>7. counted.observations = Cardinality(Observations(after))
  <2>1. CASE now \in rows.observed[d]
    <3>1. \A x \in Dev : after.observed[x] = rows.observed[x]
      BY <1>1, <2>1
    <3>2. Observations(after) = Observations(rows)
      BY <3>1 DEF Observations
    <3>3. counted.observations = c.observations
      BY <2>1 DEF Counters
    <3> QED BY <1>2, <3>2, <3>3
  <2>2. CASE now \notin rows.observed[d]
    <3>1. now \notin RowsBefore.observed[d]
      BY <1>2, <2>2
    <3>2. <<d, now>> \notin Observations(rows)
      BY <2>2 DEF Observations
    <3>3. \A x \in Dev \X Instant :
            x \in Observations(after) <=> x \in Observations(rows) \cup {<<d, now>>}
      <4> TAKE x \in Dev \X Instant
      <4>1. x = <<x[1], x[2]>> /\ x[1] \in Dev
        OBVIOUS
      <4>2. CASE x[1] = d
        <5>1. after.observed[x[1]] = rows.observed[x[1]] \cup {now}
              /\ now \notin RowsBefore.observed[x[1]]
          BY <1>1, <3>1, <4>2
        <5>2. x = <<d, now>> <=> x[2] = now
          BY <4>1, <4>2
        <5> QED BY <5>1, <5>2 DEF Observations
      <4>3. CASE x[1] # d
        <5>1. x # <<d, now>>
          BY <4>3
        <5>2. after.observed[x[1]] = rows.observed[x[1]]
          BY <1>1, <4>1, <4>3
        <5> QED BY <5>1, <5>2 DEF Observations
      <4> QED BY <4>2, <4>3
    <3>4. Observations(after) = Observations(rows) \cup {<<d, now>>}
      <4>1. /\ Observations(after) \subseteq Dev \X Instant
            /\ Observations(rows) \subseteq Dev \X Instant
            /\ <<d, now>> \in Dev \X Instant
        BY DEF Observations
      <4> QED BY <3>3, <4>1
    <3>5. Cardinality(Observations(after)) = Cardinality(Observations(rows)) + 1
      BY <3>2, <3>4, RowsAreFinite, FS_AddElement
    <3> QED BY <1>2, <2>2, <3>5
  <2> QED BY <2>1, <2>2
<1> QED BY <1>1, <1>2, <1>3, <1>4, <1>5, <1>6, <1>7 DEF Accounted
---------------------------------------------------------------------------
(* The report always counts what is staged, and the receipt what is        *)
(* committed.                                                              *)
LEMMA RowsKept ==
  ASSUME Parameters, RunInv(Counters, FetchPlaces), PlaceInv, ListedInv, RowsInv, AheadInv,
         [Next]_vars
  PROVE RowsInv'
<1>1. /\ http \in {"idle", "reserve", "flight"}
      /\ http # "idle" => pc \in FetchPlaces
      /\ report \in [Counters -> Nat]
      /\ HasReceipt => receipt \in ReceiptType(Counters) /\ receipt.report \in [Counters -> Nat]
      /\ ~HasReceipt => pc \in {"start", "end"}
      /\ pc = "start" => ~HasReceipt
  BY DEF RunInv, TypesKept, PlacesKept, HasReceipt, ReceiptType
<1>2. Accounted(work, report) /\ (pc \notin Staging => work = store)
  BY DEF RowsInv
<1> DEFINE Quiet ==
      /\ UNCHANGED <<work, report, store>>
      /\ HasReceipt' <=> HasReceipt
      /\ HasReceipt => receipt'.report = receipt.report
      /\ pc' \in Staging \/ pc \notin Staging
<1>3. CASE Quiet
  <2>1. Accounted(work, report)' = Accounted(work, report)
    BY <1>3
  <2>2. HasReceipt' => Accounted(store, receipt.report)'
    BY <1>3 DEF RowsInv
  <2> QED BY <1>3, <2>1, <2>2 DEF RowsInv
<1>4. ASSUME UNCHANGED <<receipt, store>>, Accounted(work', report'),
             pc' \notin Staging => work' = store
      PROVE RowsInv'
  <2>1. HasReceipt' <=> HasReceipt
    BY <1>4 DEF HasReceipt
  <2> QED BY <1>4, <2>1 DEF RowsInv
<1>5. ASSUME UNCHANGED <<work, receipt, store>>, pc' \in Staging,
             NEW cs, cs \cap RowCounters = {}, report' = Count(report, cs)
      PROVE RowsInv'
  BY <1>1, <1>2, <1>4, <1>5, OtherCounts
<1>6. CASE \/ AllReferencesDone \/ NotTracked \/ IdentityArrives \/ PageArrives
           \/ OtherDeveloperArrives \/ SeenProfile \/ ProfilesDone
  <2>1. Quiet
    BY <1>6 DEF AllReferencesDone, NotTracked, InBody, IdentityArrives, PageArrives,
       OtherDeveloperArrives, SeenProfile, ProfilesDone, Answered, memory, runVars, HasReceipt, Staging
  <2> QED BY <1>3, <2>1
<1>7. CASE \/ ChargeAttempt \/ RetryAttempt \/ LeaveAttempt
  <2>1. Quiet
    BY <1>1, <1>7 DEF ChargeAttempt, Charge, ChargeRefused, Fetching, RetryAttempt, Retry, LeaveAttempt,
       Rejected, Interrupted, StopWith, HasReceipt, Staging, FetchPlaces, InBatch
  <2> QED BY <1>3, <2>1
<1>8. CASE \/ OperationFails \/ FailureFails \/ DatabaseError \/ UNCHANGED vars
           \/ Raises /\ UNCHANGED place
  <2>1. Quiet
    BY <1>1, <1>8 DEF OperationFails, FailureFails, DatabaseError, StopWith, vars, runVars,
       Raises, memory, HasReceipt, Staging
  <2> QED BY <1>3, <2>1
<1>9. CASE DuplicateReference
  <2>1. {"skipped"} \cap RowCounters = {}
    BY DEF RowCounters
  <2> QED BY <1>5, <1>9, <2>1 DEF DuplicateReference, Staging
<1>10. ASSUME NEW r \in Tracked, NEW t \in Instant,
              ReuseBatch(r, t) \/ NoBatchWanted(r, t) \/ FetchBatch(r, t)
       PROVE RowsInv'
  <2>1. CASE ReuseBatch(r, t)
    <3>1. {"batchesReused", "completed"} \cap RowCounters = {}
      BY DEF RowCounters
    <3> QED BY <1>5, <2>1, <3>1 DEF ReuseBatch, Listed, Staging
  <2>2. CASE NoBatchWanted(r, t)
    <3>1. {"completed"} \cap RowCounters = {}
      BY DEF RowCounters
    <3> QED BY <1>5, <2>2, <3>1 DEF NoBatchWanted, Listed, Staging
  <2>3. CASE FetchBatch(r, t)
    <3>1. Quiet
      BY <2>3 DEF FetchBatch, Enter, InBody, memory, HasReceipt, Staging
    <3> QED BY <1>3, <3>1
  <2> QED BY <1>10, <2>1, <2>2, <2>3
<1>11. ASSUME NEW d \in Dev, NEW t \in Instant, ReuseProfile(d, t) \/ FetchProfile(d, t)
       PROVE RowsInv'
  <2>1. CASE ReuseProfile(d, t)
    <3>1. {"profilesReused", "completed"} \cap RowCounters = {}
      BY DEF RowCounters
    <3> QED BY <1>5, <2>1, <3>1 DEF ReuseProfile, NextProfile, Staging
  <2>2. CASE FetchProfile(d, t)
    <3>1. Quiet
      BY <2>2 DEF FetchProfile, NextProfile, HasReceipt, Staging
    <3> QED BY <1>3, <3>1
  <2> QED BY <1>11, <2>1, <2>2
<1>12. CASE BatchArrives
  <2>1. /\ pc' = "batchsave" /\ Repo \in Tracked /\ UNCHANGED <<receipt, store>>
    BY <1>12, BatchIs
  <2>2. PICK devs \in SUBSET Dev :
          /\ work' = Synced(work, Repo, devs)
          /\ report' = BatchCounted(work, devs, Repo)
    BY <1>12, BatchIs
  <2>3. work \in Rows /\ now \in Instant /\ Limit \in Nat
    BY <1>2 DEF Accounted, PlaceInv, Parameters, Limit
  <2>4. SyncedOf(work', work, Repo, devs)
    BY <2>1, <2>2, <2>3, SyncedIs
  <2>5. /\ report'.contributions
             = report.contributions + Cardinality((devs \X {now}) \ work.contributed[Repo])
        /\ \A c \in Counters \ {"completed", "contributions"} : report'[c] = report[c]
    <3> DEFINE counted == BatchCounted(work, devs, Repo)
               n == Cardinality((devs \X {now}) \ work.contributed[Repo])
    <3>1. /\ counted.contributions = report.contributions + n
          /\ \A c \in Counters \ {"completed", "contributions"} : counted[c] = report[c]
      BY <1>1, BatchCounts
    <3>2. report' = counted
      BY <2>2
    <3> HIDE DEF counted, n
    <3>3. /\ report'.contributions = report.contributions + n
          /\ \A c \in Counters \ {"completed", "contributions"} : report'[c] = report[c]
      BY <3>1, <3>2
    <3> QED BY <3>3 DEF n
  <2>6. report'.observations = report.observations /\ report'.profilesFetched = report.profilesFetched
    BY <2>5 DEF Counters
  <2>7. Accounted(work', report')
    BY <1>1, <1>2, <2>1, <2>3, <2>4, <2>5, <2>6, BatchAccounted
  <2> QED BY <1>4, <2>1, <2>7 DEF Staging
<1>13. CASE ProfileArrives
  <2>1. /\ pc = "request" /\ pc' = "profilesave" /\ UNCHANGED <<receipt, store>>
        /\ work' = Profiled(work, Contributor)
        /\ report' = Count(report, {"profilesFetched", "completed"} \cup
                                   (IF existing THEN {} ELSE {"observations"}))
    BY <1>13 DEF ProfileArrives, Answered
  <2>2. Contributor \in Dev
    BY <2>1, LeastIs DEF PlaceInv, AtProfile
  <2>3. work \in Rows /\ now \in Instant
    BY <1>2 DEF Accounted, PlaceInv
  <2>4. /\ Contributor \notin work.fetched /\ work.profile[Contributor] <= now
        /\ existing = (now \in work.observed[Contributor])
    BY <2>1 DEF AheadInv
  <2>5. ProfiledOf(work', work, Contributor)
    BY <2>1, <2>2, <2>3, ProfiledIs
  <2>6. /\ report'.contributions = report.contributions
        /\ report'.profilesFetched = report.profilesFetched + 1
    BY <1>1, <2>1 DEF Count, Counters
  <2>7. report'.observations
          = report.observations + (IF now \in work.observed[Contributor] THEN 0 ELSE 1)
    BY <1>1, <2>1, <2>4 DEF Count, Counters
  <2>8. Accounted(work', report')
    BY <1>1, <1>2, <2>2, <2>3, <2>4, <2>5, <2>6, <2>7, ProfileAccounted
  <2> QED BY <1>4, <2>1, <2>8 DEF Staging
<1>14. CASE Failure \/ (Unwind /\ UNCHANGED place)
  <2>1. /\ UNCHANGED <<store, receipt>> /\ pc \in {"failure", "profilefailure", "unwind"}
        /\ work' = store /\ HasReceipt
    BY <1>1, <1>14 DEF Failure, Unwind, Rollback
  <2>2. PICK cs \in SUBSET {"failed", "skipped"} : report' = Count(receipt.report, cs)
    BY <1>14 DEF Failure, Unwind, Rollback, Noted
  <2>3. Accounted(store, receipt.report)
    BY <2>1 DEF RowsInv
  <2>4. cs \cap RowCounters = {}
    BY DEF RowCounters
  <2>5. Accounted(work', report')
    BY <1>1, <2>1, <2>2, <2>3, <2>4, OtherCounts
  <2> QED BY <1>4, <2>1, <2>5
<1>15. CASE \/ Start \/ Done \/ ReserveAttempt \/ Dies
            \/ Finish(Checkpoints, Empty) /\ UNCHANGED place
  <2>1. /\ UNCHANGED <<work, report>>
        /\ pc' \in {pc, "end"} \/ pc' \notin Staging
    BY <1>15 DEF Start, Begin, Done, Checkpoint, ReserveAttempt, Reserve, Dies,
       LoseOwnership, Crash, Vanish, Finish, memory, Staging
  <2>2. CASE UNCHANGED <<receipt, store>> /\ pc' = "end"
    <3>1. Quiet
      BY <2>1, <2>2 DEF HasReceipt, Staging
    <3> QED BY <1>3, <3>1
  <2>3. CASE \E r \in InFlightReceipt(Checkpoints, Empty) : Committed(r)
    <3>1. PICK r \in InFlightReceipt(Checkpoints, Empty) : receipt' = r /\ store' = work
      BY <2>3 DEF Committed
    <3>2. r \in ReceiptType(Counters) /\ r # NoReceipt
      BY InFlightKept, EnrichIsKind
    <3>3. HasReceipt'
      BY <3>1, <3>2 DEF HasReceipt
    <3>4. Accounted(work, r.report)
      <4>1. \/ pc \in FetchPlaces /\ HasReceipt /\ r.report = receipt.report
            \/ pc = "start" /\ r.report = Empty
            \/ r.report = report
        BY InFlightReport, EnrichIsKind
      <4>2. CASE pc \in FetchPlaces /\ HasReceipt /\ r.report = receipt.report
        <5>1. work = store
          BY <1>2, <4>2 DEF FetchPlaces, InBatch, Staging
        <5> QED BY <4>2, <5>1 DEF RowsInv
      <4>3. CASE pc = "start" /\ r.report = Empty
        <5>1. work = RowsBefore
          BY <1>1, <1>2, <4>3 DEF RowsInv, Staging
        <5> QED BY <4>3, <5>1, NothingAccounted
      <4> QED BY <1>2, <4>1, <4>2, <4>3
    <3> QED BY <1>2, <2>1, <3>1, <3>3, <3>4 DEF RowsInv
  <2> QED
    <3>1. CASE Dies
      BY <2>2, <2>3, <3>1 DEF Dies, LoseOwnership, Crash, Vanish
    <3>2. CASE Start \/ Finish(Checkpoints, Empty)
      BY <2>3, <3>2 DEF Start, Begin, Finish
    <3>3. CASE ReserveAttempt
      <4>1. InFlightReceipt(Checkpoints, Empty) = {[receipt EXCEPT !.requests = used]}
        BY <3>3 DEF ReserveAttempt, Reserve, InFlightReceipt
      <4> QED BY <2>3, <3>3, <4>1 DEF ReserveAttempt, Reserve
    <3>4. CASE Done
      <4>1. InFlightReceipt(Checkpoints, Empty) = {[receipt EXCEPT !.report = report]}
        BY <1>1, <3>4 DEF Done, Checkpoints, FetchPlaces, InBatch, InFlightReceipt
      <4> QED BY <2>3, <3>4, <4>1 DEF Done, Checkpoint
    <3> QED BY <1>15, <3>1, <3>2, <3>3, <3>4
<1> QED BY <1>6, <1>7, <1>8, <1>9, <1>10, <1>11, <1>12, <1>13, <1>14, <1>15 DEF Next, RunStep, Step
(* What needs a refresh was fetched at an instant that is not later.       *)
LEMMA StaleIsOlder ==
  ASSUME Parameters, request \in Requests, NEW rows \in Rows, NEW t \in Instant
  PROVE /\ \A d \in Dev : NeedsRefresh(rows, d, t) => rows.profile[d] <= t
        /\ \A r \in Tracked : ~Fresh(rows, r, t) /\ Covered(rows, r) => t >= rows.batch[r].at
<1>1. RefreshAge \in Nat /\ t \in Nat /\ LastInstant \in Nat
  BY DEF Parameters, RefreshAge, Instant
<1>2. /\ \A d \in Dev : rows.profile[d] \in Int
      /\ \A r \in Tracked : rows.batch[r].at \in Int
  BY DEF Rows, Instant, Never
<1> QED BY <1>1, <1>2 DEF NeedsRefresh, Fresh, Never

(* A profile is fetched once in a run, and nothing is staged before the    *)
(* end of a history.                                                       *)
LEMMA AheadKept ==
  ASSUME Parameters, RunInv(Counters, FetchPlaces), PlaceInv, ListedInv, RowsInv, AheadInv,
         [Next]_vars
  PROVE AheadInv'
<1>1. /\ http \in {"idle", "reserve", "flight"}
      /\ http # "idle" => pc \in FetchPlaces
      /\ request' = request /\ request \in Requests /\ Limit' = Limit
      /\ reference' = reference => Repo' = Repo
      /\ queue' = queue => Contributor' = Contributor
  BY SameRequest DEF RunInv, TypesKept, PlacesKept, PlaceInv, Limit, Repo, References, Contributor
<1>2. /\ work \in Rows /\ (pc \notin Staging => work = store)
      /\ work.fetched \subseteq seenProfiles /\ store.fetched \subseteq seenProfiles
      /\ now \in Instant
  BY DEF RowsInv, Accounted, AheadInv, PlaceInv
<1>3. Advanced(work, store) /\ \A rows : Advanced(rows, rows)
  BY DEF AheadInv, Advanced
<1> DEFINE Stays ==
      /\ UNCHANGED <<work, now, existing, reference, seenProfiles, queue>>
      /\ store' \in {store, work}
      /\ pc' \in InBatch => pc \in InBatch
      /\ pc' = "request" => pc = "request"
           Leaves ==
      /\ seenProfiles \subseteq seenProfiles'
      /\ UNCHANGED <<work, store>> \/ (work' = store' /\ work' \in {work, store})
      /\ pc' \notin InBatch \cup {"request"}
<1>4. ASSUME Advanced(work', store') PROVE Advanced(work, store)'
  BY <1>1, <1>4 DEF Advanced, Covered
<1>5. CASE Stays
  <2>1. Advanced(work, store)'
    BY <1>3, <1>4, <1>5
  <2>2. Repo' = Repo /\ Contributor' = Contributor
    BY <1>1, <1>5
  <2>3. work'.fetched \subseteq seenProfiles' /\ store'.fetched \subseteq seenProfiles'
    BY <1>2, <1>5
  <2>4. pc' = "request" =>
          /\ Contributor' \in seenProfiles' /\ Contributor' \notin work'.fetched
          /\ existing' = (now' \in work'.observed[Contributor'])
          /\ work'.profile[Contributor'] <= now'
    <3> SUFFICES ASSUME pc = "request"
                 PROVE /\ Contributor \in seenProfiles /\ Contributor \notin work.fetched
                       /\ existing = (now \in work.observed[Contributor])
                       /\ work.profile[Contributor] <= now
      BY <1>5, <2>2
    <3> QED BY DEF AheadInv
  <2>5. pc' \in InBatch => (Covered(work, Repo)' => now' >= work'.batch[Repo'].at)
    <3> SUFFICES ASSUME pc \in InBatch PROVE Covered(work, Repo) => now >= work.batch[Repo].at
      BY <1>1, <1>5, <2>2 DEF Covered
    <3> QED BY DEF AheadInv
  <2> QED BY <2>1, <2>3, <2>4, <2>5 DEF AheadInv
<1>6. CASE Leaves
  <2>1. Advanced(work, store)'
    BY <1>3, <1>4, <1>6
  <2> QED BY <1>2, <1>6, <2>1 DEF AheadInv
<1>7. CASE \/ ChargeAttempt /\ Charge
           \/ ReserveAttempt \/ RetryAttempt \/ IdentityArrives \/ PageArrives \/ UNCHANGED vars
  <2>1. Stays
    BY <1>7 DEF ChargeAttempt, Charge, ReserveAttempt, Reserve, Committed, RetryAttempt, Retry,
       IdentityArrives, PageArrives, Answered, vars, runVars, place, InBatch
  <2> QED BY <1>5, <2>1
<1>8. CASE \/ ChargeAttempt /\ ChargeRefused
           \/ LeaveAttempt \/ AllReferencesDone \/ NotTracked \/ DuplicateReference
           \/ OtherDeveloperArrives \/ SeenProfile \/ ProfilesDone
  <2>1. Leaves
    BY <1>8 DEF ChargeAttempt, ChargeRefused, LeaveAttempt, Rejected, Interrupted, StopWith,
       AllReferencesDone, NotTracked, DuplicateReference, OtherDeveloperArrives, SeenProfile,
       ProfilesDone, Answered, memory, runVars, place, InBatch
  <2> QED BY <1>6, <2>1
<1>9. CASE \/ OperationFails \/ Failure \/ FailureFails \/ DatabaseError
           \/ (Unwind \/ Raises) /\ UNCHANGED place
  <2>1. Leaves
    BY <1>9 DEF OperationFails, Failure, Unwind, Rollback, FailureFails, DatabaseError, StopWith,
       Raises, memory, place, InBatch
  <2> QED BY <1>6, <2>1
<1>10. CASE \/ Start \/ Done \/ Dies
            \/ Finish(Checkpoints, Empty) /\ UNCHANGED place
  <2>1. Leaves
    BY <1>10 DEF Start, Begin, Done, Checkpoint, Dies, LoseOwnership, Crash, Vanish, Finish,
       Committed, memory, place, InBatch
  <2> QED BY <1>6, <2>1
<1>11. ASSUME NEW r \in Tracked, NEW t \in Instant,
              ReuseBatch(r, t) \/ NoBatchWanted(r, t) \/ FetchBatch(r, t)
       PROVE AheadInv'
  <2>1. CASE ReuseBatch(r, t) \/ NoBatchWanted(r, t)
    <3>1. Leaves
      BY <2>1 DEF ReuseBatch, NoBatchWanted, Listed, InBatch
    <3> QED BY <1>6, <3>1
  <2>2. CASE FetchBatch(r, t)
    <3>1. /\ UNCHANGED <<work, store, reference, seenProfiles>> /\ pc' = "detail"
          /\ now' = t /\ r = Repo /\ ~Fresh(work, r, t)
      BY <2>2 DEF FetchBatch, Enter, memory
    <3>2. Covered(work, r) => t >= work.batch[r].at
      BY <1>1, <1>2, <3>1, StaleIsOlder
    <3>3. Covered(work, Repo)' => now' >= work'.batch[Repo'].at
      BY <1>1, <3>1, <3>2 DEF Covered
    <3>4. Advanced(work, store)'
      BY <1>3, <1>4, <3>1
    <3> QED BY <1>2, <3>1, <3>3, <3>4 DEF AheadInv
  <2> QED BY <1>11, <2>1, <2>2
<1>12. ASSUME NEW d \in Dev, NEW t \in Instant, ReuseProfile(d, t) \/ FetchProfile(d, t)
       PROVE AheadInv'
  <2>1. CASE ReuseProfile(d, t)
    <3>1. Leaves
      BY <2>1 DEF ReuseProfile, NextProfile, InBatch
    <3> QED BY <1>6, <3>1
  <2>2. CASE FetchProfile(d, t)
    <3>1. /\ UNCHANGED <<work, store, queue>> /\ pc' = "request" /\ now' = t
          /\ d = Contributor /\ d \notin seenProfiles /\ seenProfiles' = seenProfiles \cup {d}
          /\ existing' = (t \in work.observed[d]) /\ NeedsRefresh(work, d, t)
      BY <2>2 DEF FetchProfile, NextProfile
    <3>2. work.profile[d] <= t
      BY <1>1, <1>2, <3>1, StaleIsOlder
    <3>3. Contributor' = d
      BY <1>1, <3>1
    <3>4. Advanced(work, store)'
      BY <1>3, <1>4, <3>1
    <3>5. work'.fetched \subseteq seenProfiles' /\ store'.fetched \subseteq seenProfiles'
      BY <1>2, <3>1
    <3>6. /\ Contributor' \in seenProfiles' /\ Contributor' \notin work'.fetched
          /\ work'.profile[Contributor'] <= now'
      BY <1>2, <3>1, <3>2, <3>3
    <3>7. existing' = (now' \in work'.observed[Contributor'])
      BY <3>1, <3>3
    <3>8. pc' \notin InBatch
      BY <3>1 DEF InBatch
    <3> QED BY <3>4, <3>5, <3>6, <3>7, <3>8 DEF AheadInv
  <2> QED BY <1>12, <2>1, <2>2
<1>13. CASE BatchArrives
  <2>1. /\ pc = "contributors" /\ pc' = "batchsave" /\ Repo \in Tracked
        /\ UNCHANGED <<store, seenProfiles>>
    BY <1>13, BatchIs
  <2>2. PICK devs \in SUBSET Dev : work' = Synced(work, Repo, devs)
    BY <1>13, BatchIs
  <2>3. SyncedOf(work', work, Repo, devs)
    BY <1>1, <1>2, <2>1, <2>2, SyncedIs DEF Parameters, Limit
  <2>4. /\ work'.observed = work.observed /\ work'.fetched = work.fetched
        /\ \A x \in Tracked : work'.contributed[x]
              = IF x = Repo THEN work.contributed[x] \cup (devs \X {now}) ELSE work.contributed[x]
    BY <2>3 DEF SyncedOf
  <2>5. work = store /\ (Covered(work, Repo) => now >= work.batch[Repo].at)
    BY <1>2, <2>1 DEF AheadInv, InBatch, Staging
  <2>6. ASSUME NEW r \in Tracked, NEW x \in work'.contributed[r] \ store.contributed[r],
               Covered(store, r)
        PROVE x[2] >= store.batch[r].at
    <3>1. r = Repo /\ x \in devs \X {now}
      BY <2>4, <2>5, <2>6
    <3>2. x[2] = now
      BY <3>1
    <3> QED BY <2>5, <2>6, <3>1, <3>2
  <2>7. Advanced(work', store')
    BY <2>1, <2>4, <2>5, <2>6 DEF Advanced
  <2>8. pc' \notin InBatch \cup {"request"}
    BY <2>1 DEF InBatch
  <2> QED BY <1>2, <1>4, <2>1, <2>4, <2>7, <2>8 DEF AheadInv
<1>14. CASE ProfileArrives
  <2>1. /\ pc = "request" /\ pc' = "profilesave" /\ UNCHANGED <<store, seenProfiles>>
        /\ work' = Profiled(work, Contributor)
    BY <1>14 DEF ProfileArrives, Answered, place
  <2>2. Contributor \in Dev
    BY <2>1, LeastIs DEF PlaceInv, AtProfile
  <2>3. ProfiledOf(work', work, Contributor)
    BY <1>2, <2>1, <2>2, ProfiledIs
  <2>4. /\ work'.contributed = work.contributed
        /\ work'.fetched = work.fetched \cup {Contributor}
        /\ \A x \in Dev : work'.observed[x]
              = IF x = Contributor THEN work.observed[x] \cup {now} ELSE work.observed[x]
    BY <2>3 DEF ProfiledOf
  <2>5. work = store /\ Contributor \in seenProfiles /\ work.profile[Contributor] <= now
    BY <1>2, <2>1 DEF AheadInv, Staging
  <2>6. ASSUME NEW d \in Dev, NEW t \in work'.observed[d] \ store.observed[d],
               NEW s \in store.observed[d]
        PROVE t >= s
    <3>1. d = Contributor /\ t = now
      BY <2>4, <2>5, <2>6
    <3>2. s <= work.profile[d]
      BY <2>5 DEF RowsInv, Accounted
    <3>3. s \in Int /\ work.profile[d] \in Int /\ now \in Int
      BY <1>2, <2>5 DEF Rows, Instant, Never
    <3> QED BY <2>5, <3>1, <3>2, <3>3
  <2>7. Advanced(work', store')
    BY <2>1, <2>4, <2>5, <2>6 DEF Advanced
  <2>8. pc' \notin InBatch \cup {"request"}
    BY <2>1 DEF InBatch
  <2>9. work'.fetched \subseteq seenProfiles' /\ store'.fetched \subseteq seenProfiles'
    BY <1>2, <2>1, <2>4, <2>5
  <2> QED BY <1>4, <2>7, <2>8, <2>9 DEF AheadInv
<1> QED BY <1>7, <1>8, <1>9, <1>10, <1>11, <1>12, <1>13, <1>14 DEF Next, RunStep, Step, ChargeAttempt
---------------------------------------------------------------------------
(* A run stops for a reason, and a failure leaves its mark.                *)
LEMMA StopsKept ==
  ASSUME RunInv(Counters, FetchPlaces), PlaceInv, StopInv, [Next]_vars
  PROVE StopInv'
<1>1. /\ http # "idle" => pc \in FetchPlaces
      /\ pc \in Special \cup Body
  BY DEF RunInv, PlacesKept, PlaceInv
<1> DEFINE On == /\ UNCHANGED stop /\ pc \notin {"unwind", "finish", "end"}
                 /\ pc' \notin {"unwind", "end", "failsave", "profilefailsave"}
<1>2. CASE On
  BY <1>2 DEF StopInv
<1>3. CASE \/ Start \/ AllReferencesDone \/ NotTracked \/ DuplicateReference
           \/ SeenProfile \/ ProfilesDone \/ OperationFails \/ FailureFails \/ Done
  <2>1. On
    BY <1>1, <1>3 DEF Start, Begin, AllReferencesDone, NotTracked, DuplicateReference, InBody,
       SeenProfile, ProfilesDone, OperationFails, Fetching, FailureFails, Done, Checkpoint, memory, runVars
  <2> QED BY <1>2, <2>1
<1>4. CASE IdentityArrives \/ PageArrives \/ BatchArrives \/ ProfileArrives \/ OtherDeveloperArrives
  <2>1. On
    BY <1>4 DEF IdentityArrives, PageArrives, BatchArrives, Listed, ProfileArrives,
       OtherDeveloperArrives, Answered
  <2> QED BY <1>2, <2>1
<1>5. CASE \/ \E r \in Tracked, t \in Instant :
                ReuseBatch(r, t) \/ NoBatchWanted(r, t) \/ FetchBatch(r, t)
           \/ \E d \in Dev, t \in Instant : ReuseProfile(d, t) \/ FetchProfile(d, t)
  <2>1. On
    BY <1>5 DEF ReuseBatch, NoBatchWanted, FetchBatch, Enter, InBody, Listed, memory,
       ReuseProfile, FetchProfile, NextProfile
  <2> QED BY <1>2, <2>1
<1>6. CASE Failure
  <2>1. /\ UNCHANGED stop /\ pc \in {"failure", "profilefailure"}
        /\ pc' \in {"failsave", "profilefailsave"}
        /\ report' = Count(receipt.report, {"failed"})
    BY <1>6 DEF Failure, Rollback
  <2>2. receipt.report \in [Counters -> Nat]
    BY <2>1, CountingOn DEF Special
  <2>3. report'.failed > 0
    BY <2>1, <2>2 DEF Count, Counters
  <2> QED BY <2>1, <2>3 DEF StopInv
<1>7. CASE \/ ChargeAttempt /\ Charge
           \/ ReserveAttempt \/ RetryAttempt
           \/ UNCHANGED vars
  <2>1. UNCHANGED <<stop, pc, report>>
    BY <1>7 DEF Charge, ReserveAttempt, Reserve, RetryAttempt, Retry, vars, runVars
  <2> QED BY <2>1 DEF StopInv
<1>8. CASE \/ ChargeAttempt /\ ChargeRefused
           \/ LeaveAttempt \/ DatabaseError
  <2>1. pc' = "unwind" /\ stop' # "none"
    BY <1>8 DEF ChargeRefused, LeaveAttempt, Rejected, Interrupted, DatabaseError, StopWith
  <2> QED BY <2>1 DEF StopInv
<1>9. CASE \/ Unwind \/ Finish(Checkpoints, Empty) \/ Raises \/ Dies
  <2>1. pc' \in {"finish", "end"}
    BY <1>9 DEF Unwind, Finish, Raises, Dies, LoseOwnership, Crash, Vanish
  <2> QED BY <2>1 DEF StopInv
<1> QED BY <1>3, <1>4, <1>5, <1>6, <1>7, <1>8, <1>9 DEF Next, RunStep, Step, ChargeAttempt

(* A batch is no failure.                                                  *)
LEMMA BatchIsNoFailure ==
  ASSUME Parameters, report \in [Counters -> Nat], PlaceInv, ListedInv, BatchArrives
  PROVE report'.failed = report.failed
<1>1. PICK devs \in SUBSET Dev : report' = BatchCounted(work, devs, Repo)
  BY BatchIs
<1> DEFINE counted == BatchCounted(work, devs, Repo)
<1>2. /\ counted.contributions
            = report.contributions + Cardinality((devs \X {now}) \ work.contributed[Repo])
      /\ \A c \in Counters \ {"completed", "contributions"} : counted[c] = report[c]
  BY BatchCounts
<1>3. "failed" \in Counters \ {"completed", "contributions"}
  BY DEF Counters
<1> QED BY <1>1, <1>2, <1>3

(* What is clean now was clean before.                                     *)
LEMMA CleanBefore ==
  ASSUME Parameters, RunInv(Counters, FetchPlaces), PlaceInv, ListedInv, StopInv, [Next]_vars,
         Clean'
  PROVE Clean
<1>1. /\ report \in [Counters -> Nat] /\ report.failed \in Nat
      /\ pc \in Special \cup Body
      /\ http # "idle" => pc \in FetchPlaces
  BY DEF RunInv, TypesKept, PlacesKept, PlaceInv, Counters
<1>2. /\ pc' \notin {"unwind", "end", "failure", "profilefailure", "failsave", "profilefailsave"}
      /\ stop' = "none" /\ report'.failed = 0
  BY DEF Clean, Body, InHand, InBatch, AtContributors, AtProfile
<1> DEFINE On == /\ UNCHANGED stop /\ report' = report
                 /\ pc \notin {"failure", "profilefailure", "failsave", "profilefailsave",
                               "unwind", "end"}
<1>4. CASE On
  BY <1>1, <1>2, <1>4 DEF Clean, Special
<1>5. CASE \/ Start \/ AllReferencesDone \/ NotTracked \/ SeenProfile \/ ProfilesDone
           \/ IdentityArrives \/ PageArrives \/ OtherDeveloperArrives
  <2>1. On
    BY <1>5 DEF Start, Begin, AllReferencesDone, NotTracked, InBody, SeenProfile, ProfilesDone,
       IdentityArrives, PageArrives, OtherDeveloperArrives, Answered, memory, runVars
  <2> QED BY <1>4, <2>1
<1>6. CASE \/ \E r \in Tracked, t \in Instant : FetchBatch(r, t)
           \/ \E d \in Dev, t \in Instant : FetchProfile(d, t)
  <2>1. On
    BY <1>6 DEF FetchBatch, Enter, InBody, memory, FetchProfile, NextProfile
  <2> QED BY <1>4, <2>1
<1>7. CASE \/ ChargeAttempt /\ Charge
           \/ ReserveAttempt \/ RetryAttempt
           \/ UNCHANGED vars
  <2>1. UNCHANGED <<stop, pc, report>>
    BY <1>7 DEF Charge, ReserveAttempt, Reserve, RetryAttempt, Retry, vars, runVars
  <2> QED BY <1>2, <2>1 DEF Clean
<1>8. ASSUME UNCHANGED stop, report'.failed = report.failed,
             pc \in {"body", "contributors", "profile", "request"}
      PROVE Clean
  BY <1>1, <1>2, <1>8 DEF Clean, Special, Body, InHand, InBatch, AtContributors, AtProfile
<1>9. CASE \/ DuplicateReference
           \/ \E r \in Tracked, t \in Instant : ReuseBatch(r, t) \/ NoBatchWanted(r, t)
           \/ \E d \in Dev, t \in Instant : ReuseProfile(d, t)
           \/ ProfileArrives
  <2>1. /\ UNCHANGED stop /\ pc \in {"body", "profile", "request"}
        /\ \E cs : report' = Count(report, cs) /\ "failed" \notin cs
    BY <1>9 DEF DuplicateReference, ReuseBatch, NoBatchWanted, Enter, InBody, ReuseProfile, NextProfile,
       ProfileArrives, Answered
  <2>2. report'.failed = report.failed
    BY <1>1, <2>1 DEF Count, Counters
  <2> QED BY <1>8, <2>1, <2>2
<1>10. CASE BatchArrives
  <2>1. UNCHANGED stop /\ pc = "contributors"
    BY <1>10 DEF BatchArrives, Answered
  <2>2. report'.failed = report.failed
    BY <1>1, <1>10, BatchIsNoFailure
  <2> QED BY <1>8, <2>1, <2>2
<1>11. CASE Done
  <2>1. UNCHANGED <<stop, report>> /\ pc \in {"batchsave", "profilesave", "failsave", "profilefailsave"}
    BY <1>11 DEF Done, Checkpoint, memory
  <2>2. pc \notin {"failsave", "profilefailsave"}
    BY <1>2, <2>1 DEF StopInv
  <2> QED BY <1>4, <2>1, <2>2
<1>12. CASE \/ ChargeAttempt /\ ChargeRefused
            \/ LeaveAttempt \/ DatabaseError \/ OperationFails \/ Failure \/ FailureFails
            \/ Finish(Checkpoints, Empty) \/ Raises \/ Dies
  <2>1. pc' \in {"unwind", "end", "failure", "profilefailure", "failsave", "profilefailsave"}
    BY <1>12 DEF ChargeRefused, LeaveAttempt, Rejected, Interrupted, DatabaseError, StopWith,
       OperationFails, Failure, FailureFails, Finish, Raises, Dies, LoseOwnership, Crash, Vanish
  <2> QED BY <1>2, <2>1
<1>13. CASE Unwind
  BY <1>2, <1>13 DEF Unwind, StopInv
<1> QED BY <1>5, <1>6, <1>7, <1>9, <1>10, <1>11, <1>12, <1>13 DEF Next, RunStep, Step, ChargeAttempt
(* Without a failure every reference is left with its batch, and every     *)
(* contributor of it with a profile.                                       *)
LEMMA CompleteKept ==
  ASSUME Parameters, RunInv(Counters, FetchPlaces), PlaceInv, ListedInv, RowsInv, CoverInv,
         [Next]_vars, Clean'
  PROVE Complete'
<1>1. /\ http # "idle" => pc \in FetchPlaces
      /\ request' = request /\ request \in Requests /\ Limit' = Limit /\ Limit \in Nat
      /\ FetchProfiles' = FetchProfiles /\ References' = References
      /\ reference' = reference => Repo' = Repo
      /\ queue' = queue => Contributor' = Contributor
      /\ reference \in 1..Len(References) + 1 /\ Len(References) \in Nat
      /\ work \in Rows /\ now \in Instant
      /\ pc \in InBatch \cup AtContributors => Repo \in seenRepos
      /\ seenRepos \subseteq Tracked /\ listed \in [Tracked -> SUBSET Dev]
      /\ seenProfiles \subseteq Dev
  BY SameRequest DEF RunInv, PlacesKept, PlaceInv, ListedInv, RowsInv, Accounted, Parameters, Limit,
     FetchProfiles, Repo, References, Contributor
<1>2. Complete
  BY CleanBefore DEF CoverInv
<1>3. /\ pc' \notin {"unwind", "end", "failure", "profilefailure", "failsave", "profilefailsave"}
      /\ stop' = "none" /\ report'.failed = 0
  BY DEF Clean, Body, InHand, InBatch, AtContributors, AtProfile
<1>4. /\ \A i \in 1..reference - 1 : References[i] \in seenRepos
      /\ \A r \in seenRepos :
           pc \notin InHand \/ r # Repo => HasBatch(work, r) /\ HasProfiles(work, listed[r])
      /\ pc \in AtContributors => /\ HasBatch(work, Repo)
                                  /\ HasProfiles(work, listed[Repo] \ queue)
      /\ \A d \in seenProfiles :
           pc # "request" \/ d # Contributor => work.profile[d] # Never
      /\ pc = "profilesave" => work.profile[Contributor] # Never
      /\ pc = "finish" => reference > Len(References)
  BY <1>2 DEF Complete
<1>5. ASSUME \A i \in 1..reference' - 1 : References[i] \in seenRepos',
             \A r \in seenRepos' : pc' \notin InHand \/ r # Repo' =>
               HasBatch(work', r) /\ HasProfiles(work', listed'[r]),
             pc' \in AtContributors => /\ HasBatch(work', Repo')
                                       /\ HasProfiles(work', listed'[Repo'] \ queue'),
             \A d \in seenProfiles' :
               pc' # "request" \/ d # Contributor' => work'.profile[d] # Never,
             pc' = "profilesave" => work'.profile[Contributor'] # Never,
             pc' = "finish" => reference' > Len(References)
      PROVE Complete'
  BY <1>1, <1>5 DEF Complete, HasBatch, HasProfiles
<1> DEFINE Stays ==
      /\ UNCHANGED <<work, listed, reference, seenRepos, seenProfiles, queue>>
      /\ pc \in InHand <=> pc' \in InHand
      /\ pc' \in AtContributors => pc \in AtContributors
      /\ pc = "request" <=> pc' = "request"
      /\ pc' = "profilesave" => pc = "profilesave"
      /\ pc' = "finish" => pc = "finish"
<1>6. CASE Stays
  <2>1. Repo' = Repo /\ Contributor' = Contributor
    BY <1>1, <1>6
  <2> QED BY <1>4, <1>5, <1>6, <2>1
<1>7. CASE \/ ChargeAttempt /\ Charge
           \/ ReserveAttempt \/ RetryAttempt \/ UNCHANGED vars
  <2>1. Stays
    BY <1>7 DEF ChargeAttempt, Charge, ReserveAttempt, Reserve, RetryAttempt, Retry, vars, runVars, place
  <2> QED BY <1>6, <2>1
<1>8. CASE IdentityArrives
  <2>1. Stays
    BY <1>3, <1>8 DEF IdentityArrives, Answered, place, InHand, InBatch, AtContributors, AtProfile
  <2> QED BY <1>6, <2>1
<1>9. CASE Start
  <2>1. /\ UNCHANGED place /\ pc' = "body" /\ pc = "start"
    BY <1>9 DEF Start, Begin
  <2>2. reference' = 1 /\ seenRepos' = {} /\ seenProfiles' = {}
    BY <2>1 DEF PlaceInv, place
  <2> QED BY <1>5, <2>1, <2>2 DEF AtContributors, AtProfile
<1>10. CASE AllReferencesDone
  <2>1. /\ UNCHANGED <<work, listed, reference, seenRepos, seenProfiles, queue>>
        /\ pc = "body" /\ pc' = "finish" /\ reference > Len(References)
    BY <1>10 DEF AllReferencesDone, memory, place
  <2> QED BY <1>4, <1>5, <2>1 DEF InHand, InBatch, AtContributors, AtProfile
<1>11. CASE DuplicateReference
  <2>1. /\ UNCHANGED <<work, listed, reference, seenRepos, seenProfiles>>
        /\ pc = "body" /\ pc' = "batchsave" /\ queue' = {} /\ Repo \in seenRepos /\ Repo' = Repo
    BY <1>1, <1>11 DEF DuplicateReference, InBody
  <2>2. \A r \in seenRepos : HasBatch(work, r) /\ HasProfiles(work, listed[r])
    BY <1>4, <2>1 DEF InHand, InBatch, AtContributors, AtProfile
  <2>3. listed[Repo] \ {} = listed[Repo]
    OBVIOUS
  <2> QED BY <1>4, <1>5, <2>1, <2>2, <2>3
<1>12. ASSUME NEW r \in Tracked, NEW t \in Instant,
              ReuseBatch(r, t) \/ NoBatchWanted(r, t) \/ FetchBatch(r, t)
       PROVE Complete'
  <2>1. /\ UNCHANGED <<work, reference, seenProfiles>> /\ pc = "body"
        /\ seenRepos' = seenRepos \cup {r} /\ r = Repo /\ Repo' = Repo
        /\ pc' \in {"batchsave", "detail"}
    BY <1>1, <1>12 DEF ReuseBatch, NoBatchWanted, FetchBatch, Enter, InBody, Listed, memory
  <2>2. \A x \in seenRepos : HasBatch(work, x) /\ HasProfiles(work, listed[x])
    BY <1>4, <2>1 DEF InHand, InBatch, AtContributors, AtProfile
  <2>3. \A x \in seenRepos : x # r => listed'[x] = listed[x]
    BY <1>1, <1>12 DEF ReuseBatch, NoBatchWanted, FetchBatch, Listed
  <2>4. pc' = "batchsave" => HasBatch(work, r)
    <3>1. CASE ReuseBatch(r, t)
      BY <3>1 DEF ReuseBatch, Fresh, Covered, HasBatch
    <3>2. CASE NoBatchWanted(r, t)
      BY <3>2 DEF NoBatchWanted, HasBatch
    <3>3. CASE FetchBatch(r, t)
      BY <3>3 DEF FetchBatch
    <3> QED BY <1>12, <3>1, <3>2, <3>3
  <2>5. pc' = "batchsave" => HasProfiles(work, listed'[r] \ queue')
    <3>1. pc' = "batchsave" => \E devs \in SUBSET Dev :
            /\ listed' = [listed EXCEPT ![r] = devs]
            /\ queue' = IF FetchProfiles THEN devs ELSE {}
      <4>1. CASE ReuseBatch(r, t)
        BY <1>1, <4>1, CachedIs DEF ReuseBatch, Listed
      <4>2. CASE NoBatchWanted(r, t)
        BY <4>2 DEF NoBatchWanted, Listed
      <4>3. CASE FetchBatch(r, t)
        BY <4>3 DEF FetchBatch
      <4> QED BY <1>12, <4>1, <4>2, <4>3
    <3> QED BY <1>1, <3>1 DEF HasProfiles
  <2>6. \A i \in 1..reference - 1 : References[i] \in seenRepos'
    BY <1>4, <2>1
  <2>7. pc' \in AtContributors => pc' = "batchsave"
    BY <2>1 DEF AtContributors, AtProfile
  <2>8. \A x \in seenRepos' : pc' \notin InHand \/ x # Repo' =>
          HasBatch(work', x) /\ HasProfiles(work', listed'[x])
    <3>1. pc' \in InHand
      BY <2>1 DEF InHand, InBatch, AtContributors
    <3> QED BY <2>1, <2>2, <2>3, <3>1
  <2> QED BY <1>4, <1>5, <2>1, <2>4, <2>5, <2>6, <2>7, <2>8
<1>13. CASE PageArrives
  <2>1. /\ UNCHANGED <<work, reference, seenRepos, seenProfiles, queue>>
        /\ pc = "contributors" /\ pc' = "contributors"
        /\ \E page : listed' = [listed EXCEPT ![Repo] = @ \cup page]
    BY <1>13 DEF PageArrives, Answered
  <2>2. \A r \in seenRepos : r # Repo => listed'[r] = listed[r]
    BY <1>1, <2>1
  <2>3. Repo' = Repo /\ Contributor' = Contributor
    BY <1>1, <2>1
  <2> QED BY <1>4, <1>5, <2>1, <2>2, <2>3 DEF InHand, InBatch, AtContributors, AtProfile
<1>14. CASE BatchArrives
  <2>1. /\ pc = "contributors" /\ pc' = "batchsave" /\ Repo \in Tracked
        /\ UNCHANGED <<reference, seenRepos, seenProfiles>> /\ Repo' = Repo
    BY <1>1, <1>14, BatchIs
  <2>2. PICK devs \in SUBSET Dev : Listed(Repo, devs) /\ work' = Synced(work, Repo, devs)
    BY <1>14, BatchIs
  <2>3. SyncedOf(work', work, Repo, devs)
    BY <1>1, <2>1, <2>2, SyncedIs
  <2>4. /\ work'.profile = work.profile
        /\ \A x \in Tracked : work'.batch[x]
              = IF x = Repo THEN [at |-> now, limit |-> Limit] ELSE work.batch[x]
    BY <2>3 DEF SyncedOf
  <2>5. HasBatch(work', Repo)
    <3>1. now # Never
      BY <1>1 DEF Instant, Never
    <3>2. work'.batch[Repo].at = now /\ work'.batch[Repo].limit = Limit
      BY <2>1, <2>4
    <3> QED BY <1>1, <3>1, <3>2 DEF HasBatch
  <2>6. \A r \in seenRepos : r # Repo =>
          (HasBatch(work', r) <=> HasBatch(work, r)) /\ listed'[r] = listed[r]
    BY <1>1, <2>2, <2>4 DEF HasBatch, Listed
  <2>7. \A devices : HasProfiles(work', devices) <=> HasProfiles(work, devices)
    BY <2>4 DEF HasProfiles
  <2>8. HasProfiles(work', listed'[Repo] \ queue')
    BY <1>1, <2>1, <2>2 DEF HasProfiles, Listed
  <2>9. pc \in InHand /\ pc' \in InHand
    BY <2>1 DEF InHand, InBatch, AtContributors
  <2>10. \A d \in seenProfiles' : work'.profile[d] # Never
    BY <1>4, <2>1, <2>4
  <2>11. \A r \in seenRepos' : r # Repo' => HasBatch(work', r) /\ HasProfiles(work', listed'[r])
    BY <1>4, <2>1, <2>6, <2>7
  <2>12. pc' # "profilesave" /\ pc' # "finish"
    BY <2>1
  <2> QED BY <1>4, <1>5, <2>1, <2>5, <2>8, <2>9, <2>10, <2>11, <2>12
<1>15. CASE SeenProfile
  <2>1. /\ UNCHANGED <<work, listed, reference, seenRepos, seenProfiles, pc>> /\ Repo' = Repo
        /\ pc = "profile" /\ Contributor \in seenProfiles /\ queue' = queue \ {Contributor}
    BY <1>1, <1>15 DEF SeenProfile, runVars
  <2>2. work.profile[Contributor] # Never
    BY <1>4, <2>1
  <2>3. HasProfiles(work, listed[Repo] \ queue')
    BY <1>4, <2>1, <2>2 DEF HasProfiles, AtContributors
  <2> QED BY <1>4, <1>5, <2>1, <2>3
<1>16. CASE ProfilesDone
  <2>1. /\ UNCHANGED <<work, listed, seenRepos, seenProfiles>> /\ reference' = reference + 1
        /\ pc = "profile" /\ pc' = "body" /\ queue = {}
    BY <1>16 DEF ProfilesDone, NextReference, memory
  <2>2. Repo \in seenRepos /\ HasBatch(work, Repo) /\ HasProfiles(work, listed[Repo] \ {})
    BY <1>1, <1>4, <2>1 DEF AtContributors
  <2>3. listed[Repo] \ {} = listed[Repo]
    OBVIOUS
  <2>4. \A r \in seenRepos : HasBatch(work, r) /\ HasProfiles(work, listed[r])
    BY <1>4, <2>2, <2>3
  <2>5. \A i \in 1..reference' - 1 : References[i] \in seenRepos
    <3> SUFFICES ASSUME NEW i \in 1..reference PROVE References[i] \in seenRepos
      BY <1>1, <2>1
    <3>1. CASE i = reference
      BY <2>2, <3>1 DEF Repo
    <3>2. CASE i # reference
      BY <1>1, <1>4, <3>2
    <3> QED BY <3>1, <3>2
  <2>6. pc' \notin AtContributors
    BY <2>1 DEF AtContributors, AtProfile
  <2> QED BY <1>4, <1>5, <2>1, <2>4, <2>5, <2>6
<1>17. ASSUME NEW d \in Dev, NEW t \in Instant, ReuseProfile(d, t) \/ FetchProfile(d, t)
       PROVE Complete'
  <2>1. /\ UNCHANGED <<work, listed, reference, seenRepos, queue>>
        /\ pc = "profile" /\ pc' \in {"profilesave", "request"}
        /\ seenProfiles' = seenProfiles \cup {d} /\ d = Contributor
        /\ Repo' = Repo /\ Contributor' = Contributor
    BY <1>1, <1>17 DEF ReuseProfile, FetchProfile, NextProfile
  <2>2. pc' = "profilesave" => work.profile[d] # Never
    BY <1>17, <2>1 DEF ReuseProfile, FetchProfile, NeedsRefresh
  <2>3. pc \in InHand /\ pc' \in InHand /\ pc \in AtContributors
    BY <2>1 DEF InHand, AtContributors, AtProfile
  <2> QED BY <1>4, <1>5, <2>1, <2>2, <2>3
<1>18. CASE ProfileArrives
  <2>1. /\ UNCHANGED <<listed, reference, seenRepos, seenProfiles, queue>>
        /\ pc = "request" /\ pc' = "profilesave"
        /\ work' = Profiled(work, Contributor) /\ Repo' = Repo /\ Contributor' = Contributor
    BY <1>1, <1>18 DEF ProfileArrives, Answered, place
  <2>2. Contributor \in Dev
    BY <2>1, LeastIs DEF PlaceInv, AtProfile
  <2>3. ProfiledOf(work', work, Contributor)
    BY <1>1, <2>1, <2>2, ProfiledIs
  <2>4. /\ work'.batch = work.batch
        /\ \A x \in Dev : work'.profile[x] = IF x = Contributor THEN now ELSE work.profile[x]
    BY <2>3 DEF ProfiledOf
  <2>5. now # Never
    BY <1>1 DEF Instant, Never
  <2>6. \A r : HasBatch(work', r) <=> HasBatch(work, r)
    BY <2>4 DEF HasBatch
  <2>7. \A devs \in SUBSET Dev : HasProfiles(work, devs) => HasProfiles(work', devs)
    BY <2>4, <2>5 DEF HasProfiles
  <2>8. \A r \in seenRepos : listed[r] \in SUBSET Dev /\ listed[r] \ queue \in SUBSET Dev
    BY <1>1
  <2>9. pc \in InHand /\ pc' \in InHand /\ pc \in AtContributors /\ Repo \in seenRepos
    BY <1>1, <2>1 DEF InHand, AtContributors, AtProfile
  <2>10. \A d \in seenProfiles : work'.profile[d] # Never
    BY <1>1, <1>4, <2>1, <2>4, <2>5
  <2>11. work'.profile[Contributor] # Never
    BY <2>2, <2>4, <2>5
  <2>12. \A r \in seenRepos : r # Repo => HasBatch(work', r) /\ HasProfiles(work', listed[r])
    BY <1>4, <2>6, <2>7, <2>8
  <2>13. HasBatch(work', Repo) /\ HasProfiles(work', listed[Repo] \ queue)
    BY <1>4, <2>6, <2>7, <2>8, <2>9
  <2> QED BY <1>4, <1>5, <2>1, <2>9, <2>10, <2>11, <2>12, <2>13
<1>19. CASE Done
  <2>1. CASE pc = "batchsave"
    <3>1. /\ UNCHANGED <<work, listed, reference, seenRepos, seenProfiles, queue>>
          /\ pc' = "profile"
      BY <1>19, <2>1 DEF Done, Checkpoint, memory
    <3>2. Stays
      BY <2>1, <3>1 DEF InHand, AtContributors, AtProfile
    <3> QED BY <1>6, <3>2
  <2>2. CASE pc \in {"profilesave", "profilefailsave"}
    <3>1. /\ UNCHANGED <<work, listed, reference, seenRepos, seenProfiles>>
          /\ pc' = "profile" /\ queue' = queue \ {Contributor} /\ Repo' = Repo
          /\ UNCHANGED report
      BY <1>1, <1>19, <2>2 DEF Done, Checkpoint, memory
    <3>2. pc = "profilesave"
      BY <1>3, <2>2, <3>1 DEF CoverInv, StopInv
    <3>3. pc \in AtContributors /\ pc \in InHand /\ pc' \in InHand
      BY <3>1, <3>2 DEF InHand, AtContributors, AtProfile
    <3>4. HasProfiles(work, listed[Repo] \ queue')
      BY <1>4, <3>1, <3>2, <3>3 DEF HasProfiles
    <3> QED BY <1>4, <1>5, <3>1, <3>2, <3>3, <3>4
  <2>3. CASE pc = "failsave"
    <3>1. UNCHANGED report
      BY <1>19, <2>3 DEF Done, Checkpoint, memory
    <3> QED BY <1>3, <2>3, <3>1 DEF CoverInv, StopInv
  <2> QED BY <1>19, <2>1, <2>2, <2>3 DEF Done
<1>20. CASE \/ ChargeAttempt /\ ChargeRefused
            \/ LeaveAttempt \/ DatabaseError \/ OperationFails \/ Failure \/ FailureFails
            \/ NotTracked \/ OtherDeveloperArrives
            \/ Finish(Checkpoints, Empty) \/ Raises \/ Dies
  <2>1. pc' \in {"unwind", "end", "failure", "profilefailure", "failsave", "profilefailsave"}
    BY <1>20 DEF ChargeRefused, LeaveAttempt, Rejected, Interrupted, DatabaseError, StopWith,
       OperationFails, Failure, FailureFails, NotTracked, OtherDeveloperArrives, Answered,
       Finish, Raises, Dies, LoseOwnership, Crash, Vanish
  <2> QED BY <1>3, <2>1
<1>21. CASE Unwind
  BY <1>3, <1>21 DEF Unwind, CoverInv, StopInv
<1> QED BY <1>7, <1>8, <1>9, <1>10, <1>11, <1>12, <1>13, <1>14, <1>15, <1>16, <1>17, <1>18, <1>19,
           <1>20, <1>21 DEF Next, RunStep, Step, ChargeAttempt
(* The closing of a run as "completed" preserves the claim it makes.       *)
LEMMA CompletedKept ==
  ASSUME Parameters, RunInv(Counters, FetchPlaces), PlaceInv, ListedInv, CoverInv, [Next]_vars
  PROVE CompletedMeansDone'
<1> SUFFICES ASSUME HasReceipt', receipt'.status = "completed"
             PROVE CompletedMeansDone'
  BY DEF CompletedMeansDone
<1>1. \/ UNCHANGED <<receipt, store>>
      \/ \E r \in InFlightReceipt(Checkpoints, Empty) : Committed(r)
  <2>1. CASE UNCHANGED runVars
    BY <2>1 DEF runVars
  <2> QED BY <2>1, StepsAreMoves, CommitsInFlight, EnrichIsKind
<1>2. request' = request /\ http \in {"idle", "reserve", "flight"} /\ (http # "idle" => pc \in FetchPlaces)
  BY SameRequest DEF RunInv, TypesKept, PlacesKept
<1>3. pc \in {"finish", "end"} => UNCHANGED listed
  BY <1>2 DEF Next, RunStep, Step, Start, Begin, AllReferencesDone, NotTracked, DuplicateReference, InBody,
     ReuseBatch, NoBatchWanted, FetchBatch, Enter, ChargeAttempt, ReserveAttempt, RetryAttempt,
     LeaveAttempt, IdentityArrives, PageArrives, BatchArrives, SeenProfile, ProfilesDone, ReuseProfile,
     FetchProfile, NextProfile, ProfileArrives, OtherDeveloperArrives, OperationFails, Failure,
     FailureFails, Done, DatabaseError, Dies, vars, place
<1>4. CASE UNCHANGED <<receipt, store>>
  <2>1. HasReceipt /\ receipt.status = "completed"
    BY <1>4 DEF HasReceipt
  <2>2. pc = "end"
    BY <2>1 DEF RunInv, PlacesKept, EndingMatchesReceipt
  <2>3. CompletedMeansDone
    BY DEF CoverInv
  <2> QED BY <1>2, <1>3, <1>4, <2>1, <2>2, <2>3
          DEF CompletedMeansDone, References, Limit, FetchProfiles
<1>5. CASE \E r \in InFlightReceipt(Checkpoints, Empty) : Committed(r)
  <2>1. PICK r \in InFlightReceipt(Checkpoints, Empty) : receipt' = r /\ store' = work
    BY <1>5 DEF Committed
  <2>2. pc = "finish" /\ Status = "completed"
    BY <2>1, InFlightKept, EnrichIsKind
  <2>3. stop = "none" /\ report.failed = 0
    <3>1. report.failed \in Nat
      BY DEF RunInv, TypesKept, Counters
    <3> QED BY <2>2, <3>1 DEF Status
  <2>4. Complete
    BY <2>2, <2>3 DEF CoverInv, Clean
  <2>5. /\ request \in Requests /\ DOMAIN References = 1..Len(References)
        /\ Len(References) \in Nat /\ reference \in 1..Len(References) + 1
        /\ seenRepos \subseteq Tracked
    BY DEF PlaceInv, Parameters, References
  <2>6. reference - 1 = Len(References)
    BY <2>2, <2>4, <2>5 DEF Complete
  <2>7. pc \notin InHand
    BY <2>2 DEF InHand, InBatch, AtContributors, AtProfile
  <2>8. \A i \in DOMAIN References :
          /\ References[i] \in Tracked
          /\ HasBatch(work, References[i]) /\ HasProfiles(work, listed[References[i]])
    BY <2>4, <2>5, <2>6, <2>7 DEF Complete
  <2>9. listed' = listed
    BY <1>3, <2>2
  <2>10. References' = References /\ Limit' = Limit /\ FetchProfiles' = FetchProfiles
    BY <1>2 DEF References, Limit, FetchProfiles
  <2> QED BY <2>1, <2>8, <2>9, <2>10 DEF CompletedMeansDone, HasBatch, HasProfiles
<1> QED BY <1>1, <1>4, <1>5
---------------------------------------------------------------------------
(* The strengthened invariant is inductive.                                *)
LEMMA Inductive ==
  ASSUME Parameters PROVE (Init => IInv) /\ (IInv /\ [Next]_vars => IInv')
<1>1. Init => IInv
  <2> SUFFICES ASSUME Init PROVE IInv
    OBVIOUS
  <2>1. RunInv(Counters, FetchPlaces)
    BY RunStarts, EnrichIsKind DEF Init
  <2>2. /\ pc = "start" /\ http = "idle" /\ stop = "none" /\ ~HasReceipt
        /\ store = RowsBefore /\ work = RowsBefore /\ report = Empty
        /\ request \in Requests /\ PlaceInit
    BY DEF Init, RunInit, HasReceipt
  <2>3. pc \in Special /\ pc \notin Body /\ pc \notin InHand /\ pc \notin InBatch
        /\ pc \notin AtContributors /\ pc \notin AtProfile
    BY <2>2 DEF Special, Body, InHand, InBatch, AtContributors, AtProfile
  <2>4. Len(References) \in Nat /\ Limit \in Nat
    BY <2>2 DEF Parameters, References, Limit
  <2>5. PlaceInv
    <3>1. now \in Instant
      BY <2>2 DEF PlaceInit, Instant, Parameters
    <3>2. /\ reference = 1 /\ seenRepos = {} /\ seenProfiles = {} /\ queue = {}
          /\ existing \in BOOLEAN
      BY <2>2 DEF PlaceInit
    <3>3. reference \in 1..Len(References) + 1
      BY <2>4, <3>2
    <3> QED BY <2>2, <2>3, <3>1, <3>2, <3>3 DEF PlaceInv
  <2>6. ListedInv
    BY <2>2, <2>3, <2>4, FS_EmptySet DEF ListedInv, PlaceInit
  <2>7. RowsInv
    BY <2>2, NothingAccounted DEF RowsInv
  <2>8. AheadInv
    <3>1. RowsBefore.fetched = {}
      BY DEF Parameters
    <3> QED BY <2>2, <2>3, <3>1 DEF AheadInv, Advanced
  <2>9. CoverInv
    <3>1. Complete
      BY <2>2, <2>3 DEF Complete, PlaceInit
    <3> QED BY <2>2, <3>1 DEF CoverInv, StopInv, CompletedMeansDone
  <2> QED BY <2>1, <2>5, <2>6, <2>7, <2>8, <2>9 DEF IInv
<1>2. IInv /\ [Next]_vars => IInv'
  <2> SUFFICES ASSUME IInv, [Next]_vars PROVE IInv'
    OBVIOUS
  <2>0. /\ RunInv(Counters, FetchPlaces) /\ PlaceInv /\ ListedInv /\ RowsInv /\ AheadInv
        /\ CoverInv
    BY DEF IInv
  <2>1. RunInv(Counters, FetchPlaces)'
    BY <2>0, StepsAreMoves, RunKept, RunRests, EnrichIsKind
  <2>2. CoverInv'
    <3>1. StopInv'
      BY <2>0, StopsKept DEF CoverInv
    <3>2. Clean' => Complete'
      BY <2>0, CompleteKept
    <3>3. CompletedMeansDone'
      BY <2>0, CompletedKept
    <3> QED BY <3>1, <3>2, <3>3 DEF CoverInv
  <2> QED BY <2>0, <2>1, <2>2, PlaceKept, ListedKept, RowsKept, AheadKept DEF IInv
<1> QED BY <1>1, <1>2

(* It holds in every reachable state.                                      *)
LEMMA Invariance ==
  ASSUME Parameters PROVE Spec => []IInv
<1>1. Init => IInv
  BY Inductive
<1>2. IInv /\ [Next]_vars => IInv'
  BY Inductive
<1> QED BY <1>1, <1>2, PTL DEF Spec

(* What it says in the terms of the properties.                            *)
LEMMA Consequences ==
  ASSUME Parameters, IInv
  PROVE /\ TypeOK /\ ReservedBeforeSent /\ EndingMatchesReceipt
        /\ ReceiptMatchesRows /\ CompletedMeansDone
<1>0. /\ RunInv(Counters, FetchPlaces) /\ PlaceInv /\ ListedInv /\ RowsInv /\ AheadInv
      /\ CoverInv
  BY DEF IInv
<1>1. ReservedBeforeSent /\ EndingMatchesReceipt
  BY <1>0, RunIsAccounted DEF Parameters
<1>2. ReceiptMatchesRows
  BY <1>0 DEF RowsInv, Accounted, ReceiptMatchesRows
<1>3. TypeOK
  <2>1. HasReceipt => /\ receipt.status \in {"running", "completed", "partial"}
                      /\ receipt.report \in [Counters -> Nat]
                      /\ receipt.requests \in 0..MaxRequests
    BY <1>0 DEF RunInv, TypesKept, HasReceipt, ReceiptType, Statuses
  <2>2. store \in Rows
    <3>1. CASE HasReceipt
      BY <1>0, <3>1 DEF RowsInv, Accounted
    <3>2. CASE ~HasReceipt
      BY <1>0, <3>2 DEF RowsInv, Parameters
    <3> QED BY <3>1, <3>2
  <2>3. \A r \in Tracked : listed[r] \subseteq Dev /\ Cardinality(listed[r]) <= Limit
    BY <1>0 DEF ListedInv
  <2> QED BY <1>0, <2>1, <2>2, <2>3 DEF TypeOK, PlaceInv, ListedInv
<1> QED BY <1>0, <1>1, <1>2, <1>3 DEF CoverInv

(* What becomes durable is what was staged: at the end of a history.       *)
LEMMA HistoryKept ==
  ASSUME Parameters, IInv, [Next]_vars
  PROVE HistoryAdvances
<1>1. /\ RunInv(Counters, FetchPlaces) /\ PlaceInv /\ ListedInv /\ AheadInv
  BY DEF IInv
<1>2. \/ UNCHANGED <<receipt, store>>
      \/ \E r \in InFlightReceipt(Checkpoints, Empty) : Committed(r)
  <2>1. CASE UNCHANGED runVars
    BY <2>1 DEF runVars
  <2> QED BY <1>1, <2>1, StepsAreMoves, CommitsInFlight, EnrichIsKind
<1>3. CASE store' = store
  BY <1>3 DEF HistoryAdvances
<1>4. CASE store' = work
  BY <1>1, <1>4 DEF HistoryAdvances, AheadInv, Advanced
<1> QED BY <1>2, <1>3, <1>4 DEF Committed

---------------------------------------------------------------------------
(* Rows and counters keep their types, and what is known of contributors   *)
(* never exceeds the limit that was asked for.                             *)
THEOREM TypeCorrect ==
  ASSUME Parameters PROVE Spec => []TypeOK
<1>1. IInv => TypeOK
  BY Consequences
<1> QED BY <1>1, Invariance, PTL

(* The receipt counts the contributions, the observations and the profiles *)
(* the run has committed, also when some were there already.               *)
THEOREM Accounting ==
  ASSUME Parameters PROVE Spec => []ReceiptMatchesRows
<1>1. IInv => ReceiptMatchesRows
  BY Consequences
<1> QED BY <1>1, Invariance, PTL

(* "completed" leaves no repository without its batch and no contributor   *)
(* of it without a profile.                                                *)
THEOREM Completeness ==
  ASSUME Parameters PROVE Spec => []CompletedMeansDone
<1>1. IInv => CompletedMeansDone
  BY Consequences
<1> QED BY <1>1, Invariance, PTL

(* A finished receipt and its rows are never written again, the counts of  *)
(* an unfinished one only grow, and so does every history, at its end.     *)
THEOREM Records ==
  ASSUME Parameters PROVE Spec => [][RecordsAreKept]_vars
<1>1. Spec => []IInv
  BY Invariance
<1>2. IInv /\ [Next]_vars => RecordsAreKept
  <2> SUFFICES ASSUME IInv, [Next]_vars PROVE RecordsAreKept
    OBVIOUS
  <2>1. FinalIsFinal /\ AccountGrows
    BY StepsAreMoves, RunKeepsRecords, EnrichIsKind DEF IInv
  <2> QED BY <2>1, HistoryKept DEF RecordsAreKept
<1> QED BY <1>1, <1>2, PTL DEF Spec
---------------------------------------------------------------------------
(* A run of any kind.  DP and RP have the theorems on discoveries and      *)
(* refreshes.  They instantiate the modules that D and R instantiate, so   *)
(* definitions are expanded, down to the last, to see that they are about  *)
(* the same.                                                               *)
DP == INSTANCE DiscoverRun_proofs WITH PerPage <- SearchPerPage
RP == INSTANCE RefreshRun_proofs WITH LastInstant <- LastPoll

(* A discovery of the service starts as a discovery does,                  *)
LEMMA SameDiscoveryStart ==
  /\ D!Parameters => DP!Parameters
  /\ RunInit(D!Empty, D!NoRows) /\ D!PlaceInit => DP!Init
<1>1. D!Parameters => DP!Parameters
  BY DEF D!Parameters, DP!Parameters, D!Answers, DP!Answers
<1>2. RunInit(D!Empty, D!NoRows) => DP!RunInit(DP!Empty, DP!NoRows)
  BY DEF RunInit, DP!RunInit, NoReceipt, DP!NoReceipt, D!Empty, DP!Empty, D!Counters,
     DP!Counters, D!NoRows, DP!NoRows
<1>3. D!PlaceInit => DP!PlaceInit
  BY DEF D!PlaceInit, DP!PlaceInit
<1> QED BY <1>1, <1>2, <1>3 DEF DP!Init

(* takes the steps of a discovery,                                         *)
LEMMA SameDiscoveryStep ==
  D!RunStep \/ D!Dies => DP!Next
BY DEF D!memory, DP!memory, D!NoReceipt, DP!NoReceipt, D!NewReceipt, DP!NewReceipt, D!Count,
   DP!Count, D!Status, DP!Status, D!InFlightReceipt, DP!InFlightReceipt, D!Committed,
   DP!Committed, D!Begin, DP!Begin, D!Checkpoint, DP!Checkpoint, D!Rollback, DP!Rollback,
   D!StopWith, DP!StopWith, D!Noted, DP!Noted, D!Unwind, DP!Unwind, D!Finish, DP!Finish,
   D!Charge, DP!Charge, D!ChargeRefused, DP!ChargeRefused, D!Reserve, DP!Reserve, D!Retry,
   DP!Retry, D!Rejected, DP!Rejected, D!Interrupted, DP!Interrupted, D!Vanish, DP!Vanish,
   D!LoseOwnership, DP!LoseOwnership, D!Crash, DP!Crash, D!Raises, DP!Raises, D!Min, DP!Min,
   D!place, DP!place, D!Counters, DP!Counters, D!Empty, DP!Empty, D!Checkpoints, DP!Checkpoints,
   D!Candidate, DP!Candidate, D!PageSize, DP!PageSize, D!Wanted, DP!Wanted, D!Arrived,
   DP!Arrived, D!Start, DP!Start, D!StartCohort, DP!StartCohort, D!NoCandidatesLeft,
   DP!NoCandidatesLeft, D!AllCohortsDone, DP!AllCohortsDone, D!Yield, DP!Yield, D!Examined,
   DP!Examined, D!IsTracked, DP!IsTracked, D!WithProvenance, DP!WithProvenance, D!Staged, DP!Staged,
   D!SkipDuplicate, DP!SkipDuplicate, D!Reuse, DP!Reuse, D!TooManyNew, DP!TooManyNew,
   D!FetchDetail, DP!FetchDetail, D!NeedsPage, DP!NeedsPage, D!Fetching, DP!Fetching,
   D!ChargeAttempt, DP!ChargeAttempt, D!ReserveAttempt, DP!ReserveAttempt, D!RetryAttempt,
   DP!RetryAttempt, D!LeaveAttempt, DP!LeaveAttempt, D!PageArrives, DP!PageArrives,
   D!SearchFails, DP!SearchFails, D!DetailArrives, DP!DetailArrives, D!OperationFails,
   DP!OperationFails, D!Failure, DP!Failure, D!Done, DP!Done, D!CohortEnds, DP!CohortEnds,
   D!NextCohort, DP!NextCohort, D!CohortTruncated, DP!CohortTruncated, D!DatabaseError,
   DP!DatabaseError, D!RunStep, DP!RunStep, D!Dies, DP!Dies, D!Next, DP!Next

(* and is to have its properties.                                          *)
LEMMA SameDiscoveryProperties ==
  /\ DP!TypeOK => D!TypeOK
  /\ DP!ReceiptMatchesRows => D!ReceiptMatchesRows
  /\ DP!CompletedMeansDone => D!CompletedMeansDone
  /\ DP!LimitsHold => D!LimitsHold
  /\ DP!RecordsAreKept => D!RecordsAreKept
  /\ DP!ReservedBeforeSent => ReservedBeforeSent
  /\ DP!EndingMatchesReceipt => EndingMatchesReceipt
<1>1. DP!TypeOK => D!TypeOK
  BY DEF D!TypeOK, DP!TypeOK, D!HasReceipt, DP!HasReceipt, D!NoReceipt, DP!NoReceipt,
     D!Counters, DP!Counters
<1>2. DP!ReceiptMatchesRows => D!ReceiptMatchesRows
  BY DEF D!ReceiptMatchesRows, DP!ReceiptMatchesRows, D!HasReceipt, DP!HasReceipt, D!NoReceipt,
     DP!NoReceipt, D!NewRows, DP!NewRows, D!NoRows, DP!NoRows, D!Cardinality, DP!Cardinality
<1>3. DP!CompletedMeansDone => D!CompletedMeansDone
  BY DEF D!CompletedMeansDone, DP!CompletedMeansDone, D!HasReceipt, DP!HasReceipt, D!NoReceipt,
     DP!NoReceipt, D!Min, DP!Min
<1>4. DP!LimitsHold => D!LimitsHold
  BY DEF D!LimitsHold, DP!LimitsHold, D!HasReceipt, DP!HasReceipt, D!NoReceipt, DP!NoReceipt,
     D!NewRows, DP!NewRows, D!Cardinality, DP!Cardinality
<1>5. DP!RecordsAreKept => D!RecordsAreKept
  BY DEF D!RecordsAreKept, DP!RecordsAreKept, D!FinalIsFinal, DP!FinalIsFinal, D!AccountGrows,
     DP!AccountGrows, D!HasReceipt, DP!HasReceipt, D!NoReceipt, DP!NoReceipt
<1>6. DP!ReservedBeforeSent => ReservedBeforeSent
  BY DEF ReservedBeforeSent, DP!ReservedBeforeSent, HasReceipt, DP!HasReceipt, NoReceipt,
     DP!NoReceipt
<1>7. DP!EndingMatchesReceipt => EndingMatchesReceipt
  BY DEF EndingMatchesReceipt, DP!EndingMatchesReceipt, HasReceipt, DP!HasReceipt, NoReceipt,
     DP!NoReceipt
<1> QED BY <1>1, <1>2, <1>3, <1>4, <1>5, <1>6, <1>7

(* The same of a refresh.  How it starts,                                  *)
LEMMA SameRefreshStart ==
  /\ R!Parameters => RP!Parameters
  /\ RunInit(R!Empty, R!InitialRows) /\ R!PlaceInit => RP!Init
<1>1. R!Parameters => RP!Parameters
  BY DEF R!Parameters, RP!Parameters, R!Repo, RP!Repo, R!Instant, RP!Instant, R!IsFiniteSet,
     RP!IsFiniteSet
<1>2. RunInit(R!Empty, R!InitialRows) => RP!RunInit(RP!Empty, RP!InitialRows)
  BY DEF RunInit, RP!RunInit, NoReceipt, RP!NoReceipt, R!Empty, RP!Empty, R!Counters,
     RP!Counters, R!InitialRows, RP!InitialRows, R!Repo, RP!Repo
<1>3. R!PlaceInit => RP!PlaceInit
  BY DEF R!PlaceInit, RP!PlaceInit, R!Never, RP!Never
<1> QED BY <1>1, <1>2, <1>3 DEF RP!Init

(* what it does,                                                           *)
LEMMA SameRefreshStep ==
  R!RunStep \/ R!Dies => RP!Next
BY DEF R!memory, RP!memory, R!NoReceipt, RP!NoReceipt, R!NewReceipt, RP!NewReceipt, R!Count,
   RP!Count, R!Status, RP!Status, R!InFlightReceipt, RP!InFlightReceipt, R!Committed,
   RP!Committed, R!Begin, RP!Begin, R!Checkpoint, RP!Checkpoint, R!Rollback, RP!Rollback,
   R!StopWith, RP!StopWith, R!Noted, RP!Noted, R!Unwind, RP!Unwind, R!Finish, RP!Finish,
   R!Charge, RP!Charge, R!ChargeRefused, RP!ChargeRefused, R!Reserve, RP!Reserve, R!Retry,
   RP!Retry, R!Rejected, RP!Rejected, R!Interrupted, RP!Interrupted, R!Vanish, RP!Vanish,
   R!LoseOwnership, RP!LoseOwnership, R!Crash, RP!Crash, R!Raises, RP!Raises, R!Max, RP!Max,
   R!Range, RP!Range, R!SeqOf, RP!SeqOf, R!BoundedSeq, RP!BoundedSeq, R!Repo, RP!Repo,
   R!Instant, RP!Instant, R!place, RP!place, R!Never, RP!Never, R!Counters, RP!Counters,
   R!Empty, RP!Empty, R!Checkpoints, RP!Checkpoints, R!Newest, RP!Newest, R!Start, RP!Start,
   R!Stale, RP!Stale, R!Staler, RP!Staler, R!StaleRepositories, RP!StaleRepositories, R!Select,
   RP!Select, R!Current, RP!Current, R!AllTargetsDone, RP!AllTargetsDone, R!ReadClock,
   RP!ReadClock, R!ChargeAttempt, RP!ChargeAttempt, R!ReserveAttempt, RP!ReserveAttempt,
   R!RetryAttempt, RP!RetryAttempt, R!LeaveAttempt, RP!LeaveAttempt, R!DetailArrives,
   RP!DetailArrives, R!OperationFails, RP!OperationFails, R!Failure, RP!Failure, R!Done,
   RP!Done, R!DatabaseError, RP!DatabaseError, R!RunStep, RP!RunStep, R!Dies, RP!Dies, R!Next,
   RP!Next

(* and what it is to have.                                                 *)
LEMMA SameRefreshProperties ==
  /\ RP!TypeOK => R!TypeOK
  /\ RP!ReceiptMatchesRows => R!ReceiptMatchesRows
  /\ RP!CompletedMeansDone => R!CompletedMeansDone
  /\ RP!RecordsAreKept => R!RecordsAreKept
  /\ RP!ReservedBeforeSent => ReservedBeforeSent
  /\ RP!EndingMatchesReceipt => EndingMatchesReceipt
<1>1. RP!TypeOK => R!TypeOK
  BY DEF R!TypeOK, RP!TypeOK, R!HasReceipt, RP!HasReceipt, R!NoReceipt, RP!NoReceipt, R!Repo,
     RP!Repo, R!Instant, RP!Instant, R!Never, RP!Never, R!Counters, RP!Counters, R!BoundedSeq,
     RP!BoundedSeq, R!SeqOf, RP!SeqOf
<1>2. RP!ReceiptMatchesRows => R!ReceiptMatchesRows
  BY DEF R!ReceiptMatchesRows, RP!ReceiptMatchesRows, R!HasReceipt, RP!HasReceipt, R!NoReceipt,
     RP!NoReceipt, R!Repo, RP!Repo, R!Instant, RP!Instant, R!Inserted, RP!Inserted, R!Polled,
     RP!Polled, R!InitialRows, RP!InitialRows, R!Cardinality, RP!Cardinality
<1>3. RP!CompletedMeansDone => R!CompletedMeansDone
  BY DEF R!CompletedMeansDone, RP!CompletedMeansDone, R!HasReceipt, RP!HasReceipt, R!NoReceipt,
     RP!NoReceipt
<1>4. RP!RecordsAreKept => R!RecordsAreKept
  BY DEF R!RecordsAreKept, RP!RecordsAreKept, R!FinalIsFinal, RP!FinalIsFinal, R!AccountGrows,
     RP!AccountGrows, R!HasReceipt, RP!HasReceipt, R!NoReceipt, RP!NoReceipt, R!HistoryAdvances,
     RP!HistoryAdvances, R!Repo, RP!Repo, R!Newest, RP!Newest, R!Max, RP!Max, R!Never, RP!Never
<1>5. RP!ReservedBeforeSent => ReservedBeforeSent
  BY DEF ReservedBeforeSent, RP!ReservedBeforeSent, HasReceipt, RP!HasReceipt, NoReceipt,
     RP!NoReceipt
<1>6. RP!EndingMatchesReceipt => EndingMatchesReceipt
  BY DEF EndingMatchesReceipt, RP!EndingMatchesReceipt, HasReceipt, RP!HasReceipt, NoReceipt,
     RP!NoReceipt
<1> QED BY <1>1, <1>2, <1>3, <1>4, <1>5, <1>6
---------------------------------------------------------------------------
(* The kind of a run is chosen when it starts, and stays.                  *)
LEMMA KindStays ==
  /\ ServiceInit => kind = "discover" \/ kind = "refresh" \/ kind = "enrich"
  /\ \A k : kind = k /\ [ServiceNext]_serviceVars => (kind = k)'
<1>1. ServiceInit => kind = "discover" \/ kind = "refresh" \/ kind = "enrich"
  BY DEF ServiceInit
<1>2. [ServiceNext]_serviceVars => kind' = kind
  BY DEF ServiceNext, ServiceStep, ServiceDies, Discovery, Refresh, Enrichment, serviceVars
<1> QED BY <1>1, <1>2

(* So a run of one kind behaves as the module of that kind says, whatever  *)
(* variables the other kinds have.                                         *)
LEMMA Discovers ==
  /\ ServiceInit /\ kind = "discover" => DP!Init
  /\ kind = "discover" /\ [ServiceNext]_serviceVars => [DP!Next]_(DP!vars)
  /\ kind = "discover" /\ [ServiceNext]_serviceVars /\ [DP!RecordsAreKept]_(DP!vars)
       => [KindsKeepRecords]_serviceVars
<1>1. ServiceInit /\ kind = "discover" => DP!Init
  BY SameDiscoveryStart DEF ServiceInit
<1>2. kind = "discover" /\ ServiceNext =>
        DP!Next /\ UNCHANGED <<kind, refreshing, enriching, now>>
  BY SameDiscoveryStep DEF ServiceNext, ServiceStep, ServiceDies, Discovery, Refresh, Enrichment
<1>3. UNCHANGED serviceVars => UNCHANGED DP!vars
  BY DEF serviceVars, discovering, runVars, DP!vars, DP!runVars, DP!place
<1>4. UNCHANGED DP!vars /\ UNCHANGED <<kind, refreshing, enriching, now>> => UNCHANGED serviceVars
  BY DEF serviceVars, discovering, runVars, DP!vars, DP!runVars, DP!place
<1>5. DP!RecordsAreKept => D!RecordsAreKept
  BY SameDiscoveryProperties
<1>6. kind = "discover" /\ DP!RecordsAreKept => KindsKeepRecords
  BY <1>5 DEF KindsKeepRecords
<1> QED BY <1>1, <1>2, <1>3, <1>4, <1>6

LEMMA Refreshes ==
  /\ ServiceInit /\ kind = "refresh" => RP!Init
  /\ kind = "refresh" /\ [ServiceNext]_serviceVars => [RP!Next]_(RP!vars)
  /\ kind = "refresh" /\ [ServiceNext]_serviceVars /\ [RP!RecordsAreKept]_(RP!vars)
       => [KindsKeepRecords]_serviceVars
<1>1. ServiceInit /\ kind = "refresh" => RP!Init
  BY SameRefreshStart DEF ServiceInit
<1>2. kind = "refresh" /\ ServiceNext =>
        RP!Next /\ UNCHANGED <<kind, discovering, enriching>>
  BY SameRefreshStep DEF ServiceNext, ServiceStep, ServiceDies, Discovery, Refresh, Enrichment
<1>3. UNCHANGED serviceVars => UNCHANGED RP!vars
  BY DEF serviceVars, refreshing, runVars, RP!vars, RP!runVars, RP!place
<1>4. UNCHANGED RP!vars /\ UNCHANGED <<kind, discovering, enriching>> => UNCHANGED serviceVars
  BY DEF serviceVars, refreshing, runVars, RP!vars, RP!runVars, RP!place
<1>5. RP!RecordsAreKept => R!RecordsAreKept
  BY SameRefreshProperties
<1>6. kind = "refresh" /\ RP!RecordsAreKept => KindsKeepRecords
  BY <1>5 DEF KindsKeepRecords
<1> QED BY <1>1, <1>2, <1>3, <1>4, <1>6

LEMMA Enriches ==
  /\ ServiceInit /\ kind = "enrich" => Init
  /\ kind = "enrich" /\ [ServiceNext]_serviceVars => [Next]_vars
  /\ kind = "enrich" /\ [ServiceNext]_serviceVars /\ [RecordsAreKept]_vars
       => [KindsKeepRecords]_serviceVars
<1>1. ServiceInit /\ kind = "enrich" => Init
  BY DEF ServiceInit, Init
<1>2. kind = "enrich" /\ ServiceNext => Next /\ UNCHANGED <<kind, discovering, refreshing>>
  BY DEF ServiceNext, ServiceStep, ServiceDies, Discovery, Refresh, Enrichment, Next
<1>3. UNCHANGED serviceVars => UNCHANGED vars
  BY DEF serviceVars, enriching, vars, place
<1>4. UNCHANGED vars /\ UNCHANGED <<kind, discovering, refreshing>> => UNCHANGED serviceVars
  BY DEF serviceVars, enriching, vars, place
<1>5. kind = "enrich" /\ RecordsAreKept => KindsKeepRecords
  BY DEF KindsKeepRecords
<1> QED BY <1>1, <1>2, <1>3, <1>4, <1>5

(* What holds in every state of a run, of whichever kind.                  *)
Kept ==
  /\ KindsAreTyped /\ ReservedBeforeSent /\ EndingMatchesReceipt
  /\ RowsAreCounted /\ CompletedIsDone /\ LimitsHold

LEMMA ServiceKept ==
  ServiceSpec => []Kept /\ EveryRecordIsKept
<1>0. Parameters /\ DP!Parameters /\ RP!Parameters
  BY KindParameters, SameDiscoveryStart, SameRefreshStart
<1>1. ServiceSpec /\ kind = "discover" => []Kept /\ EveryRecordIsKept
  <2>1. DP!Spec => /\ []DP!TypeOK /\ []DP!ReservedBeforeSent /\ []DP!EndingMatchesReceipt
                   /\ []DP!ReceiptMatchesRows /\ []DP!CompletedMeansDone /\ []DP!LimitsHold
                   /\ [][DP!RecordsAreKept]_(DP!vars)
    BY <1>0, DP!TypeCorrect, DP!Reserved, DP!Ending, DP!Accounting, DP!Completeness, DP!Limits,
       DP!Records
  <2>2. (/\ kind = "discover" /\ DP!TypeOK /\ DP!ReservedBeforeSent /\ DP!EndingMatchesReceipt
         /\ DP!ReceiptMatchesRows /\ DP!CompletedMeansDone /\ DP!LimitsHold) => Kept
    <3> SUFFICES ASSUME kind = "discover", DP!TypeOK, DP!ReservedBeforeSent,
                        DP!EndingMatchesReceipt, DP!ReceiptMatchesRows,
                        DP!CompletedMeansDone, DP!LimitsHold
                 PROVE  Kept
      OBVIOUS
    <3>0. kind # "refresh" /\ kind # "enrich"
      OBVIOUS
    <3>1. ReservedBeforeSent /\ EndingMatchesReceipt
      BY SameDiscoveryProperties
    <3>2. KindsAreTyped
      <4>1. D!TypeOK
        BY SameDiscoveryProperties
      <4> QED BY <3>0, <4>1 DEF KindsAreTyped
    <3>3. RowsAreCounted
      <4>1. D!ReceiptMatchesRows
        BY SameDiscoveryProperties
      <4> QED BY <3>0, <4>1 DEF RowsAreCounted
    <3>4. CompletedIsDone
      <4>1. D!CompletedMeansDone
        BY SameDiscoveryProperties
      <4> QED BY <3>0, <4>1 DEF CompletedIsDone
    <3>5. LimitsHold
      <4>1. D!LimitsHold
        BY SameDiscoveryProperties
      <4> QED BY <4>1 DEF LimitsHold
    <3> QED BY <3>1, <3>2, <3>3, <3>4, <3>5 DEF Kept
  <2>3. kind = "discover" /\ [ServiceNext]_serviceVars => (kind = "discover")'
    BY KindStays
  <2>4. /\ ServiceInit /\ kind = "discover" => DP!Init
        /\ kind = "discover" /\ [ServiceNext]_serviceVars => [DP!Next]_(DP!vars)
        /\ kind = "discover" /\ [ServiceNext]_serviceVars /\ [DP!RecordsAreKept]_(DP!vars)
             => [KindsKeepRecords]_serviceVars
    BY Discovers
  <2> QED BY <2>1, <2>2, <2>3, <2>4, PTL DEF ServiceSpec, DP!Spec, EveryRecordIsKept
<1>2. ServiceSpec /\ kind = "refresh" => []Kept /\ EveryRecordIsKept
  <2>1. RP!Spec => /\ []RP!TypeOK /\ []RP!ReservedBeforeSent /\ []RP!EndingMatchesReceipt
                   /\ []RP!ReceiptMatchesRows /\ []RP!CompletedMeansDone
                   /\ [][RP!RecordsAreKept]_(RP!vars)
    BY <1>0, RP!TypeCorrect, RP!Reserved, RP!Ending, RP!Accounting, RP!Completeness, RP!Records
  <2>2. (/\ kind = "refresh" /\ RP!TypeOK /\ RP!ReservedBeforeSent /\ RP!EndingMatchesReceipt
         /\ RP!ReceiptMatchesRows /\ RP!CompletedMeansDone) => Kept
    <3> SUFFICES ASSUME kind = "refresh", RP!TypeOK, RP!ReservedBeforeSent,
                        RP!EndingMatchesReceipt, RP!ReceiptMatchesRows,
                        RP!CompletedMeansDone
                 PROVE  Kept
      OBVIOUS
    <3>0. kind # "discover" /\ kind # "enrich"
      OBVIOUS
    <3>1. ReservedBeforeSent /\ EndingMatchesReceipt
      BY SameRefreshProperties
    <3>2. KindsAreTyped
      <4>1. R!TypeOK
        BY SameRefreshProperties
      <4> QED BY <3>0, <4>1 DEF KindsAreTyped
    <3>3. RowsAreCounted
      <4>1. R!ReceiptMatchesRows
        BY SameRefreshProperties
      <4> QED BY <3>0, <4>1 DEF RowsAreCounted
    <3>4. CompletedIsDone
      <4>1. R!CompletedMeansDone
        BY SameRefreshProperties
      <4> QED BY <3>0, <4>1 DEF CompletedIsDone
    <3>5. LimitsHold
      BY <3>0 DEF LimitsHold
    <3> QED BY <3>1, <3>2, <3>3, <3>4, <3>5 DEF Kept
  <2>3. kind = "refresh" /\ [ServiceNext]_serviceVars => (kind = "refresh")'
    BY KindStays
  <2>4. /\ ServiceInit /\ kind = "refresh" => RP!Init
        /\ kind = "refresh" /\ [ServiceNext]_serviceVars => [RP!Next]_(RP!vars)
        /\ kind = "refresh" /\ [ServiceNext]_serviceVars /\ [RP!RecordsAreKept]_(RP!vars)
             => [KindsKeepRecords]_serviceVars
    BY Refreshes
  <2> QED BY <2>1, <2>2, <2>3, <2>4, PTL DEF ServiceSpec, RP!Spec, EveryRecordIsKept
<1>3. ServiceSpec /\ kind = "enrich" => []Kept /\ EveryRecordIsKept
  <2>1. Spec => []IInv /\ [][RecordsAreKept]_vars
    BY <1>0, Invariance, Records
  <2>2. kind = "enrich" /\ IInv => Kept
    BY <1>0, Consequences DEF Kept, KindsAreTyped, RowsAreCounted, CompletedIsDone, LimitsHold
  <2>3. kind = "enrich" /\ [ServiceNext]_serviceVars => (kind = "enrich")'
    BY KindStays
  <2>4. /\ ServiceInit /\ kind = "enrich" => Init
        /\ kind = "enrich" /\ [ServiceNext]_serviceVars => [Next]_vars
        /\ kind = "enrich" /\ [ServiceNext]_serviceVars /\ [RecordsAreKept]_vars
             => [KindsKeepRecords]_serviceVars
    BY Enriches
  <2> QED BY <2>1, <2>2, <2>3, <2>4, PTL DEF ServiceSpec, Spec, EveryRecordIsKept
<1>4. ServiceInit => kind = "discover" \/ kind = "refresh" \/ kind = "enrich"
  BY KindStays
<1> QED BY <1>1, <1>2, <1>3, <1>4, PTL DEF ServiceSpec

---------------------------------------------------------------------------
(* Receipts, reports and rows keep their types in a run of every kind.     *)
THEOREM KindsTyped == ServiceSpec => []KindsAreTyped
<1>1. Kept => KindsAreTyped
  BY DEF Kept
<1> QED BY <1>1, ServiceKept, PTL

(* Requests are in the receipt before they are sent, and within the        *)
(* budget, also those of a run that crashed.                               *)
THEOREM EveryRequestReserved == ServiceSpec => []ReservedBeforeSent
<1>1. Kept => ReservedBeforeSent
  BY DEF Kept
<1> QED BY <1>1, ServiceKept, PTL

(* A run that returned left a finished receipt, an interrupted one that    *)
(* says so, and an unfinished receipt reads "running".                     *)
THEOREM EveryEndingMatches == ServiceSpec => []EndingMatchesReceipt
<1>1. Kept => EndingMatchesReceipt
  BY DEF Kept
<1> QED BY <1>1, ServiceKept, PTL

(* The receipt of a run of every kind counts exactly the rows it has       *)
(* committed, wherever it was cut off.                                     *)
THEOREM EveryRowCounted == ServiceSpec => []RowsAreCounted
<1>1. Kept => RowsAreCounted
  BY DEF Kept
<1> QED BY <1>1, ServiceKept, PTL

(* "completed" is said only of a run that did all it was asked to do.      *)
THEOREM EveryCompletionDone == ServiceSpec => []CompletedIsDone
<1>1. Kept => CompletedIsDone
  BY DEF Kept
<1> QED BY <1>1, ServiceKept, PTL

(* A discovery keeps the limits of its plan.                               *)
THEOREM EveryLimitHolds == ServiceSpec => []LimitsHold
<1>1. Kept => LimitsHold
  BY DEF Kept
<1> QED BY <1>1, ServiceKept, PTL

(* What a run of any kind has put on record stays on record.               *)
THEOREM EveryRecordKept == ServiceSpec => EveryRecordIsKept
BY ServiceKept, PTL
=============================================================================
