-------------------------- MODULE DiscoverRun_proofs --------------------------
(***************************************************************************)
(* The receipt of a discovery matches the committed rows, the reviewed     *)
(* limits hold and "completed" leaves nothing behind, for every plan,      *)
(* every answer of the search and every place where a run may be cut off.  *)
(***************************************************************************)
EXTENDS DiscoverRun, CollectionRun_proofs, FiniteSetTheorems, TLAPS

(* A candidate has been yielded and is not done with.                      *)
Handling == {"examined", "lookup", "detail", "save", "failure", "failsave"}
InCohort == Handling \cup {"search"}
Body == InCohort \cup {"body"}
FetchPlaces == {"search", "detail"}

---------------------------------------------------------------------------
(* Where the run stands in the plan.                                       *)
PlaceInv ==
  /\ pc \in Special \cup Body
  /\ cohort \in 1..Len(Cohort) + 1
  /\ found \in Seq(Answers)
  /\ Len(found) \in {cohort - 1, cohort}
  /\ pc \in {"start", "body"} => Len(found) = cohort - 1
  /\ remaining \in 0..MaxCandidates
  /\ pages \in Nat /\ index \in Nat /\ duplicate \in BOOLEAN
  /\ pc \in InCohort => /\ cohort <= Len(Cohort)
                        /\ Len(found) = cohort
                        /\ index <= Wanted
  /\ pc \in Handling => index > 0
  /\ pc = "search" /\ http # "idle" => NeedsPage

(* Every candidate that was examined is accounted for once.                *)
Handled(r) == r.completed + r.skipped + r.failed

TallyInv ==
  /\ pc \in InCohort => report.examined + remaining = MaxCandidates + index
  /\ report.examined <= MaxCandidates /\ report.unique <= report.examined
  /\ pc \in {"start", "body", "search", "save", "failsave"} =>
       Handled(report) = report.examined
  /\ pc \in {"examined", "lookup", "detail"} =>
       Handled(report) + 1 = report.examined
  /\ pc = "finish" => Handled(report) <= report.examined + 1
  /\ HasReceipt =>
       LET r == receipt.report
       IN /\ r.examined <= MaxCandidates /\ r.unique <= r.examined
          /\ Handled(r) <= r.examined + 1
          /\ pc \in {"body", "search", "examined"} => Handled(r) = r.examined
          /\ pc \in Handling \ {"examined"} =>
               Handled(r) + 1 = r.examined /\ r.examined = report.examined
          /\ pc = "unwind" => Handled(r) <= r.examined

(* Rows and the report that was counted with them.                         *)
New(rows) == rows.tracked \ Known

Accounted(rows, r) ==
  /\ rows = [tracked |-> rows.tracked, provenance |-> rows.provenance]
  /\ Known \subseteq rows.tracked
  /\ IsFiniteSet(New(rows))
  /\ r.new = Cardinality(New(rows)) /\ r.new <= MaxNew
  /\ r.observations = r.new
  /\ r.completed = r.new + r.reused
  /\ \A id \in New(rows) : \E c \in DOMAIN Cohort : <<id, c>> \in rows.provenance

RowsInv ==
  /\ Accounted(work, report)
  /\ HasReceipt => Accounted(store, receipt.report)
  /\ ~HasReceipt => store = NoRows
  /\ pc \notin {"save", "failure", "unwind", "end"} => work = store
  /\ store.tracked \subseteq work.tracked
  /\ pc = "detail" => report.new < MaxNew /\ Candidate \notin work.tracked

(* What has been searched is tracked, unless something failed.             *)
Covers(rows, c, n) ==
  \A i \in 1..n : found[c][i] \in rows.tracked /\ <<found[c][i], c>> \in rows.provenance

Planned(c) == Min({Cohort[c].limit, Len(found[c])})

Pending == pc \in {"examined", "lookup", "detail"}

Searched ==
  /\ \A c \in 1..cohort - 1 : Covers(work, c, Planned(c))
  /\ pc \in InCohort => Covers(work, cohort, IF Pending THEN index - 1 ELSE index)
  /\ seen \subseteq work.tracked \cup (IF Pending THEN {Candidate} ELSE {})
  /\ Pending /\ duplicate => Candidate \in work.tracked

Orderly == (Body \cup {"start"}) \ {"failure"}

StopInv ==
  /\ pc \notin {"unwind", "finish", "end"} => stop = "none"
  /\ pc = "unwind" => stop # "none"
  /\ pc = "failsave" => report.failed > 0

CoverInv ==
  /\ StopInv
  /\ pc \in Orderly /\ report.failed = 0 => Searched
  /\ pc = "finish" /\ stop = "none" /\ report.failed = 0 =>
       /\ Len(found) = Len(Cohort)
       /\ \A c \in 1..Len(Cohort) : Covers(work, c, Planned(c))
  /\ CompletedMeansDone

IInv ==
  RunInv(Counters, FetchPlaces) /\ PlaceInv /\ TallyInv /\ RowsInv /\ CoverInv

---------------------------------------------------------------------------
(* The smaller of two numbers, as the code takes it of two limits.         *)
LEMMA MinOfTwo ==
  ASSUME NEW a \in Nat, NEW b \in Nat
  PROVE /\ Min({a, b}) \in Nat /\ Min({a, b}) <= a /\ Min({a, b}) <= b
        /\ Min({a, b}) = a \/ Min({a, b}) = b
<1>1. \E x \in {a, b} : \A y \in {a, b} : x <= y
  BY SMT
<1> QED BY <1>1 DEF Min

(* The smallest of three numbers: the page size, what the search has left  *)
(* and what the plan has left.                                             *)
LEMMA MinOfThree ==
  ASSUME NEW a \in Nat, NEW b \in Nat, NEW c \in Nat
  PROVE /\ Min({a, b, c}) \in Nat
        /\ Min({a, b, c}) <= a /\ Min({a, b, c}) <= b /\ Min({a, b, c}) <= c
        /\ Min({a, b, c}) = a \/ Min({a, b, c}) = b \/ Min({a, b, c}) = c
<1>1. \E x \in {a, b, c} : \A y \in {a, b, c} : x <= y
  BY SMT
<1> QED BY <1>1 DEF Min

(* The bounds of a search under way.                                       *)
LEMMA Searching ==
  ASSUME Parameters, PlaceInv, pc \in InCohort
  PROVE /\ cohort \in DOMAIN Cohort /\ cohort \in DOMAIN found
        /\ Cohort[cohort].limit \in Nat /\ remaining \in Nat
        /\ Len(found[cohort]) \in Nat
        /\ Wanted \in Nat /\ Arrived \in Nat
        /\ Wanted <= remaining /\ Arrived <= Wanted
        /\ pages = 0 => Arrived = 0
        /\ remaining >= Cohort[cohort].limit => Wanted = Planned(cohort)
<1>1. /\ cohort \in DOMAIN Cohort /\ Cohort[cohort].limit \in Nat
      /\ remaining \in Nat /\ pages \in Nat /\ PerPage \in Nat
  BY DEF Parameters, PlaceInv
<1>2. cohort \in DOMAIN found /\ found[cohort] \in Answers
  BY <1>1 DEF PlaceInv
<1>3. Len(found[cohort]) \in Nat
  BY <1>2 DEF Parameters
<1>4. /\ Wanted \in Nat /\ Wanted <= remaining
      /\ \/ Wanted = Cohort[cohort].limit
         \/ Wanted = remaining
         \/ Wanted = Len(found[cohort])
      /\ Wanted <= Cohort[cohort].limit /\ Wanted <= Len(found[cohort])
  BY <1>1, <1>3, MinOfThree DEF Wanted
<1>5. PageSize \in Nat
  BY <1>1, MinOfThree DEF PageSize
<1>6. pages * PageSize \in Nat /\ (pages = 0 => pages * PageSize = 0)
  BY <1>1, <1>5
<1>7. Arrived \in Nat /\ Arrived <= Wanted /\ (pages = 0 => Arrived = 0)
  BY <1>4, <1>6, MinOfTwo DEF Arrived
<1>8. remaining >= Cohort[cohort].limit => Wanted = Planned(cohort)
  <2>1. /\ Planned(cohort) \in Nat
        /\ Planned(cohort) <= Cohort[cohort].limit /\ Planned(cohort) <= Len(found[cohort])
        /\ Planned(cohort) = Cohort[cohort].limit \/ Planned(cohort) = Len(found[cohort])
    BY <1>1, <1>3, MinOfTwo DEF Planned
  <2> QED BY <1>1, <1>3, <1>4, <2>1
<1> QED BY <1>1, <1>2, <1>3, <1>4, <1>7, <1>8

(* A page that has arrived is read to its end before the next is fetched:  *)
(* no attempt is under way while a candidate is yielded.                   *)
LEMMA YieldsAtRest ==
  ASSUME Parameters, PlaceInv, pc = "search", index < Arrived,
         http \in {"idle", "reserve", "flight"}
  PROVE http = "idle"
<1>1. /\ Arrived \in Nat /\ index \in Nat /\ (pages = 0 => Arrived = 0)
  BY Searching DEF InCohort, PlaceInv
<1>2. ~NeedsPage
  BY <1>1 DEF NeedsPage
<1> QED BY <1>2 DEF PlaceInv

---------------------------------------------------------------------------
(* A discovery is a kind of run as CollectionRun_proofs has it.            *)
LEMMA DiscoveryIsKind ==
  ASSUME Parameters
  PROVE KindOK(Counters, Empty, Checkpoints, FetchPlaces)
  BY DEF Parameters, KindOK, Empty, Checkpoints, FetchPlaces, Special

(* Every step of a discovery is one that any run may take.                 *)
LEMMA StepsAreMoves ==
  ASSUME Parameters, RunInv(Counters, FetchPlaces), PlaceInv, [Next]_vars
  PROVE RunMove(Counters, Empty, Checkpoints, FetchPlaces) \/ UNCHANGED runVars
<1> DEFINE Move == RunMove(Counters, Empty, Checkpoints, FetchPlaces)
           Resting == BodyMove(Counters, FetchPlaces)
<1>1. /\ http \in {"idle", "reserve", "flight"}
      /\ http # "idle" => pc \in FetchPlaces
  BY DEF RunInv, TypesKept, PlacesKept
<1>2. CASE \/ StartCohort \/ AllCohortsDone \/ FetchDetail \/ PageArrives \/ OperationFails
           \/ NextCohort
  <2>1. /\ pc \notin Special /\ pc' \notin {"start", "unwind", "end"}
        /\ UNCHANGED <<receipt, store, used, sent, stop, ending, report>>
        /\ http' \in {http, "idle"}
        /\ http' # "idle" => pc' \in FetchPlaces
    BY <1>1, <1>2 DEF StartCohort, AllCohortsDone, FetchDetail, PageArrives, OperationFails,
                      NextCohort, CohortEnds, memory, Special, FetchPlaces
  <2>2. Resting
    BY <2>1, CountingOn DEF BodyMove
  <2> QED BY <2>2 DEF RunMove
<1>3. CASE Yield \/ SkipDuplicate \/ Reuse \/ DetailArrives \/ Failure
  <2>1. /\ pc \notin Special /\ pc' \notin {"start", "unwind", "end"}
        /\ UNCHANGED <<receipt, store, used, sent, stop, ending>>
        /\ http' = "idle"
    <3>1. CASE Yield
      BY <1>1, <3>1, YieldsAtRest DEF Yield, Special
    <3>2. CASE SkipDuplicate \/ Reuse \/ DetailArrives \/ Failure
      BY <1>1, <3>2 DEF SkipDuplicate, Reuse, DetailArrives, Failure, Staged, Special, FetchPlaces
    <3> QED BY <1>3, <3>1, <3>2
  <2>2. \E cs : report' = Count(report, cs) \/ report' = Count(receipt.report, cs)
    BY <1>3 DEF Yield, SkipDuplicate, Reuse, DetailArrives, Failure, Staged, Rollback
  <2>3. Resting
    <3>1. PICK cs : report' = Count(report, cs) \/ report' = Count(receipt.report, cs)
      BY <2>2
    <3> QED BY <2>1, <3>1, CountingOn DEF BodyMove
  <2> QED BY <2>3 DEF RunMove
<1>4. CASE Examined \/ Done
  BY <1>4 DEF Examined, Done, Checkpoint, RunMove, CheckpointMove, Checkpoints, Special
<1>5. CASE ChargeAttempt
  <2>1. CASE Charge
    BY <1>5, <2>1 DEF ChargeAttempt, Fetching, RunMove, ChargeMove, FetchPlaces
  <2>2. CASE ChargeRefused
    BY <1>5, <2>2 DEF ChargeAttempt, Fetching, ChargeRefused, RunMove, StopMove, Reasons, Special
  <2> QED BY <1>5, <2>1, <2>2 DEF ChargeAttempt
<1>6. CASE ReserveAttempt \/ RetryAttempt
  BY <1>6 DEF ReserveAttempt, RetryAttempt, RunMove
<1>7. CASE LeaveAttempt
  <2>1. pc \notin Special
    BY <1>1, <1>7 DEF LeaveAttempt, Rejected, Interrupted, FetchPlaces, Special
  <2> QED BY <1>7, <2>1 DEF LeaveAttempt, Rejected, Interrupted, RunMove, StopMove, Reasons
<1>8. CASE NoCandidatesLeft \/ TooManyNew \/ SearchFails \/ CohortTruncated \/ DatabaseError
  BY <1>8 DEF NoCandidatesLeft, TooManyNew, SearchFails, CohortTruncated, CohortEnds,
              DatabaseError, RunMove, StopMove, Reasons, Special
<1>9. CASE Start \/ Unwind \/ Finish(Checkpoints, Empty) \/ Raises \/ Dies
  BY <1>9 DEF Start, Dies, RunMove
<1>10. CASE UNCHANGED vars
  BY <1>10 DEF vars
<1> QED BY <1>2, <1>3, <1>4, <1>5, <1>6, <1>7, <1>8, <1>9, <1>10 DEF Next, RunStep

---------------------------------------------------------------------------
(* The plan is followed in order.                                          *)
LEMMA PlaceKept ==
  ASSUME Parameters, RunInv(Counters, FetchPlaces), PlaceInv, TallyInv, [Next]_vars
  PROVE PlaceInv'
<1> DEFINE Stays ==
      /\ UNCHANGED place
      /\ pc' \in Special \cup Body
      /\ pc' \in {"start", "body"} => pc \in {"start", "body"}
      /\ pc' \in InCohort => pc \in InCohort
      /\ pc' \in Handling => pc \in Handling
      /\ pc' = "search" /\ http' # "idle" =>
           pc = "search" /\ (http # "idle" \/ NeedsPage)
<1>1. /\ http \in {"idle", "reserve", "flight"}
      /\ http # "idle" => pc \in FetchPlaces
  BY DEF RunInv, TypesKept, PlacesKept
<1>2. CASE Stays
  <2>1. Wanted' = Wanted /\ NeedsPage' = NeedsPage
    BY <1>2 DEF Wanted, NeedsPage, Arrived, PageSize, place
  <2> QED BY <1>2, <2>1 DEF PlaceInv, place
<1>3. CASE Start \/ NoCandidatesLeft \/ AllCohortsDone \/ Examined \/ SkipDuplicate \/ Reuse
           \/ TooManyNew \/ FetchDetail
  <2>1. Stays
    BY <1>1, <1>3 DEF Start, Begin, NoCandidatesLeft, AllCohortsDone, Examined, Checkpoint,
       SkipDuplicate, Reuse, Staged, TooManyNew, FetchDetail, StopWith, memory,
       Special, Body, InCohort, Handling, FetchPlaces
  <2> QED BY <1>2, <2>1
<1>4. CASE ChargeAttempt \/ ReserveAttempt \/ RetryAttempt \/ LeaveAttempt
  <2>1. Stays
    BY <1>1, <1>4 DEF ChargeAttempt, Fetching, Charge, ChargeRefused, ReserveAttempt, Reserve,
       RetryAttempt, Retry, LeaveAttempt, Rejected, Interrupted, StopWith,
       Special, Body, InCohort, Handling, FetchPlaces
  <2> QED BY <1>2, <2>1
<1>5. CASE SearchFails \/ DetailArrives \/ OperationFails \/ Failure \/ Done
           \/ CohortTruncated \/ DatabaseError
  <2>1. Stays
    BY <1>1, <1>5 DEF SearchFails, DetailArrives, OperationFails, Failure, Done, Staged,
       Checkpoint, CohortTruncated, CohortEnds, DatabaseError, StopWith, memory,
       Special, Body, InCohort, Handling, FetchPlaces
  <2> QED BY <1>2, <2>1
<1>6. CASE \/ (Unwind \/ Finish(Checkpoints, Empty) \/ Raises) /\ UNCHANGED place
           \/ Dies
           \/ UNCHANGED vars
  <2>1. Stays
    BY <1>1, <1>6 DEF Unwind, Finish, Raises, Dies, LoseOwnership, Crash, Vanish, PlaceInv,
       vars, runVars, Special, Body, InCohort, Handling, FetchPlaces
  <2> QED BY <1>2, <2>1
<1>7. CASE StartCohort
  <2>1. PICK answer \in Cohort[cohort].answers : found' = Append(found, answer)
    BY <1>7 DEF StartCohort
  <2>2. /\ cohort <= Len(Cohort) /\ cohort' = cohort /\ duplicate' = duplicate
        /\ remaining' = MaxCandidates - report.examined /\ report.examined < MaxCandidates
        /\ pages' = 0 /\ index' = 0 /\ pc' = "search" /\ http' = http /\ pc = "body"
    BY <1>7 DEF StartCohort, memory
  <2>3. cohort \in DOMAIN Cohort /\ answer \in Answers
    BY <2>2 DEF PlaceInv, Parameters, Answers
  <2>4. found' \in Seq(Answers) /\ Len(found') = cohort
    BY <2>1, <2>2, <2>3 DEF PlaceInv
  <2>5. remaining' \in 0..MaxCandidates
    BY <2>2, CountingOn DEF Parameters, Counters, Special
  <2>6. http' = "idle"
    BY <1>1, <2>2 DEF FetchPlaces
  <2>7. Wanted' \in Nat
    <3>1. cohort' \in DOMAIN found' /\ cohort' \in DOMAIN Cohort
      BY <2>2, <2>3, <2>4 DEF PlaceInv
    <3>2. Len(found'[cohort']) \in Nat /\ Cohort[cohort'].limit \in Nat
      BY <2>4, <3>1 DEF Parameters
    <3>3. remaining' \in Nat
      BY <2>5 DEF Parameters
    <3>4. Wanted' = Min({Cohort[cohort'].limit, remaining', Len(found'[cohort'])})
      BY DEF Wanted
    <3> QED BY ONLY <3>2, <3>3, <3>4, MinOfThree
  <2> QED BY <2>2, <2>4, <2>5, <2>6, <2>7 DEF PlaceInv, InCohort, Handling, Body
<1>8. CASE Yield
  <2>1. /\ UNCHANGED <<cohort, found, remaining, pages>> /\ index' = index + 1
        /\ pc = "search" /\ pc' = "examined" /\ duplicate' \in BOOLEAN
        /\ index < Arrived
    BY <1>8 DEF Yield
  <2>2. Arrived \in Nat /\ Wanted \in Nat /\ Arrived <= Wanted
    BY <2>1, Searching DEF InCohort
  <2>3. Wanted' = Wanted
    BY <2>1 DEF Wanted
  <2> QED BY <2>1, <2>2, <2>3 DEF PlaceInv, InCohort, Handling, Body
<1>9. CASE PageArrives
  <2>1. /\ UNCHANGED <<cohort, found, remaining, index, duplicate, pc>> /\ pages' = pages + 1
        /\ pc = "search" /\ http' = "idle"
    BY <1>9 DEF PageArrives
  <2>2. Wanted' = Wanted
    BY <2>1 DEF Wanted
  <2> QED BY <2>1, <2>2 DEF PlaceInv, InCohort, Handling, Body
<1>10. CASE NextCohort
  <2>1. /\ UNCHANGED <<found, remaining, pages, index, duplicate>> /\ cohort' = cohort + 1
        /\ pc = "search" /\ pc' = "body"
    BY <1>10 DEF NextCohort, CohortEnds
  <2> QED BY <2>1 DEF PlaceInv, InCohort, Handling, Body, Parameters
<1> QED BY <1>3, <1>4, <1>5, <1>6, <1>7, <1>8, <1>9, <1>10 DEF Next, RunStep

---------------------------------------------------------------------------
(* Every candidate is accounted for once, also when it fails, when its     *)
(* failure cannot be saved and when the run is cut off.                    *)
LEMMA TallyKept ==
  ASSUME Parameters, RunInv(Counters, FetchPlaces), PlaceInv, TallyInv, [Next]_vars
  PROVE TallyInv'
<1>1. /\ http \in {"idle", "reserve", "flight"}
      /\ http # "idle" => pc \in FetchPlaces
      /\ report \in [Counters -> Nat]
      /\ HasReceipt => receipt.report \in [Counters -> Nat]
      /\ ~HasReceipt => pc \in {"start", "end"}
      /\ pc = "start" => ~HasReceipt
      /\ MaxCandidates \in Nat /\ remaining \in Nat /\ index \in Nat
  BY DEF RunInv, TypesKept, PlacesKept, HasReceipt, ReceiptType, Parameters, PlaceInv
<1>2. \A r \in [Counters -> Nat] :
         /\ r.examined \in Nat /\ r.unique \in Nat /\ r.completed \in Nat
         /\ r.skipped \in Nat /\ r.failed \in Nat /\ Handled(r) \in Nat
  BY DEF Counters, Handled
<1>3. \A r \in [Counters -> Nat], cs \in SUBSET Counters :
         /\ Count(r, cs).examined = r.examined + (IF "examined" \in cs THEN 1 ELSE 0)
         /\ Count(r, cs).unique = r.unique + (IF "unique" \in cs THEN 1 ELSE 0)
         /\ Handled(Count(r, cs)) = Handled(r) + (IF "completed" \in cs THEN 1 ELSE 0)
              + (IF "skipped" \in cs THEN 1 ELSE 0) + (IF "failed" \in cs THEN 1 ELSE 0)
  BY DEF Count, Counters, Handled
<1> DEFINE Quiet ==
      /\ UNCHANGED <<report, remaining, index>>
      /\ HasReceipt' <=> HasReceipt
      /\ HasReceipt => receipt'.report = receipt.report
      /\ \/ pc' \in {pc, "end"}
         \/ pc' = "unwind" /\ pc \notin Special
         \/ pc = "body" /\ pc' = "finish"
         \/ pc = "lookup" /\ pc' = "detail"
         \/ pc \in {"lookup", "detail", "save"} /\ pc' = "failure"
         \/ pc = "search" /\ pc' = "body"
<1>4. CASE Quiet
  <2>1. pc \in Special \cup Body
    BY DEF PlaceInv
  <2> QED BY <1>1, <1>2, <1>4, <2>1
          DEF TallyInv, Special, Body, InCohort, Handling
<1>5. CASE AllCohortsDone \/ FetchDetail \/ PageArrives \/ OperationFails \/ NextCohort
  <2>1. Quiet
    BY <1>1, <1>5 DEF AllCohortsDone, FetchDetail, PageArrives, OperationFails, NextCohort,
       CohortEnds, memory, place, HasReceipt, FetchPlaces
  <2> QED BY <1>4, <2>1
<1>6. CASE ChargeAttempt \/ ReserveAttempt \/ RetryAttempt
  <2>1. CASE (ChargeAttempt /\ Charge) \/ RetryAttempt
    <3>1. Quiet
      BY <1>1, <2>1 DEF ChargeAttempt, Charge, RetryAttempt, Retry, place, HasReceipt
    <3> QED BY <1>4, <3>1
  <2>2. CASE ReserveAttempt
    <3>1. HasReceipt /\ HasReceipt'
      <4>1. RunInv(Counters, FetchPlaces)'
        BY StepsAreMoves, RunKept, RunRests, DiscoveryIsKind
      <4>2. pc' = pc /\ pc \in FetchPlaces
        BY <1>1, <2>2 DEF ReserveAttempt, Reserve
      <4>3. HasReceipt' \/ pc' \in {"start", "end"}
        BY <4>1 DEF RunInv, PlacesKept
      <4> QED BY <1>1, <4>2, <4>3 DEF FetchPlaces
    <3>2. Quiet
      BY <1>1, <2>2, <3>1 DEF ReserveAttempt, Reserve, Committed, place, HasReceipt
    <3> QED BY <1>4, <3>2
  <2>3. CASE ChargeAttempt /\ ChargeRefused
    <3>1. Quiet
      BY <2>3 DEF ChargeAttempt, ChargeRefused, Fetching, StopWith, place, HasReceipt, Special
    <3> QED BY <1>4, <3>1
  <2> QED BY <1>6, <2>1, <2>2, <2>3 DEF ChargeAttempt
<1>7. CASE LeaveAttempt \/ NoCandidatesLeft \/ TooManyNew \/ SearchFails \/ CohortTruncated
           \/ DatabaseError
  <2>1. Quiet
    BY <1>1, <1>7 DEF LeaveAttempt, Rejected, Interrupted, NoCandidatesLeft, TooManyNew,
       SearchFails, CohortTruncated, CohortEnds, DatabaseError, StopWith, place,
       HasReceipt, Special, FetchPlaces
  <2> QED BY <1>4, <2>1
<1>8. CASE (Raises /\ UNCHANGED place) \/ UNCHANGED vars
  <2>1. Quiet
    BY <1>8 DEF Raises, memory, vars, runVars, place, HasReceipt
  <2> QED BY <1>4, <2>1
<1>9. CASE Start
  <2>1. /\ pc = "start" /\ pc' = "body" /\ UNCHANGED <<report, remaining, index>>
        /\ http = "idle"
    <3>1. pc = "start"
      BY <1>9 DEF Start, Begin
    <3>2. "start" \notin FetchPlaces
      BY DEF FetchPlaces
    <3> QED BY <1>1, <1>9, <3>1, <3>2 DEF Start, Begin, memory, place
  <2>2. receipt'.report = Empty
    BY <1>9, <2>1 DEF Start, Begin, InFlightReceipt, Committed, NewReceipt
  <2>3. Handled(Empty) = 0 /\ Empty.examined = 0 /\ Empty.unique = 0
    BY DEF Handled, Empty, Counters
  <2> QED BY <1>1, <2>1, <2>2, <2>3 DEF TallyInv, InCohort, Handling
<1>10. CASE StartCohort
  <2>1. /\ pc = "body" /\ pc' = "search" /\ UNCHANGED <<report, receipt>>
        /\ remaining' = MaxCandidates - report.examined /\ index' = 0
        /\ HasReceipt' <=> HasReceipt
    BY <1>10 DEF StartCohort, memory, HasReceipt
  <2> QED BY <1>1, <1>2, <2>1 DEF TallyInv, InCohort, Handling
<1>11. CASE Yield
  <2>1. /\ pc = "search" /\ pc' = "examined" /\ UNCHANGED <<receipt, remaining>>
        /\ index' = index + 1 /\ index < Arrived
        /\ HasReceipt' <=> HasReceipt
    BY <1>11 DEF Yield, HasReceipt
  <2>2. \E cs \in {{"examined"}, {"examined", "unique"}} : report' = Count(report, cs)
    BY <1>11 DEF Yield
  <2>3. Arrived \in Nat /\ Wanted \in Nat /\ Arrived <= Wanted /\ Wanted <= remaining
    BY <2>1, Searching DEF InCohort
  <2>4. /\ report'.examined = report.examined + 1
        /\ report'.unique \in {report.unique, report.unique + 1}
        /\ Handled(report') = Handled(report)
    BY <1>1, <1>2, <1>3, <2>2 DEF Counters
  <2> QED BY <1>1, <1>2, <2>1, <2>3, <2>4 DEF TallyInv, InCohort, Handling
<1>12. CASE Examined \/ Done
  <2>1. /\ \/ pc = "examined" /\ pc' = "lookup"
           \/ pc \in {"save", "failsave"} /\ pc' = "search"
        /\ UNCHANGED <<report, remaining, index>>
        /\ receipt' = [receipt EXCEPT !.report = report]
    BY <1>12 DEF Examined, Done, Checkpoint, Committed, memory, place
  <2>2. receipt'.report = report
    <3>1. HasReceipt
      BY <1>1, <2>1
    <3>2. receipt \in ReceiptType(Counters)
      BY <3>1 DEF RunInv, TypesKept, HasReceipt
    <3> QED BY <2>1, <3>2 DEF ReceiptType
  <2> QED BY <1>1, <1>2, <2>1, <2>2 DEF TallyInv, InCohort, Handling
<1>13. CASE SkipDuplicate \/ Reuse \/ DetailArrives
  <2>1. /\ pc \in {"lookup", "detail"} /\ pc' = "save" /\ UNCHANGED <<receipt, remaining, index>>
        /\ HasReceipt' <=> HasReceipt
    BY <1>13 DEF SkipDuplicate, Reuse, DetailArrives, Staged, place, HasReceipt
  <2>2. \E cs \in {{"skipped"}, {"reused", "completed"}, {"new", "observations", "completed"}} :
           report' = Count(report, cs)
    BY <1>13 DEF SkipDuplicate, Reuse, DetailArrives, Staged
  <2>3. /\ report'.examined = report.examined /\ report'.unique = report.unique
        /\ Handled(report') = Handled(report) + 1
    BY <1>1, <1>2, <1>3, <2>2 DEF Counters
  <2> QED BY <1>1, <1>2, <2>1, <2>3 DEF TallyInv, InCohort, Handling
<1>14. CASE Failure
  <2>1. /\ pc = "failure" /\ pc' = "failsave" /\ UNCHANGED <<receipt, remaining, index>>
        /\ report' = Count(receipt.report, {"failed"}) /\ HasReceipt /\ HasReceipt'
    BY <1>1, <1>14 DEF Failure, Rollback, place, HasReceipt
  <2>2. /\ report'.examined = receipt.report.examined
        /\ report'.unique = receipt.report.unique
        /\ Handled(report') = Handled(receipt.report) + 1
    BY <1>1, <1>2, <1>3, <2>1 DEF Counters
  <2> QED BY <1>1, <1>2, <2>1, <2>2 DEF TallyInv, InCohort, Handling
<1>15. CASE Unwind /\ UNCHANGED place
  <2>1. /\ pc = "unwind" /\ pc' = "finish" /\ UNCHANGED receipt
        /\ report' = Count(receipt.report, Noted) /\ HasReceipt /\ HasReceipt'
    BY <1>1, <1>15 DEF Unwind, Rollback, HasReceipt
  <2>2. Noted \in {{}, {"failed"}, {"skipped"}}
    BY DEF Noted
  <2>3. /\ report'.examined = receipt.report.examined
        /\ report'.unique = receipt.report.unique
        /\ Handled(report') \in {Handled(receipt.report), Handled(receipt.report) + 1}
    BY <1>1, <1>2, <1>3, <2>1, <2>2 DEF Counters
  <2> QED BY <1>1, <1>2, <2>1, <2>3 DEF TallyInv, InCohort, Handling
<1>16. CASE (Finish(Checkpoints, Empty) /\ UNCHANGED place) \/ Dies
  <2>1. pc' = "end" /\ UNCHANGED <<report, remaining, index>> /\ pc # "end"
    BY <1>16 DEF Finish, Dies, LoseOwnership, Crash, Vanish, memory, place
  <2>2. CASE UNCHANGED receipt
    <3>1. Quiet
      BY <2>1, <2>2 DEF HasReceipt
    <3> QED BY <1>4, <3>1
  <2>3. CASE \E r \in InFlightReceipt(Checkpoints, Empty) : receipt' = r
    <3>1. \/ receipt' = NewReceipt(Empty)
          \/ HasReceipt /\ receipt'.report = receipt.report
          \/ HasReceipt /\ receipt'.report = report /\ pc \in Checkpoints \cup {"finish"}
      <4>1. receipt = NoReceipt \/ receipt \in ReceiptType(Counters)
        BY DEF RunInv, TypesKept
      <4>2. pc # "start" => HasReceipt /\ receipt \in ReceiptType(Counters)
        BY <1>1, <2>1, <4>1 DEF HasReceipt
      <4>3. http = "reserve" => pc # "start"
        BY <1>1 DEF FetchPlaces
      <4>4. CASE http = "reserve" /\ receipt' = [receipt EXCEPT !.requests = used]
        BY <4>2, <4>3, <4>4 DEF ReceiptType
      <4>5. CASE /\ pc \in Checkpoints
                 /\ receipt' = [receipt EXCEPT !.report = report]
        BY <4>2, <4>5 DEF ReceiptType, Checkpoints
      <4>6. CASE /\ pc = "finish"
                 /\ receipt' = [receipt EXCEPT !.report = report, !.stop = stop,
                                               !.status = Status, !.finished = TRUE]
        BY <4>2, <4>6 DEF ReceiptType
      <4> QED BY <2>3, <4>4, <4>5, <4>6 DEF InFlightReceipt
    <3>2. Handled(Empty) = 0 /\ Empty.examined = 0 /\ Empty.unique = 0
          /\ NewReceipt(Empty).report = Empty
      BY DEF Handled, Empty, Counters, NewReceipt
    <3>3. pc \in Checkpoints => Handled(report) <= report.examined + 1
      BY <1>1, <1>2 DEF TallyInv, Checkpoints
    <3> QED BY <1>1, <1>2, <2>1, <3>1, <3>2, <3>3 DEF TallyInv, InCohort, Handling
  <2> QED BY <1>16, <2>2, <2>3
          DEF Finish, Dies, LoseOwnership, Crash, Vanish, Committed
<1> QED BY <1>5, <1>6, <1>7, <1>8, <1>9, <1>10, <1>11, <1>12, <1>13, <1>14, <1>15, <1>16
        DEF Next, RunStep

---------------------------------------------------------------------------
(* Counters that speak of no row may be counted freely.                    *)
LEMMA OtherCounts ==
  ASSUME NEW rows, NEW r \in [Counters -> Nat],
         NEW cs \in SUBSET {"examined", "unique", "skipped", "failed"},
         Accounted(rows, r)
  PROVE Accounted(rows, Count(r, cs))
<1>1. /\ Count(r, cs).new = r.new /\ Count(r, cs).observations = r.observations
      /\ Count(r, cs).completed = r.completed /\ Count(r, cs).reused = r.reused
  BY DEF Count, Counters
<1> QED BY <1>1 DEF Accounted

(* Before anything is staged there is no row to account for.               *)
LEMMA NothingAccounted ==
  ASSUME MaxNew \in Nat
  PROVE Accounted(NoRows, Empty)
<1>1. New(NoRows) = {} /\ NoRows = [tracked |-> Known, provenance |-> {}]
  BY DEF New, NoRows
<1>2. IsFiniteSet({}) /\ Cardinality({}) = 0
  BY FS_EmptySet
<1>3. Empty.new = 0 /\ Empty.observations = 0 /\ Empty.completed = 0 /\ Empty.reused = 0
  BY DEF Empty, Counters
<1> QED BY <1>1, <1>2, <1>3 DEF Accounted

Linked(rows, id, c) == [rows EXCEPT !.provenance = @ \cup {<<id, c>>}]
Added(rows, id) == [rows EXCEPT !.tracked = @ \cup {id}]

(* What is staged extends what is committed.                               *)
LEMMA StagedRows ==
  ASSUME NEW rows, NEW id, NEW c,
         rows = [tracked |-> rows.tracked, provenance |-> rows.provenance]
  PROVE /\ Linked(rows, id, c) = [tracked |-> rows.tracked,
                                  provenance |-> rows.provenance \cup {<<id, c>>}]
        /\ Added(rows, id) = [tracked |-> rows.tracked \cup {id},
                              provenance |-> rows.provenance]
<1>1. PICK T, P : rows = [tracked |-> T, provenance |-> P]
  OBVIOUS
<1> QED BY <1>1 DEF Linked, Added

(* The ways a candidate is staged.                                         *)
LEMMA ReuseAccounted ==
  ASSUME NEW rows, NEW r \in [Counters -> Nat], NEW id, NEW c, Accounted(rows, r)
  PROVE /\ Accounted(Linked(rows, id, c), r)
        /\ Accounted(Linked(rows, id, c), Count(r, {"reused", "completed"}))
<1> DEFINE after == Linked(rows, id, c)
<1>1. /\ after.tracked = rows.tracked
      /\ after.provenance = rows.provenance \cup {<<id, c>>}
      /\ after = [tracked |-> after.tracked, provenance |-> after.provenance]
  <2>1. after = [tracked |-> rows.tracked, provenance |-> rows.provenance \cup {<<id, c>>}]
    BY StagedRows DEF Accounted
  <2> QED BY <2>1
<1>2. New(after) = New(rows)
  BY <1>1 DEF New
<1>3. Accounted(after, r)
  BY <1>1, <1>2 DEF Accounted
<1>4. /\ Count(r, {"reused", "completed"}).new = r.new
      /\ Count(r, {"reused", "completed"}).observations = r.observations
      /\ Count(r, {"reused", "completed"}).completed = r.completed + 1
      /\ Count(r, {"reused", "completed"}).reused = r.reused + 1
      /\ r.new \in Nat /\ r.reused \in Nat
  BY DEF Count, Counters
<1> HIDE DEF after
<1>5. Accounted(after, Count(r, {"reused", "completed"}))
  BY <1>3, <1>4 DEF Accounted
<1> QED BY <1>3, <1>5 DEF after

LEMMA NewAccounted ==
  ASSUME NEW rows, NEW r \in [Counters -> Nat], NEW id, NEW c \in DOMAIN Cohort,
         Accounted(rows, r), id \notin rows.tracked, r.new < MaxNew, MaxNew \in Nat
  PROVE Accounted(Linked(Added(rows, id), id, c), Count(r, {"new", "observations", "completed"}))
<1> DEFINE after == Linked(Added(rows, id), id, c)
           counted == Count(r, {"new", "observations", "completed"})
<1>1. /\ after.tracked = rows.tracked \cup {id}
      /\ after.provenance = rows.provenance \cup {<<id, c>>}
      /\ after = [tracked |-> after.tracked, provenance |-> after.provenance]
  <2>1. Added(rows, id) = [tracked |-> rows.tracked \cup {id},
                           provenance |-> rows.provenance]
    BY StagedRows DEF Accounted
  <2> DEFINE added == Added(rows, id)
  <2>2. /\ added.tracked = rows.tracked \cup {id} /\ added.provenance = rows.provenance
        /\ added = [tracked |-> added.tracked, provenance |-> added.provenance]
    BY <2>1
  <2> HIDE DEF added
  <2>3. Linked(added, id, c) = [tracked |-> added.tracked,
                                provenance |-> added.provenance \cup {<<id, c>>}]
    BY <2>2, StagedRows
  <2>4. after = [tracked |-> rows.tracked \cup {id},
                 provenance |-> rows.provenance \cup {<<id, c>>}]
    BY <2>2, <2>3 DEF added
  <2> QED BY <2>4
<1>2. /\ counted.new = r.new + 1 /\ counted.observations = r.observations + 1
      /\ counted.completed = r.completed + 1 /\ counted.reused = r.reused
      /\ r.new \in Nat /\ r.reused \in Nat
  BY DEF Count, Counters
<1> HIDE DEF after, counted
<1>3. id \notin New(rows) /\ New(after) = New(rows) \cup {id}
  BY <1>1 DEF New, Accounted
<1>4. IsFiniteSet(New(after)) /\ Cardinality(New(after)) = Cardinality(New(rows)) + 1
  BY <1>3, FS_AddElement DEF Accounted
<1>5. \A x \in New(after) : \E d \in DOMAIN Cohort : <<x, d>> \in after.provenance
  BY <1>1, <1>3 DEF Accounted
<1>6. Known \subseteq after.tracked
  BY <1>1 DEF Accounted
<1>7. Accounted(after, counted)
  BY <1>1, <1>2, <1>4, <1>5, <1>6 DEF Accounted
<1> QED BY <1>7 DEF after, counted

(* No row without its account, no account without its row.                 *)
LEMMA RowsKept ==
  ASSUME Parameters, RunInv(Counters, FetchPlaces), PlaceInv, RowsInv, [Next]_vars
  PROVE RowsInv'
<1>1. /\ http \in {"idle", "reserve", "flight"}
      /\ http # "idle" => pc \in FetchPlaces
      /\ report \in [Counters -> Nat]
      /\ HasReceipt => receipt \in ReceiptType(Counters) /\ receipt.report \in [Counters -> Nat]
      /\ ~HasReceipt => pc \in {"start", "end"}
      /\ pc = "start" => ~HasReceipt
      /\ MaxNew \in Nat
  BY DEF RunInv, TypesKept, PlacesKept, HasReceipt, ReceiptType, Parameters
<1> DEFINE Quiet ==
      /\ UNCHANGED <<work, report, store>>
      /\ HasReceipt' <=> HasReceipt
      /\ HasReceipt => receipt'.report = receipt.report
      /\ \/ pc' \in {pc, "end", "unwind", "failure"}
         \/ pc \notin {"save", "failure", "unwind", "end"}
      /\ pc' = "detail" => pc = "detail" /\ UNCHANGED place
<1>2. CASE Quiet
  <2>1. pc' = "detail" => Candidate' = Candidate
    BY <1>2 DEF Candidate, place
  <2>2. Accounted(work, report)' = Accounted(work, report)
    BY <1>2
  <2>3. HasReceipt' => Accounted(store, receipt.report)'
    BY <1>2 DEF RowsInv
  <2> QED BY <1>2, <2>1, <2>2, <2>3 DEF RowsInv
<1>3. CASE StartCohort \/ AllCohortsDone \/ PageArrives \/ OperationFails \/ NextCohort
  <2>1. Quiet
    BY <1>1, <1>3 DEF StartCohort, AllCohortsDone, PageArrives, OperationFails, NextCohort,
       CohortEnds, memory, HasReceipt
  <2> QED BY <1>2, <2>1
<1>4. CASE FetchDetail
  <2>1. /\ UNCHANGED <<work, report, store, receipt, place>> /\ pc = "lookup" /\ pc' = "detail"
        /\ report.new < MaxNew /\ Candidate \notin work.tracked
        /\ HasReceipt' <=> HasReceipt
    BY <1>4 DEF FetchDetail, IsTracked, memory, HasReceipt
  <2>2. Candidate' = Candidate
    BY <2>1 DEF Candidate, place
  <2> QED BY <2>1, <2>2 DEF RowsInv
<1>5. CASE ChargeAttempt \/ RetryAttempt \/ LeaveAttempt
  <2>1. Quiet
    BY <1>1, <1>5 DEF ChargeAttempt, Charge, ChargeRefused, RetryAttempt, Retry, LeaveAttempt,
       Rejected, Interrupted, StopWith, HasReceipt
  <2> QED BY <1>2, <2>1
<1>6. CASE NoCandidatesLeft \/ TooManyNew \/ SearchFails \/ CohortTruncated \/ DatabaseError
  <2>1. Quiet
    BY <1>6 DEF NoCandidatesLeft, TooManyNew, SearchFails, CohortTruncated, DatabaseError,
       StopWith, HasReceipt
  <2> QED BY <1>2, <2>1
<1>7. CASE (Raises /\ UNCHANGED place) \/ UNCHANGED vars
  <2>1. Quiet
    BY <1>7 DEF Raises, memory, vars, runVars, HasReceipt
  <2> QED BY <1>2, <2>1
<1>8. CASE Yield
  <2>1. /\ UNCHANGED <<work, store, receipt>> /\ pc = "search" /\ pc' = "examined"
        /\ HasReceipt' <=> HasReceipt
    BY <1>8 DEF Yield, HasReceipt
  <2>2. \E cs \in SUBSET {"examined", "unique", "skipped", "failed"} : report' = Count(report, cs)
    BY <1>8 DEF Yield
  <2>3. Accounted(work, report')
    BY <1>1, <2>2, OtherCounts DEF RowsInv
  <2> QED BY <2>1, <2>3 DEF RowsInv
<1>9. CASE SkipDuplicate \/ Reuse \/ DetailArrives
  <2>1. /\ UNCHANGED <<store, receipt>> /\ pc \in InCohort \ {"save", "failure"} /\ pc' = "save"
        /\ HasReceipt' <=> HasReceipt
    BY <1>9 DEF SkipDuplicate, Reuse, DetailArrives, Staged, HasReceipt, InCohort, Handling
  <2>2. cohort \in DOMAIN Cohort
    BY <2>1, Searching
  <2>3. Accounted(work, report)
    BY DEF RowsInv
  <2>4. Accounted(work', report') /\ work.tracked \subseteq work'.tracked
    <3>1. /\ WithProvenance(work) = Linked(work, Candidate, cohort)
          /\ WithProvenance(work).tracked = work.tracked
      <4>1. WithProvenance(work) = Linked(work, Candidate, cohort)
        BY DEF WithProvenance, Linked
      <4>2. Linked(work, Candidate, cohort).tracked = work.tracked
        BY <2>3, StagedRows DEF Accounted
      <4> QED BY <4>1, <4>2
    <3>2. CASE SkipDuplicate
      <4>1. work' = work \/ work' = WithProvenance(work)
        BY <3>2 DEF SkipDuplicate, Staged
      <4>2. report' = Count(report, {"skipped"})
        BY <3>2 DEF SkipDuplicate, Staged
      <4>3. Accounted(work', report) /\ work.tracked \subseteq work'.tracked
        BY <1>1, <2>3, <3>1, <4>1, ReuseAccounted
      <4> QED BY <1>1, <4>2, <4>3, OtherCounts
    <3>3. CASE Reuse
      <4>1. work' = WithProvenance(work) /\ report' = Count(report, {"reused", "completed"})
        BY <3>3 DEF Reuse, Staged
      <4>2. Accounted(work', report')
        <5>1. Accounted(WithProvenance(work), Count(report, {"reused", "completed"}))
          BY <1>1, <2>3, <3>1, ReuseAccounted
        <5> QED BY <4>1, <5>1
      <4> QED BY <3>1, <4>1, <4>2
    <3>4. CASE DetailArrives
      <4>1. /\ work' = Linked(Added(work, Candidate), Candidate, cohort)
            /\ report' = Count(report, {"new", "observations", "completed"})
        BY <3>4 DEF DetailArrives, Staged, WithProvenance, Linked, Added
      <4>2. Candidate \notin work.tracked /\ report.new < MaxNew
        BY <3>4 DEF DetailArrives, RowsInv
      <4>3. Accounted(work', report')
        <5>1. Accounted(Linked(Added(work, Candidate), Candidate, cohort),
                        Count(report, {"new", "observations", "completed"}))
          BY <1>1, <2>2, <2>3, <4>2, NewAccounted
        <5> QED BY <4>1, <5>1
      <4>4. /\ Added(work, Candidate) = [tracked |-> work.tracked \cup {Candidate},
                                        provenance |-> work.provenance]
            /\ Linked(Added(work, Candidate), Candidate, cohort).tracked
                 = Added(work, Candidate).tracked
        <5>1. Added(work, Candidate) = [tracked |-> work.tracked \cup {Candidate},
                                        provenance |-> work.provenance]
          BY <2>3, StagedRows DEF Accounted
        <5> QED BY <5>1, StagedRows
      <4> QED BY <4>1, <4>3, <4>4
    <3> QED BY <1>9, <3>2, <3>3, <3>4
  <2>5. work = store
    BY <2>1 DEF RowsInv, InCohort, Handling
  <2> QED BY <2>1, <2>4, <2>5 DEF RowsInv
<1>10. CASE Failure \/ (Unwind /\ UNCHANGED place)
  <2>1. /\ UNCHANGED <<store, receipt>> /\ pc \in {"failure", "unwind"}
        /\ pc' \in {"failsave", "finish"} /\ work' = store
        /\ HasReceipt /\ (HasReceipt' <=> HasReceipt)
    BY <1>1, <1>10 DEF Failure, Unwind, Rollback, HasReceipt
  <2>2. \E cs \in SUBSET {"examined", "unique", "skipped", "failed"} :
           report' = Count(receipt.report, cs)
    BY <1>10 DEF Failure, Unwind, Rollback, Noted
  <2>3. Accounted(store, receipt.report)
    BY <2>1 DEF RowsInv
  <2>4. Accounted(work', report')
    BY <1>1, <2>1, <2>2, <2>3, OtherCounts
  <2> QED BY <2>1, <2>3, <2>4 DEF RowsInv
<1>11. CASE \/ Start \/ Examined \/ Done \/ ReserveAttempt \/ Dies
            \/ Finish(Checkpoints, Empty) /\ UNCHANGED place
  <2>1. /\ UNCHANGED <<work, report>>
        /\ pc' = "detail" => pc = "detail" /\ UNCHANGED place
        /\ pc' \in {pc, "end"} \/ pc' \notin {"save", "failure", "unwind"}
    BY <1>11 DEF Start, Begin, Examined, Done, Checkpoint, ReserveAttempt, Reserve, Dies,
       LoseOwnership, Crash, Vanish, Finish, memory
  <2>2. CASE UNCHANGED <<receipt, store>> /\ pc' = "end"
    <3>1. Quiet
      BY <2>1, <2>2 DEF HasReceipt
    <3> QED BY <1>2, <3>1
  <2>3. CASE \E r \in InFlightReceipt(Checkpoints, Empty) : Committed(r)
    <3>1. PICK r \in InFlightReceipt(Checkpoints, Empty) : receipt' = r /\ store' = work
      BY <2>3 DEF Committed
    <3>2. r \in ReceiptType(Counters) /\ r # NoReceipt
      BY InFlightKept, DiscoveryIsKind
    <3>3. HasReceipt'
      BY <3>1, <3>2 DEF HasReceipt
    <3>4. Accounted(work, report)
      BY DEF RowsInv
    <3>5. Accounted(work, r.report)
      <4>1. CASE http = "reserve"
        <5>1. pc \in FetchPlaces /\ pc \notin {"start", "end"} /\ HasReceipt
          BY <1>1, <4>1 DEF FetchPlaces
        <5>2. r = [receipt EXCEPT !.requests = used]
          BY <3>1, <4>1 DEF InFlightReceipt
        <5>3. work = store /\ r.report = receipt.report
          BY <1>1, <5>1, <5>2 DEF RowsInv, FetchPlaces, ReceiptType
        <5> QED BY <5>1, <5>3 DEF RowsInv
      <4>2. CASE http # "reserve" /\ pc = "start"
        <5>1. r = NewReceipt(Empty)
          BY <3>1, <4>2 DEF InFlightReceipt
        <5>2. work = NoRows /\ r.report = Empty
          BY <1>1, <4>2, <5>1 DEF RowsInv, NewReceipt
        <5> QED BY <1>1, <5>2, NothingAccounted
      <4>3. CASE http # "reserve" /\ pc # "start"
        <5>1. pc \in Checkpoints \cup {"finish"} /\ pc # "end"
          BY <3>1, <4>3 DEF InFlightReceipt, Checkpoints
        <5>2. \/ r = [receipt EXCEPT !.report = report]
              \/ r = [receipt EXCEPT !.report = report, !.stop = stop,
                                     !.status = Status, !.finished = TRUE]
          BY <3>1, <4>3 DEF InFlightReceipt
        <5>3. receipt \in ReceiptType(Counters)
          BY <1>1, <4>3, <5>1
        <5>4. r.report = report
          BY <5>2, <5>3 DEF ReceiptType
        <5> QED BY <3>4, <5>4
      <4> QED BY <4>1, <4>2, <4>3
    <3>6. pc' \notin {pc, "end"} => work = store'
      BY <3>1
    <3>7. pc' = "detail" => report.new < MaxNew /\ Candidate' \notin work.tracked
      BY <2>1 DEF RowsInv, Candidate, place
    <3> QED BY <2>1, <3>1, <3>3, <3>4, <3>5, <3>7 DEF RowsInv
  <2> QED
    <3>1. CASE Dies
      BY <2>2, <2>3, <3>1 DEF Dies, LoseOwnership, Crash, Vanish
    <3>2. CASE Start \/ Finish(Checkpoints, Empty)
      BY <2>3, <3>2 DEF Start, Begin, Finish
    <3>3. CASE ReserveAttempt
      <4>1. InFlightReceipt(Checkpoints, Empty) = {[receipt EXCEPT !.requests = used]}
        BY <3>3 DEF ReserveAttempt, Reserve, InFlightReceipt
      <4> QED BY <2>3, <3>3, <4>1 DEF ReserveAttempt, Reserve
    <3>4. CASE Examined \/ Done
      <4>1. pc \in Checkpoints /\ pc # "start" /\ http = "idle"
        BY <1>1, <3>4 DEF Examined, Done, Checkpoints, FetchPlaces
      <4>2. InFlightReceipt(Checkpoints, Empty) = {[receipt EXCEPT !.report = report]}
        BY <4>1 DEF InFlightReceipt
      <4> QED BY <2>3, <3>4, <4>2 DEF Examined, Done, Checkpoint
    <3> QED BY <1>11, <3>1, <3>2, <3>3, <3>4
<1> QED BY <1>3, <1>4, <1>5, <1>6, <1>7, <1>8, <1>9, <1>10, <1>11 DEF Next, RunStep

---------------------------------------------------------------------------
(* A run stops for a reason, and a failure leaves its mark.                *)
LEMMA StopsKept ==
  ASSUME RunInv(Counters, FetchPlaces), PlaceInv, StopInv, [Next]_vars
  PROVE StopInv'
<1>1. /\ http # "idle" => pc \in FetchPlaces
      /\ pc \in Special \cup Body
  BY DEF RunInv, PlacesKept, PlaceInv
<1>2. CASE \/ Start \/ StartCohort \/ AllCohortsDone \/ Yield \/ Examined \/ SkipDuplicate
           \/ Reuse \/ FetchDetail \/ PageArrives \/ DetailArrives \/ OperationFails
           \/ Done \/ NextCohort
  <2>1. /\ UNCHANGED stop
        /\ pc \in Body \cup {"start"} /\ pc' \notin {"unwind", "end", "failsave"}
    BY <1>1, <1>2 DEF Start, Begin, StartCohort, AllCohortsDone, Yield, Examined, Checkpoint,
       SkipDuplicate, Reuse, Staged, FetchDetail, PageArrives, DetailArrives, OperationFails,
       Done, NextCohort, CohortEnds, memory, Body, InCohort, Handling
  <2> QED BY <2>1 DEF StopInv, Body, InCohort, Handling
<1>3. CASE Failure
  <2>1. /\ UNCHANGED stop /\ pc = "failure" /\ pc' = "failsave"
        /\ report' = Count(receipt.report, {"failed"})
    BY <1>3 DEF Failure, Rollback
  <2>2. receipt.report \in [Counters -> Nat]
    BY <2>1, CountingOn DEF Special
  <2>3. report'.failed > 0
    BY <2>1, <2>2 DEF Count, Counters
  <2> QED BY <2>1, <2>3 DEF StopInv
<1>4. CASE \/ ChargeAttempt /\ Charge
           \/ ReserveAttempt \/ RetryAttempt
           \/ UNCHANGED vars
  <2>1. UNCHANGED <<stop, pc, report>>
    BY <1>4 DEF ChargeAttempt, Charge, ReserveAttempt, Reserve, RetryAttempt, Retry, vars, runVars
  <2> QED BY <2>1 DEF StopInv
<1>5. CASE \/ ChargeAttempt /\ ChargeRefused
           \/ LeaveAttempt \/ NoCandidatesLeft \/ TooManyNew \/ SearchFails
           \/ CohortTruncated \/ DatabaseError
  <2>1. pc' = "unwind" /\ stop' # "none"
    BY <1>5 DEF ChargeRefused, LeaveAttempt, Rejected, Interrupted, NoCandidatesLeft, TooManyNew,
       SearchFails, CohortTruncated, DatabaseError, StopWith
  <2> QED BY <2>1 DEF StopInv
<1>6. CASE \/ Unwind \/ Finish(Checkpoints, Empty) \/ Raises \/ Dies
  <2>1. pc' \in {"finish", "end"}
    BY <1>6 DEF Unwind, Finish, Raises, Dies, LoseOwnership, Crash, Vanish
  <2> QED BY <2>1 DEF StopInv
<1> QED BY <1>2, <1>3, <1>4, <1>5, <1>6 DEF Next, RunStep, ChargeAttempt

(* While nothing has failed, what was searched is tracked.                 *)
LEMMA SearchedKept ==
  ASSUME Parameters, RunInv(Counters, FetchPlaces), PlaceInv, RowsInv, CoverInv, [Next]_vars,
         pc' \in Orderly, report'.failed = 0
  PROVE Searched'
<1>1. /\ report \in [Counters -> Nat]
      /\ pc \in Special \cup Body
      /\ cohort \in Nat /\ index \in Nat
      /\ Accounted(work, report)
  BY DEF RunInv, TypesKept, PlaceInv, RowsInv
<1> DEFINE Same ==
      /\ UNCHANGED <<work, found, cohort, index, seen, duplicate>>
      /\ pc \in Orderly /\ report.failed = 0
      /\ pc' \in InCohort => pc \in InCohort
      /\ pc' \in {"examined", "lookup", "detail"} <=> pc \in {"examined", "lookup", "detail"}
<1>2. CASE Same
  <2>1. Searched
    BY <1>2 DEF CoverInv
  <2>2. Candidate' = Candidate /\ Pending' = Pending
    BY <1>2 DEF Candidate, Pending
  <2>3. \A c, n : Covers(work, c, n)' = Covers(work, c, n) /\ Planned(c)' = Planned(c)
    BY <1>2 DEF Covers, Planned
  <2> QED BY <1>2, <2>1, <2>2, <2>3 DEF Searched
<1>3. CASE Start \/ Examined \/ FetchDetail \/ PageArrives
  <2>1. Same
    BY <1>3 DEF Start, Begin, Examined, Checkpoint, FetchDetail, PageArrives, memory, place,
       Orderly, Body, InCohort, Handling
  <2> QED BY <1>2, <2>1
<1>4. CASE ChargeAttempt \/ ReserveAttempt \/ RetryAttempt \/ UNCHANGED vars
  <2>1. CASE ChargeAttempt /\ ChargeRefused
    BY <2>1 DEF ChargeRefused, StopWith, Orderly, Body, InCohort, Handling
  <2>2. CASE \/ ChargeAttempt /\ Charge
             \/ ReserveAttempt \/ RetryAttempt \/ UNCHANGED vars
    <3>1. Same
      BY <2>2 DEF ChargeAttempt, Charge, ReserveAttempt, Reserve, RetryAttempt, Retry,
         vars, runVars, place
    <3> QED BY <1>2, <3>1
  <2> QED BY <1>4, <2>1, <2>2 DEF ChargeAttempt
<1>5. CASE Done
  <2>1. pc # "failsave"
    BY <1>1, <1>5 DEF Done, Checkpoint, memory, CoverInv, StopInv
  <2>2. Same
    BY <1>5, <2>1 DEF Done, Checkpoint, memory, place, Orderly, Body, InCohort, Handling
  <2> QED BY <1>2, <2>2
<1>6. CASE StartCohort
  <2>1. /\ UNCHANGED <<work, cohort, seen, duplicate>> /\ index' = 0
        /\ pc = "body" /\ pc' = "search" /\ report' = report
        /\ \E answer \in Cohort[cohort].answers : found' = Append(found, answer)
        /\ cohort <= Len(Cohort)
    BY <1>6 DEF StartCohort, memory
  <2>2. Searched
    BY <2>1 DEF CoverInv, Orderly, Body
  <2>3. \A c \in 1..cohort - 1 : found'[c] = found[c]
    <3>1. found \in Seq(Answers) /\ Len(found) = cohort - 1 /\ cohort \in DOMAIN Cohort
      BY <2>1 DEF PlaceInv, Parameters
    <3>2. PICK answer \in Answers : found' = Append(found, answer)
      BY <2>1, <3>1 DEF Answers
    <3> QED BY <3>1, <3>2
  <2>4. \A c \in 1..cohort - 1 : Planned(c)' = Planned(c)
    BY <2>3 DEF Planned
  <2>5. \A c \in 1..cohort - 1 : Covers(work, c, Planned(c))'
    BY <2>1, <2>2, <2>3, <2>4 DEF Searched, Covers
  <2>6. Covers(work, cohort, index)' /\ ~Pending' /\ ~Pending
    BY <2>1 DEF Covers, Pending
  <2> QED BY <2>1, <2>2, <2>5, <2>6 DEF Searched
<1>7. CASE Yield
  <2>1. /\ UNCHANGED <<work, found, cohort>> /\ index' = index + 1
        /\ pc = "search" /\ pc' = "examined"
        /\ seen' = seen \cup {Candidate'}
        /\ duplicate' <=> Candidate' \in seen
    BY <1>7 DEF Yield, Candidate
  <2>2. report.failed = 0
    <3>1. \E cs \in {{"examined"}, {"examined", "unique"}} : report' = Count(report, cs)
      BY <1>7 DEF Yield
    <3> QED BY <1>1, <3>1 DEF Count, Counters
  <2>3. Searched /\ ~Pending /\ Pending'
    BY <2>1, <2>2 DEF CoverInv, Orderly, Body, InCohort, Pending
  <2>4. \A c, n : Covers(work, c, n)' = Covers(work, c, n) /\ Planned(c)' = Planned(c)
    BY <2>1 DEF Covers, Planned
  <2>5. Covers(work, cohort, index)
    BY <2>1, <2>3 DEF Searched, InCohort
  <2>6. Covers(work, cohort, index' - 1)
    BY <1>1, <2>1, <2>5
  <2> QED BY <2>1, <2>3, <2>4, <2>6 DEF Searched
<1>8. CASE SkipDuplicate \/ Reuse \/ DetailArrives
  <2>1. /\ pc \in {"lookup", "detail"} /\ pc' = "save"
        /\ UNCHANGED <<found, cohort, index, seen, duplicate>>
    BY <1>8 DEF SkipDuplicate, Reuse, DetailArrives, Staged, place
  <2>2. report.failed = 0
    <3>1. \E cs \in {{"skipped"}, {"reused", "completed"}, {"new", "observations", "completed"}} :
             report' = Count(report, cs)
      BY <1>8 DEF SkipDuplicate, Reuse, DetailArrives, Staged
    <3> QED BY <1>1, <3>1 DEF Count, Counters
  <2>3. Searched /\ Pending /\ ~Pending'
    BY <2>1, <2>2 DEF CoverInv, Orderly, Body, InCohort, Handling, Pending
  <2>4. /\ work.tracked \subseteq work'.tracked /\ work.provenance \subseteq work'.provenance
        /\ Candidate \in work'.tracked /\ <<Candidate, cohort>> \in work'.provenance
    <3>1. /\ Linked(work, Candidate, cohort).tracked = work.tracked
          /\ Linked(work, Candidate, cohort).provenance
               = work.provenance \cup {<<Candidate, cohort>>}
      BY <1>1, StagedRows DEF Accounted
    <3>2. CASE SkipDuplicate \/ Reuse
      <4>1. Candidate \in work.tracked
        BY <2>3, <3>2 DEF SkipDuplicate, Reuse, IsTracked, Searched
      <4>2. work' = Linked(work, Candidate, cohort)
        BY <3>2, <4>1 DEF SkipDuplicate, Reuse, Staged, IsTracked, WithProvenance, Linked
      <4> QED BY <3>1, <4>1, <4>2
    <3>3. CASE DetailArrives
      <4>1. work' = Linked(Added(work, Candidate), Candidate, cohort)
        BY <3>3 DEF DetailArrives, Staged, WithProvenance, Linked, Added
      <4> DEFINE added == Added(work, Candidate)
      <4>2. added = [tracked |-> work.tracked \cup {Candidate}, provenance |-> work.provenance]
        BY <1>1, StagedRows DEF Accounted
      <4>3. /\ added.tracked = work.tracked \cup {Candidate}
            /\ added.provenance = work.provenance
            /\ added = [tracked |-> added.tracked, provenance |-> added.provenance]
        BY <4>2
      <4> HIDE DEF added
      <4>4. Linked(added, Candidate, cohort)
              = [tracked |-> added.tracked,
                 provenance |-> added.provenance \cup {<<Candidate, cohort>>}]
        BY <4>3, StagedRows
      <4> QED BY <4>1, <4>3, <4>4 DEF added
    <3> QED BY <1>8, <3>2, <3>3
  <2>5. \A c, n : Covers(work, c, n) => Covers(work, c, n)'
    BY <2>1, <2>4 DEF Covers
  <2>6. \A c : Planned(c)' = Planned(c)
    BY <2>1 DEF Planned
  <2>7. Covers(work, cohort, index)'
    <3>1. Covers(work, cohort, index - 1)'
      BY <2>1, <2>3, <2>5 DEF Searched, InCohort, Handling
    <3>2. \A i \in 1..index : i \in 1..index - 1 \/ i = index
      BY <1>1
    <3> QED BY <2>1, <2>4, <3>1, <3>2 DEF Covers, Candidate
  <2>8. seen \subseteq work'.tracked
    BY <2>3, <2>4 DEF Searched
  <2> QED BY <2>1, <2>3, <2>5, <2>6, <2>7, <2>8 DEF Searched
<1>9. CASE Failure
  <2>1. /\ pc = "failure" /\ report' = Count(receipt.report, {"failed"})
    BY <1>9 DEF Failure, Rollback
  <2>2. receipt.report \in [Counters -> Nat]
    BY <2>1, CountingOn DEF Special
  <2> QED BY <2>1, <2>2 DEF Count, Counters
<1>10. CASE NextCohort
  <2>1. /\ UNCHANGED <<work, found, index, seen, duplicate, report>> /\ cohort' = cohort + 1
        /\ pc = "search" /\ pc' = "body" /\ index = Wanted
        /\ remaining >= Cohort[cohort].limit
    BY <1>10 DEF NextCohort, CohortEnds, memory
  <2>2. Searched /\ ~Pending /\ ~Pending'
    BY <2>1 DEF CoverInv, Orderly, Body, InCohort, Pending
  <2>3. Covers(work, cohort, Planned(cohort))
    BY <2>1, <2>2, Searching DEF Searched, InCohort
  <2>4. \A c \in 1..cohort : Covers(work, c, Planned(c))
    BY <1>1, <2>2, <2>3 DEF Searched
  <2>5. \A c, n : Covers(work, c, n)' = Covers(work, c, n) /\ Planned(c)' = Planned(c)
    BY <2>1 DEF Covers, Planned
  <2>6. 1..cohort' - 1 = 1..cohort
    BY <1>1, <2>1
  <2>7. \A c \in 1..cohort' - 1 : Covers(work, c, Planned(c))'
    BY <2>4, <2>5, <2>6
  <2>8. seen' \subseteq work'.tracked
    BY <2>1, <2>2 DEF Searched
  <2>9. pc' \notin InCohort
    BY <2>1 DEF InCohort, Handling
  <2> QED BY <2>2, <2>7, <2>8, <2>9 DEF Searched
<1>11. CASE \/ LeaveAttempt \/ NoCandidatesLeft \/ TooManyNew \/ SearchFails
            \/ CohortTruncated \/ DatabaseError \/ AllCohortsDone \/ OperationFails
            \/ Unwind \/ Finish(Checkpoints, Empty) \/ Raises \/ Dies
  BY <1>11 DEF LeaveAttempt, Rejected, Interrupted, NoCandidatesLeft, TooManyNew, SearchFails,
     CohortTruncated, DatabaseError, StopWith, AllCohortsDone, OperationFails,
     Unwind, Finish, Raises, Dies, LoseOwnership, Crash, Vanish,
     Orderly, Body, InCohort, Handling
<1> QED BY <1>3, <1>4, <1>5, <1>6, <1>7, <1>8, <1>9, <1>10, <1>11 DEF Next, RunStep

(* Only a run that searched every cohort, stopped for no reason and failed *)
(* nowhere is closed as "completed", and then nothing is left behind.      *)
Through ==
  /\ Len(found) = Len(Cohort)
  /\ \A c \in 1..Len(Cohort) : Covers(work, c, Planned(c))

(* The end of the plan is only reached through every cohort of it.         *)
LEMMA ThroughKept ==
  ASSUME Parameters, RunInv(Counters, FetchPlaces), PlaceInv, CoverInv, [Next]_vars,
         pc' = "finish", stop' = "none", report'.failed = 0
  PROVE Through'
<1>1. CASE AllCohortsDone
  <2>1. /\ UNCHANGED <<work, report, stop, found>> /\ pc = "body" /\ cohort > Len(Cohort)
    BY <1>1 DEF AllCohortsDone, memory, place
  <2>2. Searched
    BY <2>1 DEF CoverInv, Orderly, Body
  <2>3. cohort = Len(Cohort) + 1 /\ Len(found) = cohort - 1 /\ Len(Cohort) \in Nat
    BY <2>1 DEF PlaceInv, Parameters
  <2>4. \A c \in 1..Len(Cohort) : Covers(work, c, Planned(c))
    BY <2>2, <2>3 DEF Searched
  <2>5. \A c, n : Covers(work, c, n)' = Covers(work, c, n) /\ Planned(c)' = Planned(c)
    BY <2>1 DEF Covers, Planned
  <2> QED BY <2>1, <2>3, <2>4, <2>5 DEF Through
<1>2. CASE UNCHANGED vars
  <2>1. UNCHANGED <<work, report, stop, found, pc>>
    BY <1>2 DEF vars, runVars, place
  <2>2. Through
    BY <2>1 DEF CoverInv, Through
  <2> QED BY <2>1, <2>2 DEF Through, Covers, Planned
<1>3. CASE Unwind
  BY <1>3 DEF Unwind, CoverInv, StopInv
<1>4. CASE \/ Start \/ StartCohort \/ NoCandidatesLeft \/ Yield \/ Examined \/ SkipDuplicate
           \/ Reuse \/ TooManyNew \/ FetchDetail \/ SearchFails \/ DetailArrives
           \/ OperationFails \/ Failure \/ Done \/ NextCohort \/ CohortTruncated \/ DatabaseError
           \/ Finish(Checkpoints, Empty) \/ Raises \/ Dies
  BY <1>4 DEF Start, Begin, StartCohort, NoCandidatesLeft, Yield, Examined, Checkpoint,
     SkipDuplicate, Reuse, Staged, TooManyNew, FetchDetail, SearchFails, DetailArrives,
     OperationFails, Failure, Done, NextCohort, CohortTruncated, DatabaseError, StopWith,
     Finish, Raises, Dies, LoseOwnership, Crash, Vanish
<1>5. CASE \/ ChargeAttempt \/ ReserveAttempt \/ RetryAttempt \/ LeaveAttempt \/ PageArrives
  <2>1. http # "idle" => pc \in FetchPlaces
    BY DEF RunInv, PlacesKept
  <2> QED BY <1>5, <2>1 DEF ChargeAttempt, Fetching, Charge, ChargeRefused, ReserveAttempt,
          Reserve, RetryAttempt, Retry, LeaveAttempt, Rejected, Interrupted, PageArrives,
          StopWith, FetchPlaces
<1> QED BY <1>1, <1>2, <1>3, <1>4, <1>5 DEF Next, RunStep

(* The closing of a run as "completed" preserves the claim it makes.       *)
LEMMA CompletedKept ==
  ASSUME Parameters, RunInv(Counters, FetchPlaces), PlaceInv, CoverInv, [Next]_vars
  PROVE CompletedMeansDone'
<1> SUFFICES ASSUME HasReceipt', receipt'.status = "completed"
             PROVE CompletedMeansDone'
  BY DEF CompletedMeansDone
<1>1. \/ UNCHANGED <<receipt, store>>
      \/ \E r \in InFlightReceipt(Checkpoints, Empty) : Committed(r)
  <2>1. CASE UNCHANGED runVars
    BY <2>1 DEF runVars
  <2> QED BY <2>1, StepsAreMoves, CommitsInFlight, DiscoveryIsKind
<1>2. CASE UNCHANGED <<receipt, store>>
  <2>1. HasReceipt /\ receipt.status = "completed"
    BY <1>2 DEF HasReceipt
  <2>2. pc = "end"
    BY <2>1 DEF RunInv, PlacesKept, EndingMatchesReceipt
  <2>3. UNCHANGED found
    <3>1. CASE StartCohort
      BY <2>2, <3>1 DEF StartCohort
    <3>2. CASE ~StartCohort
      BY <3>2 DEF Next, RunStep, Start, NoCandidatesLeft, AllCohortsDone, Yield, Examined,
         SkipDuplicate, Reuse, Staged, TooManyNew, FetchDetail, ChargeAttempt, ReserveAttempt,
         RetryAttempt, LeaveAttempt, PageArrives, SearchFails, DetailArrives, OperationFails,
         Failure, Done, NextCohort, CohortTruncated, DatabaseError, Dies, vars, place
    <3> QED BY <3>1, <3>2
  <2> QED BY <1>2, <2>1, <2>3 DEF CoverInv, CompletedMeansDone
<1>3. CASE \E r \in InFlightReceipt(Checkpoints, Empty) : Committed(r)
  <2>1. PICK r \in InFlightReceipt(Checkpoints, Empty) : receipt' = r /\ store' = work
    BY <1>3 DEF Committed
  <2>2. pc = "finish" /\ Status = "completed"
    BY <2>1, InFlightKept, DiscoveryIsKind
  <2>3. stop = "none" /\ report.failed = 0
    <3>1. report.failed \in Nat
      BY DEF RunInv, TypesKept, Counters
    <3> QED BY <2>2, <3>1 DEF Status
  <2>4. Through
    BY <2>2, <2>3 DEF CoverInv, Through
  <2>5. UNCHANGED found
    BY <2>2 DEF Next, RunStep, Start, StartCohort, NoCandidatesLeft, AllCohortsDone, Yield,
       Examined, SkipDuplicate, Reuse, Staged, TooManyNew, FetchDetail, ChargeAttempt,
       ReserveAttempt, RetryAttempt, LeaveAttempt, PageArrives, SearchFails, DetailArrives,
       OperationFails, Failure, Done, NextCohort, CohortTruncated, CohortEnds, DatabaseError,
       Dies, vars, place
  <2>6. DOMAIN found = 1..Len(Cohort) /\ DOMAIN Cohort = 1..Len(Cohort)
    <3>1. found \in Seq(Answers) /\ Len(found) = Len(Cohort)
      BY <2>4 DEF Through, PlaceInv
    <3> QED BY <3>1 DEF Parameters
  <2> QED BY <2>1, <2>4, <2>5, <2>6 DEF CompletedMeansDone, Through, Covers, Planned
<1> QED BY <1>1, <1>2, <1>3

---------------------------------------------------------------------------
(* The strengthened invariant is inductive.                                *)
LEMMA Inductive ==
  ASSUME Parameters PROVE (Init => IInv) /\ (IInv /\ [Next]_vars => IInv')
<1>1. Init => IInv
  <2> SUFFICES ASSUME Init PROVE IInv
    OBVIOUS
  <2>1. RunInv(Counters, FetchPlaces)
    BY RunStarts, DiscoveryIsKind DEF Init
  <2>2. /\ pc = "start" /\ http = "idle" /\ stop = "none" /\ ~HasReceipt
        /\ store = NoRows /\ work = NoRows /\ report = Empty
        /\ cohort = 1 /\ found = <<>> /\ remaining = 0 /\ pages = 0 /\ index = 0
        /\ seen = {} /\ duplicate = FALSE
    BY DEF Init, RunInit, PlaceInit, HasReceipt
  <2>3. PlaceInv
    <3>1. found \in Seq(Answers) /\ Len(found) = 0
      BY <2>2
    <3>2. cohort \in 1..Len(Cohort) + 1 /\ remaining \in 0..MaxCandidates
      BY <2>2 DEF Parameters
    <3>3. Len(found) \in {cohort - 1, cohort} /\ Len(found) = cohort - 1
      BY <2>2, <3>1
    <3>4. pc \in Special /\ pc \notin InCohort /\ pc \notin Handling
      BY <2>2 DEF Special, InCohort, Handling
    <3> QED BY <2>2, <3>1, <3>2, <3>3, <3>4 DEF PlaceInv
  <2>4. TallyInv
    BY <2>2 DEF TallyInv, Parameters, InCohort, Handling, Handled, Empty, Counters
  <2>5. RowsInv
    BY <2>2, NothingAccounted DEF RowsInv, Parameters
  <2>6. CoverInv
    BY <2>2 DEF CoverInv, StopInv, Searched, CompletedMeansDone, Pending, InCohort, Handling
  <2> QED BY <2>1, <2>3, <2>4, <2>5, <2>6 DEF IInv
<1>2. IInv /\ [Next]_vars => IInv'
  <2> SUFFICES ASSUME IInv, [Next]_vars PROVE IInv'
    OBVIOUS
  <2>0. RunInv(Counters, FetchPlaces) /\ PlaceInv /\ TallyInv /\ RowsInv /\ CoverInv
    BY DEF IInv
  <2>1. RunInv(Counters, FetchPlaces)'
    BY <2>0, StepsAreMoves, RunKept, RunRests, DiscoveryIsKind
  <2>2. CoverInv'
    <3>1. StopInv'
      BY <2>0, StopsKept DEF CoverInv
    <3>2. (pc \in Orderly /\ report.failed = 0 => Searched)'
      BY <2>0, SearchedKept
    <3>3. (pc = "finish" /\ stop = "none" /\ report.failed = 0 => Through)'
      BY <2>0, ThroughKept
    <3>4. CompletedMeansDone'
      BY <2>0, CompletedKept
    <3> QED BY <3>1, <3>2, <3>3, <3>4 DEF CoverInv, Through
  <2> QED BY <2>0, <2>1, <2>2, PlaceKept, TallyKept, RowsKept DEF IInv
<1> QED BY <1>1, <1>2

(* It holds in every reachable state.                                      *)
LEMMA Invariance ==
  ASSUME Parameters PROVE Spec => []IInv
<1>1. Init => IInv
  BY Inductive
<1>2. IInv /\ [Next]_vars => IInv'
  BY Inductive
<1> QED BY <1>1, <1>2, PTL DEF Spec

(* What it says in the terms of the properties.                            *)
LEMMA Consequences ==
  ASSUME Parameters, IInv
  PROVE /\ TypeOK /\ ReservedBeforeSent /\ EndingMatchesReceipt
        /\ ReceiptMatchesRows /\ LimitsHold /\ CompletedMeansDone
<1>0. RunInv(Counters, FetchPlaces) /\ PlaceInv /\ TallyInv /\ RowsInv /\ CoverInv
  BY DEF IInv
<1>1. ReservedBeforeSent /\ EndingMatchesReceipt
  BY <1>0, RunIsAccounted DEF Parameters
<1>2. ReceiptMatchesRows
  BY <1>0 DEF RowsInv, Accounted, New, NewRows, ReceiptMatchesRows
<1>3. LimitsHold
  <2>1. Cardinality(NewRows) <= MaxNew
    <3>1. CASE HasReceipt
      BY <1>0, <3>1 DEF RowsInv, Accounted, New, NewRows
    <3>2. CASE ~HasReceipt
      <4>1. NewRows = {}
        BY <1>0, <3>2 DEF RowsInv, NoRows, NewRows
      <4> QED BY <4>1, FS_EmptySet DEF Parameters
    <3> QED BY <3>1, <3>2
  <2> QED BY <1>0, <2>1 DEF TallyInv, LimitsHold
<1>4. TypeOK
  <2>1. ASSUME HasReceipt
        PROVE /\ receipt.status \in {"running", "completed", "partial"}
              /\ receipt.report \in [Counters -> 0..MaxCandidates + 1]
              /\ receipt.requests \in 0..MaxRequests
              /\ sent <= used
    <3>1. receipt \in ReceiptType(Counters)
      BY <1>0, <2>1 DEF RunInv, TypesKept, HasReceipt
    <3> DEFINE r == receipt.report
    <3>2. r \in [Counters -> Nat]
      BY <3>1 DEF ReceiptType
    <3>3. /\ r.examined <= MaxCandidates /\ r.unique <= r.examined
          /\ r.completed + r.skipped + r.failed <= r.examined + 1
      BY <1>0, <2>1 DEF TallyInv, Handled
    <3>4. r.observations = r.new /\ r.completed = r.new + r.reused
      BY <1>0, <2>1 DEF RowsInv, Accounted
    <3> HIDE DEF r
    <3>5. /\ r.examined \in Nat /\ r.unique \in Nat /\ r.reused \in Nat /\ r.new \in Nat
          /\ r.observations \in Nat /\ r.completed \in Nat /\ r.skipped \in Nat
          /\ r.failed \in Nat
      BY <3>2 DEF Counters
    <3>6. \A c \in Counters : r[c] \in 0..MaxCandidates + 1
      <4>1. MaxCandidates \in Nat
        BY DEF Parameters
      <4>2. /\ r.examined <= MaxCandidates + 1 /\ r.unique <= MaxCandidates + 1
            /\ r.completed <= MaxCandidates + 1 /\ r.skipped <= MaxCandidates + 1
            /\ r.failed <= MaxCandidates + 1
        BY <3>3, <3>5, <4>1
      <4>3. /\ r.new <= MaxCandidates + 1 /\ r.observations <= MaxCandidates + 1
            /\ r.reused <= MaxCandidates + 1
        BY <3>4, <3>5, <4>1, <4>2
      <4>4. \A c \in Counters : r[c] \in Nat /\ r[c] <= MaxCandidates + 1
        BY <3>5, <4>2, <4>3 DEF Counters
      <4> QED BY <4>1, <4>4
    <3>7. r \in [Counters -> 0..MaxCandidates + 1]
      BY <3>2, <3>6
    <3>8. sent <= receipt.requests /\ receipt.requests <= used
      BY <1>0, <2>1 DEF RunInv, CountsKept
    <3>9. receipt.requests \in 0..MaxRequests /\ receipt.status \in Statuses
      BY <3>1 DEF ReceiptType
    <3> QED BY <1>0, <3>7, <3>8, <3>9 DEF r, Statuses, RunInv, TypesKept, Parameters
  <2>2. ~HasReceipt => sent = 0
    BY <1>0 DEF RunInv, PlacesKept
  <2>3. used \in 0..MaxRequests /\ sent \in Nat /\ http \in {"idle", "reserve", "flight"}
    BY <1>0 DEF RunInv, TypesKept
  <2>4. sent \in 0..used
    BY <2>1, <2>2, <2>3
  <2>5. /\ store.tracked \subseteq work.tracked
        /\ cohort \in 1..Len(Cohort) + 1 /\ Len(found) \in {cohort - 1, cohort}
        /\ remaining \in 0..MaxCandidates
    BY <1>0 DEF RowsInv, PlaceInv
  <2> QED BY <2>1, <2>3, <2>4, <2>5 DEF TypeOK
<1> QED BY <1>0, <1>1, <1>2, <1>3, <1>4 DEF CoverInv

---------------------------------------------------------------------------
(* The types, with the bounds of every counter: a candidate is accounted   *)
(* for at most once, and one more failure at most is noted for the run.    *)
THEOREM TypeCorrect ==
  ASSUME Parameters PROVE Spec => []TypeOK
<1>1. IInv => TypeOK
  BY Consequences
<1> QED BY <1>1, Invariance, PTL

(* Requests are in the receipt before they are sent, and within the budget. *)
THEOREM Reserved ==
  ASSUME Parameters PROVE Spec => []ReservedBeforeSent
<1>1. IInv => ReservedBeforeSent
  BY Consequences
<1> QED BY <1>1, Invariance, PTL

(* A run that returned left a finished receipt, an interrupted one that    *)
(* says so, and an unfinished receipt reads "running".                     *)
THEOREM Ending ==
  ASSUME Parameters PROVE Spec => []EndingMatchesReceipt
<1>1. IInv => EndingMatchesReceipt
  BY Consequences
<1> QED BY <1>1, Invariance, PTL

(* Whatever was interrupted or undone, the receipt counts exactly the rows *)
(* the run has committed.                                                  *)
THEOREM Accounting ==
  ASSUME Parameters PROVE Spec => []ReceiptMatchesRows
<1>1. IInv => ReceiptMatchesRows
  BY Consequences
<1> QED BY <1>1, Invariance, PTL

(* The reviewed plan's limits on new repositories and on candidates hold.  *)
THEOREM Limits ==
  ASSUME Parameters PROVE Spec => []LimitsHold
<1>1. IInv => LimitsHold
  BY Consequences
<1> QED BY <1>1, Invariance, PTL

(* "completed" leaves no candidate of any cohort behind.                   *)
THEOREM Completeness ==
  ASSUME Parameters PROVE Spec => []CompletedMeansDone
<1>1. IInv => CompletedMeansDone
  BY Consequences
<1> QED BY <1>1, Invariance, PTL

(* A finished receipt and its rows are never written again, and the counts *)
(* of an unfinished one only grow.                                         *)
THEOREM Records ==
  ASSUME Parameters PROVE Spec => [][RecordsAreKept]_vars
<1>1. Spec => []IInv
  BY Invariance
<1>2. IInv /\ [Next]_vars => RecordsAreKept
  BY StepsAreMoves, RunKeepsRecords, DiscoveryIsKind DEF IInv, RecordsAreKept
<1> QED BY <1>1, <1>2, PTL DEF Spec
=============================================================================
