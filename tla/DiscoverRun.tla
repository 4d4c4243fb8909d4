----------------------------- MODULE DiscoverRun -----------------------------
(***************************************************************************)
(* A discovery run: the reviewed cohorts are searched one after another    *)
(* and each candidate is looked up, fetched if it is new, staged, and      *)
(* committed together with its provenance and the report.                  *)
(***************************************************************************)
EXTENDS CollectionRun, Sequences, FiniteSets, FiniteSetsExt

CONSTANTS
  Cohort,         \* sequence of [limit, answers]: the answers GitHub may give
  PerPage,        \* candidates per search request
  Known,          \* repositories tracked before the run
  MaxCandidates,  \* plan.execution.max_candidates
  MaxNew          \* plan.execution.max_new_repositories

VARIABLES
  cohort,     \* the cohort being searched
  found,      \* GitHub's answer to each search so far, all its pages
  remaining,  \* candidates left when that cohort was started
  pages,      \* pages of it that have arrived
  index,      \* candidates of it yielded so far; the last is being handled
  seen,       \* IDs examined by this run
  duplicate   \* whether the candidate had been examined before

place == <<cohort, found, remaining, pages, index, seen, duplicate>>
vars == <<runVars, place>>

Counters == {"examined", "unique", "reused", "new", "observations",
             "completed", "skipped", "failed"}
Empty == [c \in Counters |-> 0]
NoRows == [tracked |-> Known, provenance |-> {}]

(* _checkpoint() calls: after a candidate is counted, after it is handled, *)
(* and after its failure is noted.                                         *)
Checkpoints == {"examined", "save", "failsave"}

PlaceInit ==
  /\ cohort = 1 /\ found = <<>> /\ remaining = 0 /\ pages = 0 /\ index = 0
  /\ seen = {} /\ duplicate = FALSE

Init == RunInit(Empty, NoRows) /\ PlaceInit

Candidate == found[cohort][index]
PageSize == Min({PerPage, Cohort[cohort].limit, remaining})
Wanted == Min({Cohort[cohort].limit, remaining, Len(found[cohort])})
Arrived == Min({Wanted, pages * PageSize})

(* What the plan's models and the client's settings are validated for.     *)
Answers == UNION {Cohort[c].answers : c \in DOMAIN Cohort}

Parameters ==
  /\ MaxRequests \in Nat /\ PerPage \in Nat
  /\ MaxCandidates \in Nat /\ MaxNew \in Nat
  /\ Len(Cohort) \in Nat /\ DOMAIN Cohort = 1..Len(Cohort)
  /\ \A c \in DOMAIN Cohort : Cohort[c].limit \in Nat
  /\ \A answer \in Answers : Len(answer) \in Nat

---------------------------------------------------------------------------
Start == Begin(Checkpoints, Empty) /\ UNCHANGED place

(* The next cohort, unless the candidate limit is used up.                 *)
StartCohort ==
  /\ pc = "body"
  /\ cohort <= Len(Cohort)
  /\ report.examined < MaxCandidates
  /\ \E answer \in Cohort[cohort].answers : found' = Append(found, answer)
  /\ remaining' = MaxCandidates - report.examined
  /\ pages' = 0 /\ index' = 0
  /\ pc' = "search"
  /\ UNCHANGED <<receipt, store, memory, ending, cohort, seen, duplicate>>

NoCandidatesLeft ==
  /\ pc = "body"
  /\ cohort <= Len(Cohort)
  /\ report.examined >= MaxCandidates
  /\ StopWith("limit")
  /\ UNCHANGED place

AllCohortsDone ==
  /\ pc = "body"
  /\ cohort > Len(Cohort)
  /\ pc' = "finish"
  /\ UNCHANGED <<receipt, store, memory, ending, place>>

(* The search yields a candidate of a page it has.  It is counted, and the *)
(* counters are checkpointed before the candidate is looked at.            *)
Yield ==
  /\ pc = "search"
  /\ index < Arrived
  /\ index' = index + 1
  /\ LET id == found[cohort][index + 1]
     IN /\ duplicate' = (id \in seen)
        /\ seen' = seen \cup {id}
        /\ report' = Count(report, IF id \in seen THEN {"examined"}
                                   ELSE {"examined", "unique"})
  /\ pc' = "examined"
  /\ UNCHANGED <<receipt, store, work, used, sent, http, stop, ending,
                 cohort, found, remaining, pages>>

Examined ==
  /\ pc = "examined"
  /\ Checkpoint("lookup")
  /\ UNCHANGED place

IsTracked == Candidate \in work.tracked

WithProvenance(rows) ==
  [rows EXCEPT !.provenance = @ \cup {<<Candidate, cohort>>}]

Staged(rows, counted) ==
  /\ work' = rows
  /\ report' = Count(report, counted)
  /\ pc' = "save"
  /\ UNCHANGED <<receipt, store, used, sent, stop, ending, place>>

SkipDuplicate ==
  /\ pc = "lookup"
  /\ duplicate
  /\ Staged(IF IsTracked THEN WithProvenance(work) ELSE work,
            {"skipped"})
  /\ UNCHANGED http

Reuse ==
  /\ pc = "lookup"
  /\ ~duplicate
  /\ IsTracked
  /\ Staged(WithProvenance(work), {"reused", "completed"})
  /\ UNCHANGED http

TooManyNew ==
  /\ pc = "lookup"
  /\ ~duplicate
  /\ ~IsTracked
  /\ report.new >= MaxNew
  /\ StopWith("limit")
  /\ UNCHANGED place

FetchAnyDetail ==   \* mutant: max_new_repositories is not looked at
  /\ pc = "lookup"
  /\ ~duplicate
  /\ ~IsTracked
  /\ pc' = "detail"
  /\ UNCHANGED <<receipt, store, memory, ending, place>>

FetchDetail ==
  /\ pc = "lookup"
  /\ ~duplicate
  /\ ~IsTracked
  /\ report.new < MaxNew
  /\ pc' = "detail"
  /\ UNCHANGED <<receipt, store, memory, ending, place>>

---------------------------------------------------------------------------
(* HTTP: a page of the search, or the detail of a new candidate.           *)
NeedsPage == pages = 0 \/ (index = Arrived /\ index < Wanted)
Fetching == pc = "detail" \/ (pc = "search" /\ NeedsPage)

ChargeAttempt == Fetching /\ (Charge \/ ChargeRefused) /\ UNCHANGED place
ReserveAttempt == Reserve /\ UNCHANGED place
RetryAttempt == Retry /\ UNCHANGED place
LeaveAttempt == (Rejected \/ Interrupted) /\ UNCHANGED place

PageArrives ==
  /\ pc = "search"
  /\ http = "flight"
  /\ http' = "idle"
  /\ pages' = pages + 1
  /\ UNCHANGED <<receipt, store, work, report, used, sent, stop, pc, ending,
                 cohort, found, remaining, index, seen, duplicate>>

(* A failed search leaves the cohort loop: nothing catches it there.       *)
SearchFails ==
  /\ pc = "search"
  /\ http = "flight"
  /\ StopWith("error")
  /\ UNCHANGED place

(* stage_lightweight: row, topics and first observation are staged.        *)
DetailArrives ==
  /\ pc = "detail"
  /\ http = "flight"
  /\ http' = "idle"
  /\ Staged(WithProvenance([work EXCEPT !.tracked = @ \cup {Candidate}]),
            {"new", "observations", "completed"})

(* The request fails, the identity has changed, the repository is not      *)
(* public, or a statement is refused.                                      *)
OperationFails ==
  /\ \/ pc = "detail" /\ http \in {"reserve", "flight"}
     \/ pc \in {"lookup", "save"}
  /\ http' = "idle"
  /\ pc' = "failure"
  /\ UNCHANGED <<receipt, store, work, report, used, sent, stop, ending, place>>

(* _failure(): what the candidate staged is gone, the failure is counted.  *)
FailureRetried ==   \* mutant: the candidate is tried again
  /\ pc = "failure"
  /\ Rollback({"failed"})
  /\ pc' = "lookup"
  /\ UNCHANGED <<receipt, store, used, sent, http, stop, ending, place>>

Failure ==
  /\ pc = "failure"
  /\ Rollback({"failed"})
  /\ pc' = "failsave"
  /\ UNCHANGED <<receipt, store, used, sent, http, stop, ending, place>>

---------------------------------------------------------------------------
Done ==
  /\ pc \in {"save", "failsave"}
  /\ Checkpoint("search")
  /\ UNCHANGED place

(* The cohort is through: a cohort that the candidate limit may have cut   *)
(* short stops the run.                                                    *)
CohortEnds ==
  /\ pc = "search"
  /\ http = "idle"
  /\ pages > 0
  /\ index = Wanted

NextCohort ==
  /\ CohortEnds
  /\ remaining >= Cohort[cohort].limit
  /\ pc' = "body"
  /\ cohort' = cohort + 1
  /\ UNCHANGED <<receipt, store, memory, ending,
                 found, remaining, pages, index, seen, duplicate>>

CohortTruncated ==
  /\ CohortEnds
  /\ remaining < Cohort[cohort].limit
  /\ StopWith("limit")
  /\ UNCHANGED place

(* An SQL error outside the candidate's own try block.                     *)
DatabaseError ==
  /\ \/ pc \in {"examined", "failure", "failsave"}
     \/ pc = "search" /\ http = "reserve"
  /\ StopWith("error")
  /\ UNCHANGED place

---------------------------------------------------------------------------
RunStep ==
  \/ Start \/ StartCohort \/ NoCandidatesLeft \/ AllCohortsDone
  \/ Yield \/ Examined \/ SkipDuplicate \/ Reuse \/ TooManyNew \/ FetchDetail
  \/ ChargeAttempt \/ ReserveAttempt \/ RetryAttempt \/ LeaveAttempt
  \/ PageArrives \/ SearchFails \/ DetailArrives \/ OperationFails
  \/ Failure \/ Done \/ NextCohort \/ CohortTruncated \/ DatabaseError
  \/ Unwind /\ UNCHANGED place
  \/ Finish(Checkpoints, Empty) /\ UNCHANGED place
  \/ Raises /\ UNCHANGED place

Dies ==
  /\ \/ LoseOwnership(Checkpoints, Empty)
     \/ Crash(Checkpoints, Empty)
  /\ UNCHANGED place

Next == RunStep \/ Dies

Spec == Init /\ [][Next]_vars

---------------------------------------------------------------------------
(* Properties.                                                             *)

TypeOK ==
  /\ HasReceipt =>
       /\ receipt.status \in {"running", "completed", "partial"}
       /\ receipt.report \in [Counters -> 0..MaxCandidates + 1]
       /\ receipt.requests \in 0..MaxRequests
  /\ store.tracked \subseteq work.tracked
  /\ used \in 0..MaxRequests /\ sent \in 0..used
  /\ http \in {"idle", "reserve", "flight"}
  /\ cohort \in 1..Len(Cohort) + 1
  /\ Len(found) \in {cohort - 1, cohort}
  /\ remaining \in 0..MaxCandidates

NewRows == store.tracked \ Known

(* In every committed state, whatever was interrupted, the receipt counts  *)
(* exactly the rows the run has made: no row without its account and no    *)
(* account without its row, and a new repository never without provenance. *)
ReceiptMatchesRows ==
  IF HasReceipt
  THEN /\ receipt.report.new = Cardinality(NewRows)
       /\ receipt.report.observations = Cardinality(NewRows)
       /\ receipt.report.completed = receipt.report.new + receipt.report.reused
       /\ \A id \in NewRows : \E c \in DOMAIN Cohort : <<id, c>> \in store.provenance
  ELSE store = NoRows

(* The limits of the reviewed plan bound what a run does, failed and       *)
(* rolled back candidates included.                                        *)
LimitsHold ==
  /\ Cardinality(NewRows) <= MaxNew
  /\ HasReceipt => receipt.report.examined <= MaxCandidates

(* "completed" leaves no candidate of any cohort behind: each is tracked,  *)
(* with the provenance of every cohort that found it.                      *)
CompletedMeansDone ==
  HasReceipt /\ receipt.status = "completed" =>
    /\ DOMAIN found = DOMAIN Cohort
    /\ \A c \in DOMAIN found :
         \A i \in 1..Min({Cohort[c].limit, Len(found[c])}) :
           /\ found[c][i] \in store.tracked
           /\ <<found[c][i], c>> \in store.provenance

(* What is on record stays on record: a finished receipt, and the counts   *)
(* of an unfinished one.                                                   *)
RecordsAreKept == FinalIsFinal /\ AccountGrows
=============================================================================
