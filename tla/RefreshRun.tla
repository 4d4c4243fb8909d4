------------------------------ MODULE RefreshRun ------------------------------
(***************************************************************************)
(* A refresh run: the stalest tracked repositories are polled one after    *)
(* another, and each poll is committed as an observation together with the *)
(* report.  The clock is a wall clock: it may stand still between two      *)
(* readings, and it may be set back.                                       *)
(***************************************************************************)
EXTENDS CollectionRun, Integers, Sequences, SequencesExt, FiniteSets, FiniteSetsExt

CONSTANTS
  Observed,     \* repository ID -> instants observed before the run
  LastInstant,  \* bound: clock readings are in 0..LastInstant
  MinAge,       \* min_refresh_hours
  MaxTargets    \* limits.max_repositories

Repo == DOMAIN Observed
Instant == 0..LastInstant

VARIABLES
  targets,  \* the repositories to poll, in order, or <<>> before selection
  target,   \* index of the one being polled
  now,      \* the clock reading of the present poll
  latest    \* its newest observation, read before the request, or Never

place == <<targets, target, now, latest>>
vars == <<runVars, place>>

Never == -1

Counters == {"refreshed", "observations", "completed", "skipped", "failed"}
Empty == [c \in Counters |-> 0]
Checkpoints == {"save", "failsave"}

(* The rows: every observation's instant, and which of them hold the       *)
(* result of a poll of this run (a poll at the instant of an existing      *)
(* observation overwrites it).                                             *)
InitialRows == [seen |-> Observed, polled |-> [r \in Repo |-> {}]]

(* What the limits of a run are validated for.  Repositories are their     *)
(* GitHub IDs, which order those that are equally stale.                   *)
Parameters ==
  /\ MaxRequests \in Nat /\ MaxTargets \in Nat
  /\ MinAge \in Nat /\ LastInstant \in Nat
  /\ IsFiniteSet(Repo) /\ Repo \subseteq Nat
  /\ Observed \in [Repo -> SUBSET Instant]

PlaceInit == targets = <<>> /\ target = 0 /\ now = 0 /\ latest = Never

Init == RunInit(Empty, InitialRows) /\ PlaceInit

Newest(rows, r) == Max(rows.seen[r] \cup {Never})

---------------------------------------------------------------------------
Start == Begin(Checkpoints, Empty) /\ UNCHANGED place

(* stale_repositories(): never observed first, then the oldest newest      *)
(* observation, by ID among equals, at most MaxTargets of them.            *)
Stale(rows, cutoff) == {r \in Repo : Newest(rows, r) <= cutoff \/ rows.seen[r] = {}}
Staler(rows, r, s) ==
  \/ Newest(rows, r) < Newest(rows, s)
  \/ Newest(rows, r) = Newest(rows, s) /\ r < s

StaleRepositories(rows, cutoff) ==
  LET stale == Stale(rows, cutoff)
  IN {chosen \in BoundedSeq(stale, MaxTargets) :
        /\ \A i, j \in DOMAIN chosen : i < j => Staler(rows, chosen[i], chosen[j])
        /\ \A r \in stale \ Range(chosen) :
             /\ Len(chosen) = MaxTargets
             /\ \A i \in DOMAIN chosen : Staler(rows, chosen[i], r)}

Select ==
  /\ pc = "body"
  /\ \E t \in Instant : targets' \in StaleRepositories(work, t - MinAge)
  /\ target' = 1
  /\ pc' = "target"
  /\ UNCHANGED <<receipt, store, memory, ending, now, latest>>

Current == targets[target]

AllTargetsDone ==
  /\ pc = "target"
  /\ target > Len(targets)
  /\ pc' = "finish"
  /\ UNCHANGED <<receipt, store, memory, ending, place>>

(* stage_observation() refuses a clock that precedes the newest            *)
(* observation before it asks GitHub.                                      *)
ReadAnyClock ==   \* mutant: a clock that was set back is taken
  /\ pc = "target"
  /\ target <= Len(targets)
  /\ \E t \in Instant :
       /\ now' = t
       /\ latest' = Newest(work, Current)
       /\ pc' = "detail"
  /\ UNCHANGED <<receipt, store, memory, ending, targets, target>>

ReadClock ==
  /\ pc = "target"
  /\ target <= Len(targets)
  /\ \E t \in Instant :
       /\ now' = t
       /\ latest' = Newest(work, Current)
       /\ pc' = IF t < Newest(work, Current) THEN "failure" ELSE "detail"
  /\ UNCHANGED <<receipt, store, memory, ending, targets, target>>

ChargeAttempt == pc = "detail" /\ (Charge \/ ChargeRefused) /\ UNCHANGED place
ReserveAttempt == Reserve /\ UNCHANGED place
RetryAttempt == Retry /\ UNCHANGED place
LeaveAttempt == (Rejected \/ Interrupted) /\ UNCHANGED place

(* upsert_repository(), topics and record_observation(), which updates the *)
(* observation of the same instant if there is one.                        *)
DetailArrives ==
  /\ pc = "detail"
  /\ http = "flight"
  /\ http' = "idle"
  /\ work' = [work EXCEPT !.seen[Current] = @ \cup {now},
                          !.polled[Current] = @ \cup {now}]
  /\ report' = Count(report, {"refreshed", "completed"} \cup
                             (IF latest # now THEN {"observations"} ELSE {}))
  /\ pc' = "save"
  /\ UNCHANGED <<receipt, store, used, sent, stop, ending, place>>

OperationFails ==
  /\ \/ pc = "detail" /\ http \in {"reserve", "flight"}
     \/ pc = "save"
     \/ pc = "target" /\ target <= Len(targets)
  /\ http' = "idle"
  /\ pc' = "failure"
  /\ UNCHANGED <<receipt, store, work, report, used, sent, stop, ending, place>>

Failure ==
  /\ pc = "failure"
  /\ Rollback({"failed"})
  /\ pc' = "failsave"
  /\ UNCHANGED <<receipt, store, used, sent, http, stop, ending, place>>

Done ==
  /\ pc \in Checkpoints
  /\ Checkpoint("target")
  /\ target' = target + 1
  /\ UNCHANGED <<targets, now, latest>>

(* An SQL error where no operation is being handled.                       *)
DatabaseError ==
  /\ pc \in {"body", "failure", "failsave"}
  /\ StopWith("error")
  /\ UNCHANGED place

---------------------------------------------------------------------------
RunStep ==
  \/ Start \/ Select \/ AllTargetsDone \/ ReadClock
  \/ ChargeAttempt \/ ReserveAttempt \/ RetryAttempt \/ LeaveAttempt
  \/ DetailArrives \/ OperationFails \/ Failure \/ Done \/ DatabaseError
  \/ Unwind /\ UNCHANGED place
  \/ Finish(Checkpoints, Empty) /\ UNCHANGED place
  \/ Raises /\ UNCHANGED place

Dies ==
  /\ \/ LoseOwnership(Checkpoints, Empty)
     \/ Crash(Checkpoints, Empty)
  /\ UNCHANGED place

Next == RunStep \/ Dies

Spec == Init /\ [][Next]_vars

---------------------------------------------------------------------------
(* Properties.                                                             *)

TypeOK ==
  /\ HasReceipt => /\ receipt.status \in {"running", "completed", "partial"}
                   /\ receipt.report \in [Counters -> 0..MaxTargets + 1]
                   /\ receipt.requests \in 0..MaxRequests
  /\ store \in [seen : [Repo -> SUBSET Instant],
                polled : [Repo -> SUBSET Instant]]
  /\ targets \in BoundedSeq(Repo, MaxTargets)
  /\ now \in Instant /\ latest \in Instant \cup {Never}

(* observations_inserted is the number of observations there are more than *)
(* before the run, though a poll may overwrite one; every refreshed        *)
(* repository holds the result of its poll; nothing is there uncounted.    *)
Inserted(rows) ==
  {p \in Repo \X Instant : p[2] \in rows.seen[p[1]] \ Observed[p[1]]}
Polled(rows) == {r \in Repo : rows.polled[r] # {}}

ReceiptMatchesRows ==
  IF HasReceipt
  THEN /\ receipt.report.observations = Cardinality(Inserted(store))
       /\ receipt.report.refreshed = Cardinality(Polled(store))
       /\ receipt.report.completed = Cardinality(Polled(store))
  ELSE store = InitialRows

(* The history of a repository only grows at its end, a clock that was set *)
(* back notwithstanding: no observation is written before its newest one,  *)
(* so an older state never passes for the latest.                          *)
HistoryAdvances ==
  \A r \in Repo :
    \A t \in store'.polled[r] \ store.polled[r] : t >= Newest(store, r)

(* A completed refresh has polled everything it selected.                  *)
CompletedMeansDone ==
  HasReceipt /\ receipt.status = "completed" =>
    \A i \in DOMAIN targets : store.polled[targets[i]] # {}

(* What is on record stays on record: a finished receipt, the counts of an *)
(* unfinished one, and the histories, which only grow at their ends.       *)
RecordsAreKept == FinalIsFinal /\ AccountGrows /\ HistoryAdvances
=============================================================================
