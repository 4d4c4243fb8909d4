-------------------------- MODULE RefreshRun_proofs --------------------------
(***************************************************************************)
(* The receipt of a refresh matches the committed rows, histories grow at  *)
(* their ends only, and "completed" means that every target was polled,    *)
(* for every history, every reading of the clock and every place where a   *)
(* run may be cut off.                                                     *)
(***************************************************************************)
EXTENDS RefreshRun, CollectionRun_proofs, FiniteSetTheorems, WellFoundedInduction, TLAPS

Handling == {"detail", "save", "failure", "failsave"}
Polling == Handling \cup {"target"}
Body == Polling \cup {"body"}
FetchPlaces == {"detail"}

---------------------------------------------------------------------------
(* Where the run stands among its targets, which are all different.        *)
PlaceInv ==
  /\ pc \in Special \cup Body
  /\ targets \in Seq(Repo) /\ Len(targets) <= MaxTargets
  /\ \A i, j \in 1..Len(targets) : targets[i] = targets[j] => i = j
  /\ target \in 0..Len(targets) + 1
  /\ pc \in {"start", "body"} => targets = <<>>
  /\ pc \in Polling => target > 0
  /\ pc \in Handling => target <= Len(targets)
  /\ now \in Instant /\ latest \in Instant \cup {Never}

(* Every target that was handled is accounted for once.                    *)
Handled(r) == r.completed + r.skipped + r.failed

TallyInv ==
  /\ pc \in {"start", "body"} => Handled(report) = 0
  /\ pc \in {"target", "detail"} => Handled(report) = target - 1
  /\ pc \in {"save", "failsave"} => Handled(report) = target
  /\ pc = "finish" => Handled(report) <= Len(targets) + 1
  /\ HasReceipt =>
       /\ Handled(receipt.report) <= Len(targets) + 1
       /\ pc = "body" => Handled(receipt.report) = 0
       /\ pc \in Polling => Handled(receipt.report) = target - 1
       /\ pc = "unwind" => Handled(receipt.report) <= Len(targets)

(* Rows and the report that was counted with them.                         *)
RowType == [seen : [Repo -> SUBSET Instant], polled : [Repo -> SUBSET Instant]]

Accounted(rows, r) ==
  /\ rows \in RowType
  /\ \A x \in Repo : Observed[x] \subseteq rows.seen[x]
  /\ r.observations = Cardinality(Inserted(rows))
  /\ r.refreshed = Cardinality(Polled(rows))
  /\ r.completed = r.refreshed
  /\ r.observations <= r.completed

RowsInv ==
  /\ Accounted(work, report)
  /\ HasReceipt => Accounted(store, receipt.report)
  /\ ~HasReceipt => store = InitialRows
  /\ pc \notin {"save", "failure", "unwind", "end"} => work = store

(* What is still to be polled was not polled yet, and nothing is staged    *)
(* before the end of a history.                                            *)
Unpolled(rows, from) ==
  \A i \in 1..Len(targets) : i >= from => rows.polled[targets[i]] = {}

AheadInv ==
  /\ pc \in {"start", "body"} => \A r \in Repo : store.polled[r] = {}
  /\ pc \in Polling => Unpolled(store, target)
  /\ pc = "save" => Unpolled(work, target + 1)
  /\ pc = "detail" => latest = Newest(work, Current) /\ now >= latest
  /\ \A r \in Repo : \A t \in work.polled[r] \ store.polled[r] : t >= Newest(store, r)

(* What has been handled is polled, unless something failed.               *)
Through(rows, to) == \A i \in 1..to : rows.polled[targets[i]] # {}

StopInv ==
  /\ pc \notin {"unwind", "finish", "end"} => stop = "none"
  /\ pc = "unwind" => stop # "none"
  /\ pc = "failsave" => report.failed > 0

CoverInv ==
  /\ StopInv
  /\ pc \in {"target", "detail"} /\ report.failed = 0 => Through(work, target - 1)
  /\ pc = "save" /\ report.failed = 0 => Through(work, target)
  /\ pc = "finish" /\ stop = "none" /\ report.failed = 0 => Through(work, Len(targets))
  /\ CompletedMeansDone

IInv ==
  /\ RunInv(Counters, FetchPlaces)
  /\ PlaceInv /\ TallyInv /\ RowsInv /\ AheadInv /\ CoverInv
---------------------------------------------------------------------------
(* Every instant is below the bound, so the observations of a repository   *)
(* have a newest one.                                                      *)
LEMMA Greatest ==
  ASSUME NEW n \in Nat, NEW S \in SUBSET (0..n \cup {Never}), S # {}
  PROVE \E x \in S : \A y \in S : x >= y
<1> DEFINE T == {n - x : x \in S}
<1>1. T \subseteq Nat /\ T # {}
  BY DEF Never
<1>2. \E m \in T : \A k \in T : <<k, m>> \notin OpToRel(<, Nat)
  BY <1>1, WFMin, NatLessThanWellFounded, Zenon
<1>3. PICK m \in T : \A k \in T : ~(k < m)
  BY <1>1, <1>2, Zenon DEF OpToRel
<1>4. PICK x \in S : m = n - x
  BY <1>3
<1>5. ASSUME NEW y \in S PROVE x >= y
  <2>1. ~(n - y < n - x)
    BY <1>3, <1>4
  <2> QED BY <2>1 DEF Never
<1> QED BY <1>5

LEMMA NewestIs ==
  ASSUME LastInstant \in Nat, NEW rows, NEW r \in Repo, rows.seen[r] \in SUBSET Instant
  PROVE /\ Newest(rows, r) \in rows.seen[r] \cup {Never}
        /\ Newest(rows, r) \in Instant \cup {Never}
        /\ \A t \in rows.seen[r] : t <= Newest(rows, r)
        /\ \A t \in rows.seen[r] \cup {Never} : t <= Newest(rows, r)
<1> DEFINE S == rows.seen[r] \cup {Never}
<1>1. S \in SUBSET (0..LastInstant \cup {Never}) /\ S # {}
  BY DEF Instant
<1>2. \E x \in S : \A y \in S : x >= y
  BY <1>1, Greatest
<1>3. Newest(rows, r) \in S /\ \A y \in S : Newest(rows, r) >= y
  BY <1>2 DEF Newest, Max
<1> QED BY <1>1, <1>3 DEF Instant, Never
---------------------------------------------------------------------------
(* A refresh is a kind of run as CollectionRun_proofs has it.              *)
LEMMA RefreshIsKind ==
  ASSUME Parameters
  PROVE KindOK(Counters, Empty, Checkpoints, FetchPlaces)
  BY DEF Parameters, KindOK, Empty, Checkpoints, FetchPlaces, Special

(* Every step of a refresh is one that any run may take.                   *)
LEMMA StepsAreMoves ==
  ASSUME Parameters, RunInv(Counters, FetchPlaces), PlaceInv, [Next]_vars
  PROVE RunMove(Counters, Empty, Checkpoints, FetchPlaces) \/ UNCHANGED runVars
<1> DEFINE Resting == BodyMove(Counters, FetchPlaces)
<1>1. /\ http \in {"idle", "reserve", "flight"}
      /\ http # "idle" => pc \in FetchPlaces
  BY DEF RunInv, TypesKept, PlacesKept
<1>2. CASE Select \/ AllTargetsDone \/ ReadClock \/ OperationFails
  <2>1. /\ pc \notin Special /\ pc' \notin {"start", "unwind", "end"}
        /\ UNCHANGED <<receipt, store, used, sent, stop, ending, report>>
        /\ http' \in {http, "idle"}
        /\ http' # "idle" => pc' \in FetchPlaces
    BY <1>1, <1>2 DEF Select, AllTargetsDone, ReadClock, OperationFails, memory, Special,
                      FetchPlaces
  <2>2. Resting
    BY <2>1, CountingOn DEF BodyMove
  <2> QED BY <2>2 DEF RunMove
<1>3. CASE DetailArrives \/ Failure
  <2>1. /\ pc \notin Special /\ pc' \notin {"start", "unwind", "end"}
        /\ UNCHANGED <<receipt, store, used, sent, stop, ending>>
        /\ http' = "idle"
    BY <1>1, <1>3 DEF DetailArrives, Failure, Special, FetchPlaces
  <2>2. PICK cs : report' = Count(report, cs) \/ report' = Count(receipt.report, cs)
    BY <1>3 DEF DetailArrives, Failure, Rollback
  <2>3. Resting
    BY <2>1, <2>2, CountingOn DEF BodyMove
  <2> QED BY <2>3 DEF RunMove
<1>4. CASE Done
  BY <1>4 DEF Done, Checkpoint, RunMove, CheckpointMove, Checkpoints, Special
<1>5. CASE ChargeAttempt
  <2>1. CASE Charge
    BY <1>5, <2>1 DEF ChargeAttempt, RunMove, ChargeMove, FetchPlaces
  <2>2. CASE ChargeRefused
    BY <1>5, <2>2 DEF ChargeAttempt, ChargeRefused, RunMove, StopMove, Reasons, Special
  <2> QED BY <1>5, <2>1, <2>2 DEF ChargeAttempt
<1>6. CASE ReserveAttempt \/ RetryAttempt
  BY <1>6 DEF ReserveAttempt, RetryAttempt, RunMove
<1>7. CASE LeaveAttempt
  <2>1. pc \notin Special
    BY <1>1, <1>7 DEF LeaveAttempt, Rejected, Interrupted, FetchPlaces, Special
  <2> QED BY <1>7, <2>1 DEF LeaveAttempt, Rejected, Interrupted, RunMove, StopMove, Reasons
<1>8. CASE DatabaseError
  BY <1>8 DEF DatabaseError, RunMove, StopMove, Reasons, Special
<1>9. CASE \/ Start \/ Dies
           \/ (Unwind \/ Finish(Checkpoints, Empty) \/ Raises) /\ UNCHANGED place
  BY <1>9 DEF Start, Dies, RunMove
<1>10. CASE UNCHANGED vars
  BY <1>10 DEF vars
<1> QED BY <1>2, <1>3, <1>4, <1>5, <1>6, <1>7, <1>8, <1>9, <1>10 DEF Next, RunStep

---------------------------------------------------------------------------
(* What stale_repositories() may return, none of them twice.               *)
LEMMA SelectionIs ==
  ASSUME Parameters, NEW rows, rows.seen \in [Repo -> SUBSET Instant], NEW cutoff,
         NEW chosen \in StaleRepositories(rows, cutoff)
  PROVE /\ chosen \in Seq(Repo) /\ Len(chosen) <= MaxTargets
        /\ \A i, j \in 1..Len(chosen) : chosen[i] = chosen[j] => i = j
<1>1. chosen \in BoundedSeq(Stale(rows, cutoff), MaxTargets)
  BY DEF StaleRepositories
<1>2. PICK m \in 0..MaxTargets : chosen \in [1..m -> Stale(rows, cutoff)]
  BY <1>1 DEF BoundedSeq, SeqOf
<1>3. Stale(rows, cutoff) \subseteq Repo
  BY DEF Stale
<1>4. chosen \in Seq(Repo) /\ Len(chosen) = m /\ m \in Nat /\ DOMAIN chosen = 1..m
  BY <1>2, <1>3 DEF Parameters
<1>5. \A r \in Repo : ~Staler(rows, r, r)
  <2> TAKE r \in Repo
  <2>1. Newest(rows, r) \in Instant \cup {Never}
    BY NewestIs DEF Parameters
  <2>2. r \in Nat
    BY DEF Parameters
  <2>3. ~(Newest(rows, r) < Newest(rows, r)) /\ ~(r < r)
    BY <2>1, <2>2 DEF Instant, Never
  <2> QED BY <2>3 DEF Staler
<1>6. \A i, j \in DOMAIN chosen : i < j => Staler(rows, chosen[i], chosen[j])
  BY DEF StaleRepositories
<1>7. ASSUME NEW i \in 1..m, NEW j \in 1..m, i # j PROVE chosen[i] # chosen[j]
  <2>1. chosen[i] \in Repo /\ chosen[j] \in Repo
    BY <1>4
  <2>2. Staler(rows, chosen[i], chosen[j]) \/ Staler(rows, chosen[j], chosen[i])
    BY <1>4, <1>6, <1>7
  <2> QED BY <1>5, <2>1, <2>2
<1> QED BY <1>2, <1>4, <1>7 DEF Parameters

(* The targets are polled in order.                                        *)
LEMMA PlaceKept ==
  ASSUME Parameters, RunInv(Counters, FetchPlaces), PlaceInv, RowsInv, [Next]_vars
  PROVE PlaceInv'
<1> DEFINE Stays ==
      /\ UNCHANGED place
      /\ pc' \in Special \cup Body
      /\ pc' \in {"start", "body"} => pc \in {"start", "body"}
      /\ pc' \in Polling => pc \in Polling
      /\ pc' \in Handling => pc \in Handling \/ target <= Len(targets)
<1>1. /\ http \in {"idle", "reserve", "flight"}
      /\ http # "idle" => pc \in FetchPlaces
      /\ pc \in Special \cup Body
  BY DEF RunInv, TypesKept, PlacesKept, PlaceInv
<1>2. CASE Stays
  BY <1>2 DEF PlaceInv, place
<1>3. CASE Start \/ AllTargetsDone \/ DetailArrives \/ OperationFails \/ Failure \/ DatabaseError
  <2>1. Stays
    BY <1>1, <1>3 DEF Start, Begin, AllTargetsDone, DetailArrives, OperationFails, Failure,
       DatabaseError, StopWith, memory, Special, Body, Polling, Handling, FetchPlaces
  <2> QED BY <1>2, <2>1
<1>4. CASE ChargeAttempt \/ ReserveAttempt \/ RetryAttempt \/ LeaveAttempt
  <2>1. Stays
    BY <1>1, <1>4 DEF ChargeAttempt, Charge, ChargeRefused, ReserveAttempt, Reserve,
       RetryAttempt, Retry, LeaveAttempt, Rejected, Interrupted, StopWith,
       Special, Body, Polling, Handling, FetchPlaces
  <2> QED BY <1>2, <2>1
<1>5. CASE \/ (Unwind \/ Finish(Checkpoints, Empty) \/ Raises) /\ UNCHANGED place
           \/ Dies
           \/ UNCHANGED vars
  <2>1. Stays
    BY <1>1, <1>5 DEF Unwind, Finish, Raises, Dies, LoseOwnership, Crash, Vanish,
       vars, runVars, Special, Body, Polling, Handling
  <2> QED BY <1>2, <2>1
<1>6. CASE Select
  <2>1. /\ target' = 1 /\ pc' = "target" /\ UNCHANGED <<now, latest>>
        /\ \E cutoff : targets' \in StaleRepositories(work, cutoff)
    BY <1>6 DEF Select
  <2>2. work.seen \in [Repo -> SUBSET Instant]
    BY DEF RowsInv, Accounted, RowType
  <2>3. /\ targets' \in Seq(Repo) /\ Len(targets') <= MaxTargets
        /\ \A i, j \in 1..Len(targets') : targets'[i] = targets'[j] => i = j
    BY <2>1, <2>2, SelectionIs
  <2>4. target' \in 0..Len(targets') + 1
    BY <2>1, <2>3
  <2> QED BY <2>1, <2>3, <2>4 DEF PlaceInv, Special, Body, Polling, Handling
<1>7. CASE ReadClock
  <2>1. /\ UNCHANGED <<targets, target>> /\ pc = "target" /\ target <= Len(targets)
        /\ now' \in Instant /\ latest' = Newest(work, Current)
        /\ pc' \in {"failure", "detail"}
    BY <1>7 DEF ReadClock
  <2>2. Current \in Repo
    BY <2>1 DEF PlaceInv, Polling, Current
  <2>3. latest' \in Instant \cup {Never}
    BY <2>1, <2>2, NewestIs DEF Parameters, RowsInv, Accounted, RowType
  <2> QED BY <2>1, <2>3 DEF PlaceInv, Special, Body, Polling, Handling
<1>8. CASE Done
  <2>1. /\ UNCHANGED <<targets, now, latest>> /\ pc \in Handling /\ pc' = "target"
        /\ target' = target + 1
    BY <1>8 DEF Done, Checkpoint, Checkpoints, Handling
  <2> QED BY <2>1 DEF PlaceInv, Special, Body, Polling, Handling
<1> QED BY <1>3, <1>4, <1>5, <1>6, <1>7, <1>8 DEF Next, RunStep
---------------------------------------------------------------------------
(* Whatever becomes of a target, it is counted once.                       *)
LEMMA HandledOnce ==
  ASSUME NEW r \in [Counters -> Nat]
  PROVE /\ Handled(r) \in Nat /\ Handled(Empty) = 0
        /\ \A cs \in {{"failed"}, {"skipped"}, {"refreshed", "completed"},
                      {"refreshed", "completed", "observations"}} :
             Handled(Count(r, cs)) = Handled(r) + 1
        /\ Handled(Count(r, {})) = Handled(r)
  BY DEF Handled, Count, Counters, Empty

LEMMA TallyKept ==
  ASSUME Parameters, RunInv(Counters, FetchPlaces), PlaceInv, TallyInv, RowsInv, [Next]_vars
  PROVE TallyInv'
<1>1. /\ http \in {"idle", "reserve", "flight"}
      /\ http # "idle" => pc \in FetchPlaces
      /\ report \in [Counters -> Nat]
      /\ HasReceipt => receipt.report \in [Counters -> Nat]
      /\ ~HasReceipt => pc \in {"start", "end"}
      /\ pc \in Special \cup Body
  BY DEF RunInv, TypesKept, PlacesKept, HasReceipt, ReceiptType, PlaceInv
<1>2. /\ Handled(report) \in Nat
      /\ HasReceipt => Handled(receipt.report) \in Nat
      /\ Len(targets) \in Nat /\ target \in Nat /\ target <= Len(targets) + 1
      /\ pc \in Handling => target <= Len(targets)
  <2>1. Len(targets) \in Nat
    BY DEF PlaceInv
  <2> QED BY <1>1, <2>1, HandledOnce DEF PlaceInv
<1> DEFINE Quiet ==
      /\ UNCHANGED <<report, targets, target>>
      /\ HasReceipt' <=> HasReceipt
      /\ HasReceipt => receipt'.report = receipt.report
      /\ \/ pc' \in {pc, "end"}
         \/ pc' = "unwind" /\ pc \in Handling \cup {"body"}
         \/ pc' = "failure" /\ pc \in Polling
         \/ pc' \in {"detail", "finish"} /\ pc = "target"
<1>3. CASE Quiet
  <2>1. Handled(report)' = Handled(report) /\ Len(targets)' = Len(targets)
    BY <1>3
  <2>2. HasReceipt => Handled(receipt.report)' = Handled(receipt.report)
    BY <1>3 DEF Handled
  <2> QED BY <1>2, <1>3, <2>1, <2>2 DEF TallyInv, Polling, Handling
<1>4. CASE AllTargetsDone \/ ReadClock \/ OperationFails \/ DatabaseError
  <2>1. Quiet
    BY <1>1, <1>4 DEF AllTargetsDone, ReadClock, OperationFails, DatabaseError, StopWith,
       memory, place, HasReceipt, Polling, Handling
  <2> QED BY <1>3, <2>1
<1>5. CASE ChargeAttempt \/ RetryAttempt \/ LeaveAttempt
  <2>1. Quiet
    BY <1>1, <1>5 DEF ChargeAttempt, Charge, ChargeRefused, RetryAttempt, Retry, LeaveAttempt,
       Rejected, Interrupted, StopWith, place, HasReceipt, Handling, FetchPlaces
  <2> QED BY <1>3, <2>1
<1>6. CASE (Raises /\ UNCHANGED place) \/ UNCHANGED vars
  <2>1. Quiet
    BY <1>6 DEF Raises, memory, vars, runVars, place, HasReceipt
  <2> QED BY <1>3, <2>1
<1>7. CASE Select
  <2>1. /\ UNCHANGED <<receipt, report>> /\ pc = "body" /\ pc' = "target" /\ target' = 1
        /\ HasReceipt' <=> HasReceipt
    BY <1>7 DEF Select, memory, HasReceipt
  <2>2. Len(targets') \in Nat
    <3>1. PlaceInv'
      BY PlaceKept
    <3> QED BY <3>1 DEF PlaceInv
  <2> QED BY <1>2, <2>1, <2>2 DEF TallyInv, Polling, Handling
<1>8. CASE DetailArrives
  <2>1. /\ UNCHANGED <<receipt, targets, target>> /\ pc = "detail" /\ pc' = "save"
        /\ HasReceipt' <=> HasReceipt
    BY <1>8 DEF DetailArrives, place, HasReceipt
  <2>2. \/ report' = Count(report, {"refreshed", "completed"})
        \/ report' = Count(report, {"refreshed", "completed", "observations"})
    <3>1. /\ {"refreshed", "completed"} \cup {} = {"refreshed", "completed"}
          /\ {"refreshed", "completed"} \cup {"observations"}
               = {"refreshed", "completed", "observations"}
      OBVIOUS
    <3> QED BY <1>8, <3>1 DEF DetailArrives
  <2>3. Handled(report') = Handled(report) + 1
    BY <1>1, <2>2, HandledOnce
  <2> QED BY <1>2, <2>1, <2>3 DEF TallyInv, Polling, Handling
<1>9. CASE Failure
  <2>1. /\ UNCHANGED <<receipt, targets, target>> /\ pc = "failure" /\ pc' = "failsave"
        /\ report' = Count(receipt.report, {"failed"}) /\ HasReceipt' /\ HasReceipt
    BY <1>1, <1>9 DEF Failure, Rollback, place, HasReceipt
  <2>2. Handled(report') = Handled(receipt.report) + 1
    BY <1>1, <2>1, HandledOnce
  <2> QED BY <1>2, <2>1, <2>2 DEF TallyInv, Polling, Handling
<1>10. CASE Unwind /\ UNCHANGED place
  <2>1. /\ UNCHANGED <<receipt, targets, target>> /\ pc = "unwind" /\ pc' = "finish"
        /\ report' = Count(receipt.report, Noted) /\ HasReceipt' /\ HasReceipt
    BY <1>1, <1>10 DEF Unwind, Rollback, place, HasReceipt
  <2>2. Noted \in {{"failed"}, {"skipped"}, {}}
    BY DEF Noted
  <2>3. Handled(report') <= Handled(receipt.report) + 1 /\ Handled(report') \in Nat
    <3>1. \/ Handled(Count(receipt.report, Noted)) = Handled(receipt.report) + 1
          \/ Handled(Count(receipt.report, Noted)) = Handled(receipt.report)
      BY <1>1, <2>1, <2>2, HandledOnce
    <3>2. Handled(receipt.report) \in Nat
      BY <1>2, <2>1
    <3> QED BY <2>1, <3>1, <3>2
  <2> QED BY <1>2, <2>1, <2>3 DEF TallyInv, Polling, Handling
<1>11. CASE ReserveAttempt
  <2>1. /\ UNCHANGED <<report, targets, target, pc>> /\ pc \in FetchPlaces
        /\ receipt' = [receipt EXCEPT !.requests = used]
    BY <1>1, <1>11 DEF ReserveAttempt, Reserve, Committed, place
  <2>2. receipt \in ReceiptType(Counters) /\ HasReceipt
    BY <1>1, <2>1 DEF FetchPlaces, RunInv, TypesKept, HasReceipt
  <2>3. receipt'.report = receipt.report
    BY <2>1, <2>2 DEF ReceiptType
  <2> QED BY <1>2, <2>1, <2>2, <2>3 DEF TallyInv, Handled, Polling, Handling, FetchPlaces
<1>12. CASE Start \/ Done \/ (Finish(Checkpoints, Empty) /\ UNCHANGED place) \/ Dies
  <2>1. UNCHANGED <<report, targets>>
    BY <1>12 DEF Start, Begin, Done, Checkpoint, Finish, Dies, LoseOwnership, Crash, Vanish,
       memory, place
  <2>2. \/ pc = "start" /\ pc' = "body"
        \/ pc \in {"save", "failsave"} /\ pc' = "target" /\ target' = target + 1
           /\ http = "idle"
        \/ pc' = "end"
    BY <1>1, <1>12 DEF Start, Begin, Done, Checkpoint, Checkpoints, Finish, Dies, LoseOwnership,
       Crash, Vanish, FetchPlaces
  <2>3. CASE UNCHANGED receipt /\ pc' = "end"
    <3>1. HasReceipt' <=> HasReceipt
      BY <2>3 DEF HasReceipt
    <3> QED BY <1>2, <2>1, <2>3, <3>1 DEF TallyInv, Polling, Handling
  <2>4. CASE \E r \in InFlightReceipt(Checkpoints, Empty) : Committed(r)
    <3>1. PICK r \in InFlightReceipt(Checkpoints, Empty) : receipt' = r
      BY <2>4 DEF Committed
    <3>2. \/ http = "reserve" /\ pc \in FetchPlaces /\ HasReceipt /\ r.report = receipt.report
          \/ pc = "start" /\ r.report = Empty
          \/ pc \in Checkpoints \cup {"finish"} /\ r.report = report
      BY InFlightReport, RefreshIsKind
    <3>3. Handled(r.report) <= Len(targets) + 1
      <4>1. CASE HasReceipt /\ r.report = receipt.report
        BY <4>1 DEF TallyInv
      <4>2. CASE r.report = Empty
        BY <1>1, <1>2, <4>2, HandledOnce
      <4>3. CASE pc \in Checkpoints \cup {"finish"} /\ r.report = report
        BY <1>2, <4>3 DEF TallyInv, Checkpoints, Handling
      <4> QED BY <3>2, <4>1, <4>2, <4>3
    <3>4. Handled(receipt.report)' = Handled(r.report) /\ Handled(report)' = Handled(report)
      BY <2>1, <3>1 DEF Handled
    <3>5. CASE pc' = "end"
      BY <2>1, <3>3, <3>4, <3>5 DEF TallyInv, Polling, Handling
    <3>6. CASE pc = "start" /\ pc' = "body"
      <4>1. Handled(r.report) = 0
        BY <1>1, <3>2, <3>6, HandledOnce DEF FetchPlaces, Checkpoints
      <4> QED BY <1>2, <2>1, <3>3, <3>4, <3>6, <4>1 DEF TallyInv, Polling, Handling
    <3>7. CASE pc \in {"save", "failsave"} /\ pc' = "target" /\ target' = target + 1
               /\ http = "idle"
      <4>1. r.report = report
        BY <3>2, <3>7
      <4> QED BY <1>2, <2>1, <3>3, <3>4, <3>7, <4>1 DEF TallyInv, Polling, Handling
    <3> QED BY <2>2, <3>5, <3>6, <3>7
  <2> QED
    <3>1. CASE Start \/ (Finish(Checkpoints, Empty) /\ UNCHANGED place)
      BY <2>4, <3>1 DEF Start, Begin, Finish
    <3>2. CASE Done
      <4>1. InFlightReceipt(Checkpoints, Empty) = {[receipt EXCEPT !.report = report]}
        BY <1>1, <3>2 DEF Done, Checkpoints, FetchPlaces, InFlightReceipt
      <4> QED BY <2>4, <3>2, <4>1 DEF Done, Checkpoint
    <3>3. CASE Dies
      BY <2>3, <2>4, <3>3 DEF Dies, LoseOwnership, Crash, Vanish
    <3> QED BY <1>12, <3>1, <3>2, <3>3
<1> QED BY <1>4, <1>5, <1>6, <1>7, <1>8, <1>9, <1>10, <1>11, <1>12 DEF Next, RunStep
---------------------------------------------------------------------------
(* Before anything was polled there is nothing to account for.             *)
LEMMA NothingAccounted ==
  ASSUME Parameters
  PROVE /\ Accounted(InitialRows, Empty)
        /\ \A r \in Repo : InitialRows.polled[r] = {}
<1>1. InitialRows \in RowType
  BY DEF InitialRows, RowType, Parameters
<1>2. /\ InitialRows.seen = Observed
      /\ \A r \in Repo : InitialRows.polled[r] = {}
  BY DEF InitialRows
<1>3. Inserted(InitialRows) = {} /\ Polled(InitialRows) = {}
  BY <1>2 DEF Inserted, Polled
<1>4. Cardinality({}) = 0
  BY FS_EmptySet
<1>5. Empty.observations = 0 /\ Empty.refreshed = 0 /\ Empty.completed = 0
  BY DEF Empty, Counters
<1> QED BY <1>1, <1>2, <1>3, <1>4, <1>5 DEF Accounted

(* Counters that speak of no row may be counted freely.                    *)
LEMMA OtherCounts ==
  ASSUME NEW rows, NEW r \in [Counters -> Nat], Accounted(rows, r),
         NEW cs \in SUBSET {"failed", "skipped"}
  PROVE Accounted(rows, Count(r, cs))
<1>1. /\ Count(r, cs).observations = r.observations
      /\ Count(r, cs).refreshed = r.refreshed
      /\ Count(r, cs).completed = r.completed
  BY DEF Count, Counters
<1> QED BY <1>1 DEF Accounted

(* A poll as DetailArrives stages it.                                      *)
Poll(rows, r, t) ==
  [rows EXCEPT !.seen[r] = @ \cup {t}, !.polled[r] = @ \cup {t}]

PollOf(after, rows, r, t) ==
  /\ after \in RowType
  /\ \A x \in Repo :
       /\ after.seen[x] = IF x = r THEN rows.seen[x] \cup {t} ELSE rows.seen[x]
       /\ after.polled[x] = IF x = r THEN rows.polled[x] \cup {t} ELSE rows.polled[x]

LEMMA PollIs ==
  ASSUME NEW rows \in RowType, NEW r \in Repo, NEW t \in Instant
  PROVE PollOf(Poll(rows, r, t), rows, r, t)
<1>1. PICK S \in [Repo -> SUBSET Instant], P \in [Repo -> SUBSET Instant] :
        rows = [seen |-> S, polled |-> P]
  BY DEF RowType
<1> DEFINE one == [rows EXCEPT !.seen = [S EXCEPT ![r] = S[r] \cup {t}]]
<1>2. one = [seen |-> [S EXCEPT ![r] = S[r] \cup {t}], polled |-> P]
  BY <1>1
<1>3. Poll(rows, r, t) = [one EXCEPT !.polled = [P EXCEPT ![r] = P[r] \cup {t}]]
  BY <1>1 DEF Poll
<1>4. Poll(rows, r, t) = [seen |-> [S EXCEPT ![r] = S[r] \cup {t}],
                          polled |-> [P EXCEPT ![r] = P[r] \cup {t}]]
  BY <1>2, <1>3
<1>5. /\ [S EXCEPT ![r] = S[r] \cup {t}] \in [Repo -> SUBSET Instant]
      /\ [P EXCEPT ![r] = P[r] \cup {t}] \in [Repo -> SUBSET Instant]
  BY <1>1
<1>6. Poll(rows, r, t) \in RowType
  BY <1>4, <1>5 DEF RowType
<1>7. rows.seen = S /\ rows.polled = P
  BY <1>1
<1>8. /\ Poll(rows, r, t).seen = [S EXCEPT ![r] = S[r] \cup {t}]
      /\ Poll(rows, r, t).polled = [P EXCEPT ![r] = P[r] \cup {t}]
  <2> DEFINE S1 == [S EXCEPT ![r] = S[r] \cup {t}]
             P1 == [P EXCEPT ![r] = P[r] \cup {t}]
  <2>1. Poll(rows, r, t) = [seen |-> S1, polled |-> P1]
    BY <1>4
  <2> HIDE DEF S1, P1
  <2>2. Poll(rows, r, t).seen = S1 /\ Poll(rows, r, t).polled = P1
    BY <2>1
  <2> QED BY <2>2 DEF S1, P1
<1> QED BY <1>1, <1>6, <1>7, <1>8 DEF PollOf

LEMMA PollStages ==
  \A rows \in RowType, r \in Repo, t \in Instant, x \in Repo :
    Poll(rows, r, t).polled[x] = IF x = r THEN rows.polled[x] \cup {t} ELSE rows.polled[x]
<1> TAKE rows \in RowType, r \in Repo, t \in Instant
<1>1. PollOf(Poll(rows, r, t), rows, r, t)
  BY PollIs
<1> QED BY <1>1 DEF PollOf

(* The rows of a run are finitely many.                                    *)
LEMMA RowsAreFinite ==
  ASSUME Parameters, NEW rows
  PROVE IsFiniteSet(Inserted(rows)) /\ IsFiniteSet(Polled(rows))
<1>1. IsFiniteSet(Instant) /\ IsFiniteSet(Repo)
  BY FS_Interval DEF Instant, Parameters
<1>2. IsFiniteSet(Repo \X Instant)
  BY <1>1, FS_Product
<1>3. Inserted(rows) \subseteq Repo \X Instant /\ Polled(rows) \subseteq Repo
  BY DEF Inserted, Polled
<1> QED BY <1>1, <1>2, <1>3, FS_Subset

(* The poll of a repository not polled yet adds one poll, and an           *)
(* observation unless there is one of its instant.                         *)
LEMMA PollAccounted ==
  ASSUME Parameters, NEW rows, NEW r \in Repo, NEW t \in Instant,
         NEW c \in [Counters -> Nat], Accounted(rows, c), rows.polled[r] = {}
  PROVE Accounted(Poll(rows, r, t),
                  Count(c, {"refreshed", "completed"} \cup
                           (IF t \in rows.seen[r] THEN {} ELSE {"observations"})))
<1> DEFINE after == Poll(rows, r, t)
           counted == Count(c, {"refreshed", "completed"} \cup
                               (IF t \in rows.seen[r] THEN {} ELSE {"observations"}))
<1>1. /\ rows \in RowType
      /\ \A x \in Repo : Observed[x] \subseteq rows.seen[x]
      /\ c.observations = Cardinality(Inserted(rows))
      /\ c.refreshed = Cardinality(Polled(rows))
      /\ c.completed = c.refreshed /\ c.observations <= c.completed
  BY DEF Accounted
<1>2. /\ after \in RowType
      /\ \A x \in Repo :
           /\ after.seen[x] = IF x = r THEN rows.seen[x] \cup {t} ELSE rows.seen[x]
           /\ after.polled[x] = IF x = r THEN rows.polled[x] \cup {t} ELSE rows.polled[x]
  <2> HIDE DEF counted
  <2>1. rows \in RowType
    BY <1>1
  <2>2. PollOf(Poll(rows, r, t), rows, r, t)
    BY <2>1, PollIs
  <2> QED BY <2>2 DEF PollOf
<1>3. /\ counted.refreshed = c.refreshed + 1 /\ counted.completed = c.completed + 1
      /\ counted.observations =
           IF t \in rows.seen[r] THEN c.observations ELSE c.observations + 1
  BY DEF Count, Counters
<1>4. c.completed \in Nat /\ c.refreshed \in Nat /\ c.observations \in Nat
  BY DEF Counters
<1> SUFFICES Accounted(after, counted)
  OBVIOUS
<1> HIDE DEF after, counted
<1>5. Polled(after) = Polled(rows) \cup {r} /\ r \notin Polled(rows)
  BY <1>2 DEF Polled
<1>6. Cardinality(Polled(after)) = Cardinality(Polled(rows)) + 1
  BY <1>5, RowsAreFinite, FS_AddElement
<1>7. \A x \in Repo : Observed[x] \subseteq after.seen[x]
  BY <1>1, <1>2
<1>8. counted.observations = Cardinality(Inserted(after))
  <2>1. CASE t \in rows.seen[r]
    <3>1. \A x \in Repo : after.seen[x] = rows.seen[x]
      BY <1>2, <2>1
    <3>2. Inserted(after) = Inserted(rows)
      BY <3>1 DEF Inserted
    <3> QED BY <1>1, <1>3, <2>1, <3>2
  <2>2. CASE t \notin rows.seen[r]
    <3>1. t \notin Observed[r]
      BY <1>1, <2>2
    <3>2. <<r, t>> \notin Inserted(rows)
      BY <2>2 DEF Inserted
    <3>3. \A p \in Repo \X Instant :
            p \in Inserted(after) <=> p \in Inserted(rows) \cup {<<r, t>>}
      <4> TAKE p \in Repo \X Instant
      <4>1. p = <<p[1], p[2]>> /\ p[1] \in Repo
        OBVIOUS
      <4>2. CASE p[1] = r
        <5>1. after.seen[p[1]] = rows.seen[p[1]] \cup {t} /\ t \notin Observed[p[1]]
          BY <1>2, <3>1, <4>2
        <5>2. p = <<r, t>> <=> p[2] = t
          BY <4>1, <4>2
        <5> QED BY <5>1, <5>2 DEF Inserted
      <4>3. CASE p[1] # r
        <5>0. p # <<r, t>>
          BY <4>3
        <5>1. after.seen[p[1]] = rows.seen[p[1]] /\ p # <<r, t>>
          BY <1>2, <4>1, <4>3, <5>0
        <5> QED BY <5>1 DEF Inserted
      <4> QED BY <4>2, <4>3
    <3>4. Inserted(after) = Inserted(rows) \cup {<<r, t>>}
      <4>1. Inserted(after) \subseteq Repo \X Instant /\ Inserted(rows) \subseteq Repo \X Instant
        BY DEF Inserted
      <4> QED BY <3>3, <4>1
    <3>5. Cardinality(Inserted(after)) = Cardinality(Inserted(rows)) + 1
      BY <3>2, <3>4, RowsAreFinite, FS_AddElement
    <3> QED BY <1>1, <1>3, <2>2, <3>5
  <2> QED BY <2>1, <2>2
<1>9. /\ counted.refreshed = Cardinality(Polled(after))
      /\ counted.completed = counted.refreshed
      /\ counted.observations <= counted.completed
  BY <1>1, <1>3, <1>4, <1>6
<1> QED BY <1>2, <1>7, <1>8, <1>9 DEF Accounted
---------------------------------------------------------------------------
(* A poll that is answered at the instant of the newest observation        *)
(* overwrites it; any other adds one.                                      *)
LEMMA PollIsNew ==
  ASSUME Parameters, PlaceInv, RowsInv, AheadInv, pc = "detail"
  PROVE /\ Current \in Repo /\ work = store
        /\ work.polled[Current] = {}
        /\ latest # now <=> now \notin work.seen[Current]
<1>1. /\ target \in 1..Len(targets) /\ targets \in Seq(Repo)
      /\ now \in Instant /\ LastInstant \in Nat
  BY DEF PlaceInv, Polling, Handling, Parameters
<1>2. Current \in Repo
  BY <1>1 DEF Current
<1>3. work = store /\ work.seen[Current] \in SUBSET Instant
  BY <1>2 DEF RowsInv, Accounted, RowType
<1>4. work.polled[Current] = {}
  BY <1>1, <1>3 DEF AheadInv, Unpolled, Current, Polling, Handling
<1>5. latest = Newest(work, Current) /\ now >= latest
  BY DEF AheadInv
<1>6. /\ latest \in work.seen[Current] \cup {Never}
      /\ latest \in Instant \cup {Never}
      /\ \A t \in work.seen[Current] : t <= latest
  BY <1>1, <1>2, <1>3, <1>5, NewestIs
<1>7. now # Never
  BY <1>1 DEF Instant, Never
<1>8. now \in work.seen[Current] => now = latest
  BY <1>1, <1>5, <1>6 DEF Instant, Never
<1> QED BY <1>2, <1>3, <1>4, <1>6, <1>7, <1>8

(* The report always counts what is staged, and the receipt what is        *)
(* committed.                                                              *)
LEMMA RowsKept ==
  ASSUME Parameters, RunInv(Counters, FetchPlaces), PlaceInv, RowsInv, AheadInv, [Next]_vars
  PROVE RowsInv'
<1>1. /\ http \in {"idle", "reserve", "flight"}
      /\ http # "idle" => pc \in FetchPlaces
      /\ report \in [Counters -> Nat]
      /\ HasReceipt => receipt \in ReceiptType(Counters) /\ receipt.report \in [Counters -> Nat]
      /\ ~HasReceipt => pc \in {"start", "end"}
      /\ pc = "start" => ~HasReceipt
  BY DEF RunInv, TypesKept, PlacesKept, HasReceipt, ReceiptType
<1> DEFINE Quiet ==
      /\ UNCHANGED <<work, report, store>>
      /\ HasReceipt' <=> HasReceipt
      /\ HasReceipt => receipt'.report = receipt.report
      /\ \/ pc' \in {pc, "end", "unwind", "failure"}
         \/ pc \notin {"save", "failure", "unwind", "end"}
<1>2. CASE Quiet
  <2>1. Accounted(work, report)' = Accounted(work, report)
    BY <1>2
  <2>2. HasReceipt' => Accounted(store, receipt.report)'
    BY <1>2 DEF RowsInv
  <2> QED BY <1>2, <2>1, <2>2 DEF RowsInv
<1>3. CASE Select \/ AllTargetsDone \/ ReadClock \/ OperationFails \/ DatabaseError
  <2>1. Quiet
    BY <1>1, <1>3 DEF Select, AllTargetsDone, ReadClock, OperationFails, DatabaseError,
       StopWith, memory, HasReceipt
  <2> QED BY <1>2, <2>1
<1>4. CASE ChargeAttempt \/ RetryAttempt \/ LeaveAttempt
  <2>1. Quiet
    BY <1>1, <1>4 DEF ChargeAttempt, Charge, ChargeRefused, RetryAttempt, Retry, LeaveAttempt,
       Rejected, Interrupted, StopWith, HasReceipt
  <2> QED BY <1>2, <2>1
<1>5. CASE (Raises /\ UNCHANGED place) \/ UNCHANGED vars
  <2>1. Quiet
    BY <1>5 DEF Raises, memory, vars, runVars, HasReceipt
  <2> QED BY <1>2, <2>1
<1>6. CASE DetailArrives
  <2>1. /\ UNCHANGED <<store, receipt>> /\ pc = "detail" /\ pc' = "save"
        /\ HasReceipt' <=> HasReceipt
        /\ work' = Poll(work, Current, now)
    BY <1>6 DEF DetailArrives, HasReceipt, Poll
  <2>2. /\ Current \in Repo /\ now \in Instant /\ work.polled[Current] = {}
        /\ latest # now <=> now \notin work.seen[Current]
    BY <2>1, PollIsNew DEF PlaceInv
  <2>3. report' = Count(report, {"refreshed", "completed"} \cup
                    (IF now \in work.seen[Current] THEN {} ELSE {"observations"}))
    BY <1>6, <2>2 DEF DetailArrives
  <2>4. Accounted(work, report)
    BY DEF RowsInv
  <2>5. Accounted(Poll(work, Current, now),
                  Count(report, {"refreshed", "completed"} \cup
                    (IF now \in work.seen[Current] THEN {} ELSE {"observations"})))
    BY <1>1, <2>2, <2>4, PollAccounted
  <2>6. Accounted(work, report)'
    BY <2>1, <2>3, <2>5
  <2> QED BY <2>1, <2>6 DEF RowsInv
<1>7. CASE Failure \/ (Unwind /\ UNCHANGED place)
  <2>1. /\ UNCHANGED <<store, receipt>> /\ pc \in {"failure", "unwind"}
        /\ pc' \in {"failsave", "finish"} /\ work' = store
        /\ HasReceipt /\ (HasReceipt' <=> HasReceipt)
    BY <1>1, <1>7 DEF Failure, Unwind, Rollback, HasReceipt
  <2>2. \E cs \in SUBSET {"failed", "skipped"} : report' = Count(receipt.report, cs)
    BY <1>7 DEF Failure, Unwind, Rollback, Noted
  <2>3. Accounted(store, receipt.report)
    BY <2>1 DEF RowsInv
  <2>4. Accounted(work, report)'
    BY <1>1, <2>1, <2>2, <2>3, OtherCounts
  <2> QED BY <2>1, <2>3, <2>4 DEF RowsInv
<1>8. CASE \/ Start \/ Done \/ ReserveAttempt \/ Dies
           \/ Finish(Checkpoints, Empty) /\ UNCHANGED place
  <2>1. /\ UNCHANGED <<work, report>>
        /\ pc' \in {pc, "end"} \/ pc' \notin {"save", "failure", "unwind"}
    BY <1>8 DEF Start, Begin, Done, Checkpoint, ReserveAttempt, Reserve, Dies,
       LoseOwnership, Crash, Vanish, Finish, memory
  <2>2. CASE UNCHANGED <<receipt, store>> /\ pc' = "end"
    <3>1. Quiet
      BY <2>1, <2>2 DEF HasReceipt
    <3> QED BY <1>2, <3>1
  <2>3. CASE \E r \in InFlightReceipt(Checkpoints, Empty) : Committed(r)
    <3>1. PICK r \in InFlightReceipt(Checkpoints, Empty) : receipt' = r /\ store' = work
      BY <2>3 DEF Committed
    <3>2. r \in ReceiptType(Counters) /\ r # NoReceipt
      BY InFlightKept, RefreshIsKind
    <3>3. HasReceipt'
      BY <3>1, <3>2 DEF HasReceipt
    <3>4. Accounted(work, report)
      BY DEF RowsInv
    <3>5. Accounted(work, r.report)
      <4>1. \/ pc \in FetchPlaces /\ HasReceipt /\ r.report = receipt.report
            \/ pc = "start" /\ r.report = Empty
            \/ r.report = report
        BY InFlightReport, RefreshIsKind
      <4>2. CASE pc \in FetchPlaces /\ HasReceipt /\ r.report = receipt.report
        BY <4>2 DEF RowsInv, FetchPlaces
      <4>3. CASE pc = "start" /\ r.report = Empty
        <5>1. work = InitialRows
          BY <1>1, <4>3 DEF RowsInv
        <5> QED BY <4>3, <5>1, NothingAccounted
      <4> QED BY <3>4, <4>1, <4>2, <4>3
    <3> QED BY <2>1, <3>1, <3>3, <3>4, <3>5 DEF RowsInv
  <2> QED
    <3>1. CASE Dies
      BY <2>2, <2>3, <3>1 DEF Dies, LoseOwnership, Crash, Vanish
    <3>2. CASE Start \/ Finish(Checkpoints, Empty)
      BY <2>3, <3>2 DEF Start, Begin, Finish
    <3>3. CASE ReserveAttempt
      <4>1. InFlightReceipt(Checkpoints, Empty) = {[receipt EXCEPT !.requests = used]}
        BY <3>3 DEF ReserveAttempt, Reserve, InFlightReceipt
      <4> QED BY <2>3, <3>3, <4>1 DEF ReserveAttempt, Reserve
    <3>4. CASE Done
      <4>1. InFlightReceipt(Checkpoints, Empty) = {[receipt EXCEPT !.report = report]}
        BY <1>1, <3>4 DEF Done, Checkpoints, FetchPlaces, InFlightReceipt
      <4> QED BY <2>3, <3>4, <4>1 DEF Done, Checkpoint
    <3> QED BY <1>8, <3>1, <3>2, <3>3, <3>4
<1> QED BY <1>3, <1>4, <1>5, <1>6, <1>7, <1>8 DEF Next, RunStep

(* Targets are polled once each, and every poll is at the end of its       *)
(* history.                                                                *)
LEMMA AheadKept ==
  ASSUME Parameters, RunInv(Counters, FetchPlaces), PlaceInv, RowsInv, AheadInv, [Next]_vars
  PROVE AheadInv'
<1>1. /\ http \in {"idle", "reserve", "flight"}
      /\ http # "idle" => pc \in FetchPlaces
      /\ pc = "start" => ~HasReceipt
      /\ pc \in Special \cup Body
  BY DEF RunInv, TypesKept, PlacesKept, PlaceInv
<1>2. /\ target \in Nat
      /\ \A i \in 1..Len(targets) : targets[i] \in Repo
      /\ pc \notin {"save", "failure", "unwind", "end"} => work = store
  BY DEF PlaceInv, RowsInv
<1> DEFINE Quiet ==
      /\ UNCHANGED <<work, store, place>>
      /\ pc' \in {"start", "body"} => pc \in {"start", "body"}
      /\ pc' \in Polling => pc \in Polling
      /\ pc' \in {"save", "detail"} => pc' = pc
<1>3. CASE Quiet
  <2>1. /\ UNCHANGED <<work, store, targets, target, now, latest>>
        /\ Current' = Current
    BY <1>3 DEF place, Current
  <2>2. \A rows, from : Unpolled(rows, from)' = Unpolled(rows, from)
    BY <2>1 DEF Unpolled
  <2>3. \A rows, r : Newest(rows, r)' = Newest(rows, r)
    OBVIOUS
  <2> QED BY <1>3, <2>1, <2>2, <2>3 DEF AheadInv
<1>4. CASE AllTargetsDone \/ OperationFails \/ DatabaseError \/ ReserveAttempt
  <2>1. Quiet
    BY <1>1, <1>2, <1>4 DEF AllTargetsDone, OperationFails, DatabaseError, StopWith,
       ReserveAttempt, Reserve, Committed, memory, FetchPlaces, Polling, Handling
  <2> QED BY <1>3, <2>1
<1>5. CASE ChargeAttempt \/ RetryAttempt \/ LeaveAttempt
  <2>1. Quiet
    BY <1>5 DEF ChargeAttempt, Charge, ChargeRefused, RetryAttempt, Retry, LeaveAttempt,
       Rejected, Interrupted, StopWith, Polling, Handling
  <2> QED BY <1>3, <2>1
<1>6. CASE Start \/ (Raises /\ UNCHANGED place) \/ UNCHANGED vars
  <2>1. Quiet
    BY <1>2, <1>6 DEF Start, Begin, Committed, Raises, memory, vars, runVars, Polling, Handling
  <2> QED BY <1>3, <2>1
<1>7. CASE Select
  <2>1. /\ UNCHANGED <<work, store>> /\ pc = "body" /\ pc' = "target" /\ target' = 1
        /\ work = store
    BY <1>2, <1>7 DEF Select, memory
  <2>2. \A i \in 1..Len(targets') : targets'[i] \in Repo
    <3>1. PlaceInv'
      BY PlaceKept
    <3> QED BY <3>1 DEF PlaceInv
  <2>3. \A r \in Repo : store.polled[r] = {}
    BY <2>1 DEF AheadInv
  <2>4. Unpolled(store, target)'
    BY <2>1, <2>2, <2>3 DEF Unpolled
  <2> QED BY <2>1, <2>4 DEF AheadInv
<1>8. CASE ReadClock
  <2>1. /\ UNCHANGED <<work, store, targets, target>> /\ pc = "target" /\ target <= Len(targets)
        /\ now' \in Instant /\ latest' = Newest(work, Current)
        /\ pc' = IF now' < Newest(work, Current) THEN "failure" ELSE "detail"
    BY <1>8 DEF ReadClock, memory
  <2>2. Newest(work, Current) \in Instant \cup {Never}
    <3>1. Current \in Repo
      BY <2>1 DEF PlaceInv, Polling, Current
    <3> QED BY <3>1, NewestIs DEF Parameters, RowsInv, Accounted, RowType
  <2>3. pc' = "detail" => now' >= latest'
    BY <2>1, <2>2 DEF Instant, Never
  <2>4. latest' = Newest(work, Current)'
    BY <2>1 DEF Current
  <2>5. Unpolled(store, target)'
    BY <2>1 DEF AheadInv, Unpolled, Polling
  <2>6. pc' \notin {"start", "body", "save"}
    BY <2>1
  <2> QED BY <2>1, <2>3, <2>4, <2>5, <2>6 DEF AheadInv
<1>9. CASE DetailArrives
  <2>1. /\ UNCHANGED <<store, place>> /\ pc = "detail" /\ pc' = "save"
        /\ work' = Poll(work, Current, now)
        /\ UNCHANGED <<targets, target>>
    BY <1>9 DEF DetailArrives, Poll, place
  <2>2. /\ Current \in Repo /\ now \in Instant /\ work = store /\ work \in RowType
        /\ target \in 1..Len(targets)
    BY <2>1, PollIsNew DEF PlaceInv, RowsInv, Accounted, Polling, Handling
  <2>3. \A x \in Repo : work'.polled[x] = IF x = Current THEN work.polled[x] \cup {now}
                                                        ELSE work.polled[x]
    <3>1. work \in RowType /\ Current \in Repo /\ now \in Instant
      BY <2>2
    <3>2. \A x \in Repo : Poll(work, Current, now).polled[x]
            = IF x = Current THEN work.polled[x] \cup {now} ELSE work.polled[x]
      BY <3>1, PollStages
    <3> QED BY <2>1, <3>2
  <2>4. Unpolled(store, target)
    BY <2>1 DEF AheadInv, Polling, Handling
  <2>5. Unpolled(work, target + 1)'
    <3> SUFFICES ASSUME NEW i \in 1..Len(targets), i >= target + 1
                 PROVE work'.polled[targets[i]] = {}
      BY <2>1 DEF Unpolled
    <3>1. targets[i] # Current
      <4>1. i # target
        BY <2>2
      <4> QED BY <2>2, <4>1 DEF PlaceInv, Current
    <3>2. work'.polled[targets[i]] = store.polled[targets[i]]
      BY <1>2, <2>2, <2>3, <3>1
    <3> QED BY <2>2, <2>4, <3>2 DEF Unpolled
  <2>6. ASSUME NEW r \in Repo, NEW t \in work'.polled[r] \ store'.polled[r]
        PROVE t >= Newest(store', r)
    <3>1. r = Current /\ t = now
      BY <2>1, <2>2, <2>3, <2>6
    <3>2. now >= Newest(work, Current)
      BY <2>1 DEF AheadInv
    <3> QED BY <2>1, <2>2, <3>1, <3>2
  <2>7. Unpolled(store, target)'
    BY <2>1, <2>4 DEF Unpolled
  <2> QED BY <2>1, <2>5, <2>6, <2>7 DEF AheadInv
<1>10. CASE Failure \/ (Unwind /\ UNCHANGED place)
  <2>1. /\ UNCHANGED <<store, targets, target>> /\ work' = store
        /\ \/ pc = "failure" /\ pc' = "failsave"
           \/ pc' = "finish"
    BY <1>10 DEF Failure, Unwind, Rollback, place
  <2>2. pc' \in Polling => Unpolled(store, target)'
    BY <2>1 DEF AheadInv, Unpolled, Polling, Handling
  <2> QED BY <2>1, <2>2 DEF AheadInv
<1>11. CASE Done
  <2>1. /\ work' = work /\ store' = work /\ UNCHANGED targets
        /\ target' = target + 1 /\ pc' = "target"
        /\ pc = "save" \/ pc = "failsave"
    BY <1>11 DEF Done, Checkpoint, Checkpoints, Committed, memory
  <2>2. Unpolled(work, target + 1)
    <3>1. CASE pc = "save"
      BY <3>1 DEF AheadInv
    <3>2. CASE pc = "failsave"
      <4>1. Unpolled(work, target)
        BY <1>2, <3>2 DEF AheadInv, Polling, Handling
      <4> QED BY <1>2, <4>1 DEF Unpolled
    <3> QED BY <2>1, <3>1, <3>2
  <2>3. Unpolled(store, target)'
    BY <2>1, <2>2 DEF Unpolled
  <2> QED BY <2>1, <2>3 DEF AheadInv
<1>12. CASE Dies \/ (Finish(Checkpoints, Empty) /\ UNCHANGED place)
  <2>1. /\ work' = work /\ store' \in {store, work} /\ pc' = "end"
    BY <1>12 DEF Dies, LoseOwnership, Crash, Vanish, Finish, Committed, memory
  <2>2. pc' \notin Polling \cup {"start", "body", "save", "detail"}
    BY <2>1 DEF Polling, Handling
  <2>3. \A r \in Repo : \A t \in work'.polled[r] \ store'.polled[r] : t >= Newest(store', r)
    BY <2>1 DEF AheadInv
  <2> QED BY <2>2, <2>3 DEF AheadInv
<1> QED BY <1>4, <1>5, <1>6, <1>7, <1>8, <1>9, <1>10, <1>11, <1>12 DEF Next, RunStep
---------------------------------------------------------------------------
(* A run stops for a reason, and a failure leaves its mark.                *)
LEMMA StopsKept ==
  ASSUME RunInv(Counters, FetchPlaces), PlaceInv, StopInv, [Next]_vars
  PROVE StopInv'
<1>1. /\ http # "idle" => pc \in FetchPlaces
      /\ pc \in Special \cup Body
  BY DEF RunInv, PlacesKept, PlaceInv
<1>2. CASE \/ Start \/ Select \/ AllTargetsDone \/ ReadClock \/ DetailArrives
           \/ OperationFails \/ Done
  <2>1. /\ UNCHANGED stop
        /\ pc \in Body \cup {"start"} /\ pc' \notin {"unwind", "end", "failsave"}
    BY <1>1, <1>2 DEF Start, Begin, Select, AllTargetsDone, ReadClock, DetailArrives,
       OperationFails, Done, Checkpoint, Checkpoints, memory, Body, Polling, Handling
  <2> QED BY <2>1 DEF StopInv, Body, Polling, Handling
<1>3. CASE Failure
  <2>1. /\ UNCHANGED stop /\ pc = "failure" /\ pc' = "failsave"
        /\ report' = Count(receipt.report, {"failed"})
    BY <1>3 DEF Failure, Rollback
  <2>2. receipt.report \in [Counters -> Nat]
    BY <2>1, CountingOn DEF Special
  <2>3. report'.failed > 0
    BY <2>1, <2>2 DEF Count, Counters
  <2> QED BY <2>1, <2>3 DEF StopInv
<1>4. CASE \/ ChargeAttempt /\ Charge
           \/ ReserveAttempt \/ RetryAttempt
           \/ UNCHANGED vars
  <2>1. UNCHANGED <<stop, pc, report>>
    BY <1>4 DEF Charge, ReserveAttempt, Reserve, RetryAttempt, Retry, vars, runVars
  <2> QED BY <2>1 DEF StopInv
<1>5. CASE \/ ChargeAttempt /\ ChargeRefused
           \/ LeaveAttempt \/ DatabaseError
  <2>1. pc' = "unwind" /\ stop' # "none"
    BY <1>5 DEF ChargeRefused, LeaveAttempt, Rejected, Interrupted, DatabaseError, StopWith
  <2> QED BY <2>1 DEF StopInv
<1>6. CASE \/ Unwind \/ Finish(Checkpoints, Empty) \/ Raises \/ Dies
  <2>1. pc' \in {"finish", "end"}
    BY <1>6 DEF Unwind, Finish, Raises, Dies, LoseOwnership, Crash, Vanish
  <2> QED BY <2>1 DEF StopInv
<1> QED BY <1>2, <1>3, <1>4, <1>5, <1>6 DEF Next, RunStep, ChargeAttempt

(* While nothing has failed, every target up to the present one is polled. *)
Reached ==
  /\ pc \in {"target", "detail"} /\ report.failed = 0 => Through(work, target - 1)
  /\ pc = "save" /\ report.failed = 0 => Through(work, target)
  /\ pc = "finish" /\ stop = "none" /\ report.failed = 0 => Through(work, Len(targets))

LEMMA ReachedKept ==
  ASSUME Parameters, RunInv(Counters, FetchPlaces), PlaceInv, RowsInv, AheadInv, CoverInv,
         [Next]_vars
  PROVE Reached'
<1>1. /\ http \in {"idle", "reserve", "flight"}
      /\ http # "idle" => pc \in FetchPlaces
      /\ report \in [Counters -> Nat]
      /\ target \in Nat /\ target <= Len(targets) + 1 /\ Len(targets) \in Nat
      /\ StopInv /\ Reached
  BY DEF RunInv, TypesKept, PlacesKept, PlaceInv, CoverInv, Reached
<1> DEFINE Quiet ==
      /\ UNCHANGED <<work, report, stop, targets, target>>
      /\ pc' \in {"target", "detail"} => pc \in {"target", "detail"}
      /\ pc' \in {"save", "finish"} => pc' = pc
<1>2. CASE Quiet
  <2>1. \A to : Through(work, to)' = Through(work, to)
    BY <1>2 DEF Through
  <2> QED BY <1>1, <1>2, <2>1 DEF Reached
<1>3. CASE \/ ChargeAttempt /\ Charge
           \/ ReserveAttempt \/ RetryAttempt \/ ReadClock \/ UNCHANGED vars
  <2>1. Quiet
    BY <1>1, <1>3 DEF ChargeAttempt, Charge, ReserveAttempt, Reserve,
       RetryAttempt, Retry, ReadClock, memory, place, vars, runVars, FetchPlaces
  <2> QED BY <1>2, <2>1
<1>4. CASE \/ ChargeAttempt /\ ChargeRefused
           \/ Start \/ LeaveAttempt \/ OperationFails \/ Failure \/ DatabaseError
           \/ Finish(Checkpoints, Empty) \/ Raises \/ Dies
  <2>1. pc' \notin {"target", "detail", "save", "finish"}
    BY <1>4 DEF ChargeRefused, Start, Begin, LeaveAttempt, Rejected, Interrupted, OperationFails, Failure,
       DatabaseError, StopWith, Finish, Raises, Dies, LoseOwnership, Crash, Vanish
  <2> QED BY <2>1 DEF Reached
<1>5. CASE Select
  <2>1. target' = 1 /\ pc' = "target"
    BY <1>5 DEF Select
  <2>2. Through(work, 0)'
    BY DEF Through
  <2> QED BY <2>1, <2>2 DEF Reached
<1>6. CASE AllTargetsDone
  <2>1. /\ UNCHANGED <<work, report, stop, targets, target>> /\ pc = "target"
        /\ pc' = "finish" /\ target > Len(targets)
    BY <1>6 DEF AllTargetsDone, memory, place
  <2>2. target - 1 = Len(targets)
    BY <1>1, <2>1
  <2>3. report.failed = 0 => Through(work, Len(targets))
    BY <1>1, <2>1, <2>2 DEF Reached
  <2>4. report.failed = 0 => Through(work, Len(targets))'
    BY <2>1, <2>3 DEF Through
  <2> QED BY <2>1, <2>4 DEF Reached
<1>7. CASE DetailArrives
  <2>1. /\ UNCHANGED <<targets, target>> /\ pc = "detail" /\ pc' = "save"
        /\ work' = Poll(work, Current, now)
        /\ \E cs \in SUBSET {"refreshed", "completed", "observations"} :
             report' = Count(report, cs)
    BY <1>7 DEF DetailArrives, Poll, place
  <2>2. /\ Current \in Repo /\ now \in Instant /\ work \in RowType
        /\ target \in 1..Len(targets)
        /\ \A i \in 1..Len(targets) : targets[i] \in Repo
    BY <2>1, PollIsNew DEF PlaceInv, RowsInv, Accounted, Polling, Handling
  <2>3. \A x \in Repo : work'.polled[x] = IF x = Current THEN work.polled[x] \cup {now}
                                                        ELSE work.polled[x]
    <3>1. work \in RowType /\ Current \in Repo /\ now \in Instant
      BY <2>2
    <3>2. \A x \in Repo : Poll(work, Current, now).polled[x]
            = IF x = Current THEN work.polled[x] \cup {now} ELSE work.polled[x]
      BY <3>1, PollStages
    <3> QED BY <2>1, <3>2
  <2>4. report'.failed = report.failed
    BY <1>1, <2>1 DEF Count, Counters
  <2>5. ASSUME Through(work, target - 1), NEW i \in 1..target
        PROVE work'.polled[targets[i]] # {}
    <3>1. CASE i = target
      BY <2>2, <2>3, <3>1 DEF Current
    <3>2. CASE i # target
      <4>1. i \in 1..target - 1 /\ i \in 1..Len(targets)
        BY <1>1, <2>2, <3>2
      <4>2. work.polled[targets[i]] # {} /\ targets[i] \in Repo
        BY <2>2, <2>5, <4>1 DEF Through
      <4> QED BY <2>3, <4>2
    <3> QED BY <3>1, <3>2
  <2>6. Through(work, target - 1) => Through(work, target)'
    BY <2>1, <2>5 DEF Through
  <2> QED BY <1>1, <2>1, <2>4, <2>6 DEF Reached
<1>8. CASE Done
  <2>1. /\ UNCHANGED <<work, report, targets>> /\ target' = target + 1 /\ pc' = "target"
        /\ pc = "save" \/ pc = "failsave"
    BY <1>8 DEF Done, Checkpoint, Checkpoints, memory
  <2>2. target' - 1 = target
    BY <1>1, <2>1
  <2>3. report.failed = 0 => pc = "save"
    BY <1>1, <2>1 DEF StopInv
  <2>4. report.failed = 0 => Through(work, target)
    BY <1>1, <2>3 DEF Reached
  <2>5. \A to : Through(work, to) => Through(work', to)
    BY <2>1
  <2>6. report'.failed = 0 => Through(work, target - 1)'
    BY <2>1, <2>2, <2>4 DEF Through
  <2> QED BY <2>1, <2>6 DEF Reached
<1>9. CASE Unwind
  <2>1. stop' = stop /\ stop # "none" /\ pc' = "finish"
    BY <1>1, <1>9 DEF Unwind, StopInv
  <2> QED BY <2>1 DEF Reached
<1> QED BY <1>3, <1>4, <1>5, <1>6, <1>7, <1>8, <1>9 DEF Next, RunStep, ChargeAttempt

(* The closing of a run as "completed" preserves the claim it makes.       *)
LEMMA CompletedKept ==
  ASSUME Parameters, RunInv(Counters, FetchPlaces), PlaceInv, CoverInv, [Next]_vars
  PROVE CompletedMeansDone'
<1> SUFFICES ASSUME HasReceipt', receipt'.status = "completed"
             PROVE CompletedMeansDone'
  BY DEF CompletedMeansDone
<1>1. \/ UNCHANGED <<receipt, store>>
      \/ \E r \in InFlightReceipt(Checkpoints, Empty) : Committed(r)
  <2>1. CASE UNCHANGED runVars
    BY <2>1 DEF runVars
  <2> QED BY <2>1, StepsAreMoves, CommitsInFlight, RefreshIsKind
<1>2. pc # "body" => UNCHANGED targets
  BY DEF Next, RunStep, Start, Select, AllTargetsDone, ReadClock, ChargeAttempt, ReserveAttempt,
     RetryAttempt, LeaveAttempt, DetailArrives, OperationFails, Failure, Done, DatabaseError,
     Dies, vars, place
<1>3. CASE UNCHANGED <<receipt, store>>
  <2>1. HasReceipt /\ receipt.status = "completed"
    BY <1>3 DEF HasReceipt
  <2>2. pc = "end"
    BY <2>1 DEF RunInv, PlacesKept, EndingMatchesReceipt
  <2> QED BY <1>2, <1>3, <2>1, <2>2 DEF CoverInv, CompletedMeansDone
<1>4. CASE \E r \in InFlightReceipt(Checkpoints, Empty) : Committed(r)
  <2>1. PICK r \in InFlightReceipt(Checkpoints, Empty) : receipt' = r /\ store' = work
    BY <1>4 DEF Committed
  <2>2. pc = "finish" /\ Status = "completed"
    BY <2>1, InFlightKept, RefreshIsKind
  <2>3. stop = "none" /\ report.failed = 0
    <3>1. report.failed \in Nat
      BY DEF RunInv, TypesKept, Counters
    <3> QED BY <2>2, <3>1 DEF Status
  <2>4. Through(work, Len(targets))
    BY <2>2, <2>3 DEF CoverInv
  <2>5. DOMAIN targets = 1..Len(targets) /\ targets' = targets
    BY <1>2, <2>2 DEF PlaceInv
  <2> QED BY <2>1, <2>4, <2>5 DEF CompletedMeansDone, Through
<1> QED BY <1>1, <1>3, <1>4
---------------------------------------------------------------------------
(* The strengthened invariant is inductive.                                *)
LEMMA Inductive ==
  ASSUME Parameters PROVE (Init => IInv) /\ (IInv /\ [Next]_vars => IInv')
<1>1. Init => IInv
  <2> SUFFICES ASSUME Init PROVE IInv
    OBVIOUS
  <2>1. RunInv(Counters, FetchPlaces)
    BY RunStarts, RefreshIsKind DEF Init
  <2>2. /\ pc = "start" /\ http = "idle" /\ stop = "none" /\ ~HasReceipt
        /\ store = InitialRows /\ work = InitialRows /\ report = Empty
        /\ targets = <<>> /\ target = 0 /\ now = 0 /\ latest = Never
    BY DEF Init, RunInit, PlaceInit, HasReceipt
  <2>3. pc \in Special /\ pc \notin Body /\ pc \notin Polling /\ pc \notin Handling
    BY <2>2 DEF Special, Body, Polling, Handling
  <2>4. PlaceInv
    <3>1. targets \in Seq(Repo) /\ Len(targets) = 0
      BY <2>2
    <3>2. now \in Instant
      BY <2>2 DEF Instant, Parameters
    <3> QED BY <2>2, <2>3, <3>1, <3>2 DEF PlaceInv, Parameters
  <2>5. TallyInv
    <3>1. Handled(Empty) = 0
      BY DEF Handled, Empty, Counters
    <3> QED BY <2>2, <2>3, <3>1 DEF TallyInv
  <2>6. RowsInv
    BY <2>2, NothingAccounted DEF RowsInv
  <2>7. AheadInv
    BY <2>2, <2>3, NothingAccounted DEF AheadInv
  <2>8. CoverInv
    BY <2>2 DEF CoverInv, StopInv, CompletedMeansDone
  <2> QED BY <2>1, <2>4, <2>5, <2>6, <2>7, <2>8 DEF IInv
<1>2. IInv /\ [Next]_vars => IInv'
  <2> SUFFICES ASSUME IInv, [Next]_vars PROVE IInv'
    OBVIOUS
  <2>0. /\ RunInv(Counters, FetchPlaces) /\ PlaceInv /\ TallyInv /\ RowsInv /\ AheadInv
        /\ CoverInv
    BY DEF IInv
  <2>1. RunInv(Counters, FetchPlaces)'
    BY <2>0, StepsAreMoves, RunKept, RunRests, RefreshIsKind
  <2>2. CoverInv'
    <3>1. StopInv'
      BY <2>0, StopsKept DEF CoverInv
    <3>2. Reached'
      BY <2>0, ReachedKept
    <3>3. CompletedMeansDone'
      BY <2>0, CompletedKept
    <3> QED BY <3>1, <3>2, <3>3 DEF CoverInv, Reached
  <2> QED BY <2>0, <2>1, <2>2, PlaceKept, TallyKept, RowsKept, AheadKept DEF IInv
<1> QED BY <1>1, <1>2

(* It holds in every reachable state.                                      *)
LEMMA Invariance ==
  ASSUME Parameters PROVE Spec => []IInv
<1>1. Init => IInv
  BY Inductive
<1>2. IInv /\ [Next]_vars => IInv'
  BY Inductive
<1> QED BY <1>1, <1>2, PTL DEF Spec

(* What it says in the terms of the properties.                            *)
LEMMA Consequences ==
  ASSUME Parameters, IInv
  PROVE /\ TypeOK /\ ReservedBeforeSent /\ EndingMatchesReceipt
        /\ ReceiptMatchesRows /\ CompletedMeansDone
<1>0. /\ RunInv(Counters, FetchPlaces) /\ PlaceInv /\ TallyInv /\ RowsInv /\ AheadInv
      /\ CoverInv
  BY DEF IInv
<1>1. ReservedBeforeSent /\ EndingMatchesReceipt
  BY <1>0, RunIsAccounted DEF Parameters
<1>2. ReceiptMatchesRows
  BY <1>0 DEF RowsInv, Accounted, ReceiptMatchesRows
<1>3. TypeOK
  <2>1. ASSUME HasReceipt
        PROVE /\ receipt.status \in {"running", "completed", "partial"}
              /\ receipt.report \in [Counters -> 0..MaxTargets + 1]
              /\ receipt.requests \in 0..MaxRequests
    <3>1. receipt \in ReceiptType(Counters)
      BY <1>0, <2>1 DEF RunInv, TypesKept, HasReceipt
    <3> DEFINE r == receipt.report
    <3>2. r \in [Counters -> Nat]
      BY <3>1 DEF ReceiptType
    <3>3. r.completed + r.skipped + r.failed <= Len(targets) + 1
      BY <1>0, <2>1 DEF TallyInv, Handled
    <3>4. r.completed = r.refreshed /\ r.observations <= r.completed
      BY <1>0, <2>1 DEF RowsInv, Accounted
    <3> HIDE DEF r
    <3>5. /\ r.refreshed \in Nat /\ r.observations \in Nat /\ r.completed \in Nat
          /\ r.skipped \in Nat /\ r.failed \in Nat
      BY <3>2 DEF Counters
    <3>6. Len(targets) \in Nat /\ MaxTargets \in Nat /\ Len(targets) <= MaxTargets
      BY <1>0 DEF PlaceInv, Parameters
    <3>7. \A c \in Counters : r[c] \in Nat /\ r[c] <= MaxTargets + 1
      <4>1. /\ r.completed <= MaxTargets + 1 /\ r.skipped <= MaxTargets + 1
            /\ r.failed <= MaxTargets + 1
        BY <3>3, <3>5, <3>6
      <4>2. r.refreshed <= MaxTargets + 1 /\ r.observations <= MaxTargets + 1
        BY <3>4, <3>5, <3>6, <4>1
      <4> QED BY <3>5, <4>1, <4>2 DEF Counters
    <3>8. \A c \in Counters : r[c] \in 0..MaxTargets + 1
      BY <3>6, <3>7
    <3>9. r \in [Counters -> 0..MaxTargets + 1]
      BY <3>2, <3>8
    <3>10. receipt.requests \in 0..MaxRequests /\ receipt.status \in Statuses
      BY <3>1 DEF ReceiptType
    <3> QED BY <3>9, <3>10 DEF r, Statuses
  <2>2. targets \in BoundedSeq(Repo, MaxTargets)
    <3>1. Len(targets) \in 0..MaxTargets /\ targets \in [1..Len(targets) -> Repo]
      BY <1>0 DEF PlaceInv, Parameters
    <3> QED BY <3>1 DEF BoundedSeq, SeqOf
  <2>3. store \in RowType
    <3>1. CASE HasReceipt
      BY <1>0, <3>1 DEF RowsInv, Accounted
    <3>2. CASE ~HasReceipt
      BY <1>0, <3>2, NothingAccounted DEF RowsInv, Accounted
    <3> QED BY <3>1, <3>2
  <2>4. now \in Instant /\ latest \in Instant \cup {Never}
    BY <1>0 DEF PlaceInv
  <2> QED BY <2>1, <2>2, <2>3, <2>4 DEF TypeOK, RowType
<1> QED BY <1>0, <1>1, <1>2, <1>3 DEF CoverInv

(* Polls become durable as they were staged: at the end of the history.    *)
LEMMA HistoryKept ==
  ASSUME Parameters, IInv, [Next]_vars
  PROVE HistoryAdvances
<1>1. /\ RunInv(Counters, FetchPlaces) /\ PlaceInv /\ AheadInv
  BY DEF IInv
<1>2. \/ UNCHANGED <<receipt, store>>
      \/ \E r \in InFlightReceipt(Checkpoints, Empty) : Committed(r)
  <2>1. CASE UNCHANGED runVars
    BY <2>1 DEF runVars
  <2> QED BY <1>1, <2>1, StepsAreMoves, CommitsInFlight, RefreshIsKind
<1>3. CASE store' = store
  BY <1>3 DEF HistoryAdvances
<1>4. CASE store' = work
  BY <1>1, <1>4 DEF HistoryAdvances, AheadInv
<1> QED BY <1>2, <1>3, <1>4 DEF Committed

---------------------------------------------------------------------------
(* The types, with the bounds of every counter: a target is accounted for  *)
(* at most once, and one more failure at most is noted for the run.        *)
THEOREM TypeCorrect ==
  ASSUME Parameters PROVE Spec => []TypeOK
<1>1. IInv => TypeOK
  BY Consequences
<1> QED BY <1>1, Invariance, PTL

(* Requests are in the receipt before they are sent, and within the budget. *)
THEOREM Reserved ==
  ASSUME Parameters PROVE Spec => []ReservedBeforeSent
<1>1. IInv => ReservedBeforeSent
  BY Consequences
<1> QED BY <1>1, Invariance, PTL

(* A run that returned left a finished receipt, an interrupted one that    *)
(* says so, and an unfinished receipt reads "running".                     *)
THEOREM Ending ==
  ASSUME Parameters PROVE Spec => []EndingMatchesReceipt
<1>1. IInv => EndingMatchesReceipt
  BY Consequences
<1> QED BY <1>1, Invariance, PTL

(* The receipt counts the polls and the new observations the run has       *)
(* committed, also when a poll overwrites an observation.                  *)
THEOREM Accounting ==
  ASSUME Parameters PROVE Spec => []ReceiptMatchesRows
<1>1. IInv => ReceiptMatchesRows
  BY Consequences
<1> QED BY <1>1, Invariance, PTL

(* "completed" leaves no selected repository unpolled.                     *)
THEOREM Completeness ==
  ASSUME Parameters PROVE Spec => []CompletedMeansDone
<1>1. IInv => CompletedMeansDone
  BY Consequences
<1> QED BY <1>1, Invariance, PTL

(* A finished receipt and its rows are never written again, the counts of  *)
(* an unfinished one only grow, and so does every history, at its end,     *)
(* also when the clock is set back.                                        *)
THEOREM Records ==
  ASSUME Parameters PROVE Spec => [][RecordsAreKept]_vars
<1>1. Spec => []IInv
  BY Invariance
<1>2. IInv /\ [Next]_vars => RecordsAreKept
  <2> SUFFICES ASSUME IInv, [Next]_vars PROVE RecordsAreKept
    OBVIOUS
  <2>1. FinalIsFinal /\ AccountGrows
    BY StepsAreMoves, RunKeepsRecords, RefreshIsKind DEF IInv
  <2> QED BY <2>1, HistoryKept DEF RecordsAreKept
<1> QED BY <1>1, <1>2, PTL DEF Spec
=============================================================================
