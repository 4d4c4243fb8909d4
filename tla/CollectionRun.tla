---------------------------- MODULE CollectionRun ----------------------------
(***************************************************************************)
(* One collection run of services/collection.py: the durable receipt, the  *)
(* report held in memory, the session whose staged writes are committed    *)
(* together with the report, and the HTTP attempts that are reserved in    *)
(* the receipt before they are sent.  The modules DiscoverRun, RefreshRun  *)
(* and EnrichRun give the body of a run; they say what the store holds and *)
(* what the report counts.  CollectionService is a run of any of them.     *)
(*                                                                         *)
(* A commit here succeeds, is refused by the database, or is never         *)
(* answered.  Unanswered, the run ends and its outcome is open: that is    *)
(* what CollectionLock guarantees of the session.                          *)
(***************************************************************************)
EXTENDS Naturals

CONSTANTS MaxRequests   \* the run's request budget

VARIABLES
  receipt,  \* the collection_runs row, or NoReceipt
  store,    \* the committed domain rows
  work,     \* the session's view: store and whatever is staged
  report,   \* the report in memory
  used,     \* attempts charged to the budget
  sent,     \* attempts that reached the network
  http,     \* "idle", "reserve" (about to be sent) or "flight"
  stop,     \* why the body was left early, or "none"
  pc,       \* where the run stands
  ending    \* how run() ended, or "none"

runVars == <<receipt, store, work, report, used, sent, http, stop, pc, ending>>
memory == <<work, report, used, sent, http, stop>>

NoReceipt == [status |-> "none"]

NewReceipt(empty) ==
  [status |-> "running", finished |-> FALSE, stop |-> "none",
   report |-> empty, requests |-> 0]

RunInit(empty, initialStore) ==
  /\ receipt = NoReceipt
  /\ store = initialStore
  /\ work = initialStore
  /\ report = empty
  /\ used = 0 /\ sent = 0 /\ http = "idle"
  /\ stop = "none" /\ pc = "start" /\ ending = "none"

---------------------------------------------------------------------------
(* Add one to each of some counters of a report.                           *)
Count(r, cs) ==
  [c \in DOMAIN r |-> r[c] + (IF c \in cs THEN 1 ELSE 0)]

(* The commit the run is waiting for: the receipt that becomes durable     *)
(* together with everything staged.  checkpoints are the places of the     *)
(* body that run _checkpoint().                                            *)

StatusByStop == IF stop # "none" THEN "partial" ELSE "completed"   \* mutant

Status == IF report.failed > 0 \/ stop # "none" THEN "partial" ELSE "completed"

InFlightReceipt(checkpoints, empty) ==
  IF http = "reserve" THEN {[receipt EXCEPT !.requests = used]}
  ELSE IF pc = "start" THEN {NewReceipt(empty)}
  ELSE IF pc \in checkpoints THEN {[receipt EXCEPT !.report = report]}
  ELSE IF pc = "finish"
    THEN {[receipt EXCEPT !.report = report, !.stop = stop,
                          !.status = Status, !.finished = TRUE]}
  ELSE {}

Committed(r) == receipt' = r /\ store' = work

Begin(checkpoints, empty) ==
  /\ pc = "start"
  /\ \E r \in InFlightReceipt(checkpoints, empty) : Committed(r)
  /\ pc' = "body"
  /\ UNCHANGED <<memory, ending>>

(* _checkpoint(): report and staged rows become durable in one commit.     *)
Checkpoint(l) ==
  /\ Committed([receipt EXCEPT !.report = report])
  /\ pc' = l
  /\ UNCHANGED <<memory, ending>>

(* _rollback_report(): staged rows go, and the report is read back.        *)
RollbackRowsOnly(noted) ==   \* mutant: the report is not read back
  /\ work' = store
  /\ report' = Count(report, noted)

Rollback(noted) ==
  /\ work' = store
  /\ report' = Count(receipt.report, noted)

(* Leave the body early; the handlers of run() unwind.                     *)
StopWith(reason) ==
  /\ stop' = reason
  /\ pc' = "unwind"
  /\ http' = "idle"
  /\ UNCHANGED <<receipt, store, work, report, used, sent, ending>>

(* An unexpected error is noted as a failed operation, an exhausted rate   *)
(* limit as a skipped one; a budget or an interruption counts as neither.  *)
Noted == CASE stop = "error" -> {"failed"}
           [] stop = "ratelimit" -> {"skipped"}
           [] OTHER -> {}

Unwind ==
  /\ pc = "unwind"
  /\ Rollback(Noted)
  /\ pc' = "finish"
  /\ UNCHANGED <<receipt, store, used, sent, http, stop, ending>>

(* The closing checkpoint, outside the run's deadline.                     *)
FinishUnlessInterrupted(checkpoints, empty) ==   \* mutant: re-raised at once
  /\ pc = "finish"
  /\ IF stop = "interrupted"
       THEN UNCHANGED <<receipt, store>>
       ELSE \E r \in InFlightReceipt(checkpoints, empty) : Committed(r)
  /\ pc' = "end"
  /\ ending' = IF stop = "interrupted" THEN "cancelled" ELSE "returned"
  /\ UNCHANGED memory

Finish(checkpoints, empty) ==
  /\ pc = "finish"
  /\ \E r \in InFlightReceipt(checkpoints, empty) : Committed(r)
  /\ pc' = "end"
  /\ ending' = IF stop = "interrupted" THEN "cancelled" ELSE "returned"
  /\ UNCHANGED memory

---------------------------------------------------------------------------
(* One HTTP attempt of GitHubClient: charge the budget, reserve in the     *)
(* receipt, send.  The reservation commits whatever the session holds.     *)

ChargeUnbounded ==   \* mutant: no cap
  /\ http = "idle"
  /\ used' = used + 1
  /\ http' = "reserve"
  /\ UNCHANGED <<receipt, store, work, report, sent, stop, pc, ending>>

Charge ==
  /\ http = "idle"
  /\ used < MaxRequests
  /\ used' = used + 1
  /\ http' = "reserve"
  /\ UNCHANGED <<receipt, store, work, report, sent, stop, pc, ending>>

(* RequestBudgetExceeded, or RateLimitExceeded by the pause threshold.     *)
ChargeRefused ==
  /\ http = "idle"
  /\ \/ used = MaxRequests /\ StopWith("budget")
     \/ StopWith("ratelimit")

ReserveAfterwards ==   \* mutant: the count is left to the next checkpoint
  /\ http = "reserve"
  /\ sent' = sent + 1
  /\ http' = "flight"
  /\ UNCHANGED <<receipt, store, work, report, used, stop, pc, ending>>

Reserve ==
  /\ http = "reserve"
  /\ Committed([receipt EXCEPT !.requests = used])
  /\ sent' = sent + 1
  /\ http' = "flight"
  /\ UNCHANGED <<work, report, used, stop, pc, ending>>

(* A transient answer: back off, then try again from Charge.               *)
Retry ==
  /\ http = "flight"
  /\ http' = "idle"
  /\ UNCHANGED <<receipt, store, work, report, used, sent, stop, pc, ending>>

(* What leaves the attempt loop but must not be noted as one failed        *)
(* operation: an exhausted rate limit and a rejected token.                *)
Rejected ==
  /\ http = "flight"
  /\ StopWith("ratelimit") \/ StopWith("error")

(* max_seconds or SIGTERM while a response or a back-off is awaited.       *)
Interrupted ==
  /\ http = "flight"
  /\ StopWith("deadline") \/ StopWith("interrupted")

---------------------------------------------------------------------------
(* Faults at any database round trip, and the death of the process.        *)

(* A commit that was never answered may have taken effect.                 *)
Vanish(how, checkpoints, empty) ==
  /\ \/ \E r \in InFlightReceipt(checkpoints, empty) : Committed(r)
     \/ UNCHANGED <<receipt, store>>
  /\ pc' = "end"
  /\ http' = "idle"
  /\ ending' = how
  /\ UNCHANGED <<work, report, used, sent, stop>>

(* Loss of the connection, or a cancellation or deadline during its I/O,   *)
(* is a CollectionLockError: it leaves run() without touching the receipt. *)
LoseOwnership(checkpoints, empty) ==
  /\ pc # "end"
  /\ http # "flight"
  /\ Vanish("lost", checkpoints, empty)

Crash(checkpoints, empty) ==
  /\ pc # "end"
  /\ Vanish("crashed", checkpoints, empty)

(* An SQL error where nothing handles it: run() raises.                    *)
Raises ==
  /\ pc \in {"start", "unwind", "finish"}
  /\ pc' = "end"
  /\ ending' = "raised"
  /\ UNCHANGED <<receipt, store, memory>>

---------------------------------------------------------------------------
(* Properties every kind of run has.                                       *)

HasReceipt == receipt # NoReceipt

(* Crashes included, the receipt never accounts for fewer requests than    *)
(* were sent, and the budget is never overrun.                             *)
ReservedBeforeSent ==
  sent > 0 => HasReceipt /\ sent <= receipt.requests
                         /\ receipt.requests <= MaxRequests

(* A step never rewrites a finished receipt, nor the rows it accounts for. *)
FinalIsFinal ==
  HasReceipt /\ receipt.finished => UNCHANGED <<receipt, store>>

(* The durable account only grows: a rollback of the memory to the receipt *)
(* never takes back what an earlier checkpoint said.                       *)
AccountGrows ==
  HasReceipt =>
    /\ receipt'.requests >= receipt.requests
    /\ \A c \in DOMAIN receipt.report :
         receipt'.report[c] >= receipt.report[c]

(* Who returned to its caller left a finished receipt, an interrupted run  *)
(* one that says so; everybody else may leave it open, and then it reads   *)
(* "running".                                                              *)
EndingMatchesReceipt ==
  /\ ending \in {"returned", "cancelled"} => receipt.finished
  /\ ending = "cancelled" => receipt.status = "partial" /\ receipt.stop = "interrupted"
  /\ HasReceipt /\ ~receipt.finished => receipt.status = "running"

(* Every run ends, whatever the network and the database do to it.         *)
RunEnds == <>(pc = "end")
=============================================================================
