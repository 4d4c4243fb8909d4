------------------------------ MODULE Automation ------------------------------
(***************************************************************************)
(* Scheduled and manual collector invocations over one database:           *)
(* run_scheduled() of services/automation.py behind the gates of           *)
(* cli/automation.py, and the manual commands of cli/app.py, which take    *)
(* the same lock but ask neither for unfinished receipts nor for the       *)
(* period.                                                                 *)
(*                                                                         *)
(* A run is reduced to its first and its closing commit.  The lock is the  *)
(* one CollectionLock implements: it belongs to a backend, which may       *)
(* outlive its client and still execute the commit it was sent.            *)
(***************************************************************************)
EXTENDS Integers, Sequences

CONSTANTS
  Proc,       \* invocations; each makes at most one receipt, named after it
  NoProc,     \* nobody
  Kind,       \* what an invocation collects: "refresh", "discover", "enrich"
  Scheduled,  \* the invocations that come from the scheduled workflow
  FirstDay,   \* the day on which the history begins; day 0 is a Monday
  LastDay     \* bound: the last day

ASSUME AutomationAssumption ==
  /\ NoProc \notin Proc
  /\ Kind \in [Proc -> {"refresh", "discover", "enrich"}]
  /\ Scheduled \subseteq Proc
  /\ FirstDay \in Nat /\ LastDay \in Nat /\ FirstDay <= LastDay

VARIABLES
  day,       \* what utcnow() says, to the day
  receipts,  \* the collection_runs rows in the order they were committed
  open,      \* invocations whose receipt is not finished
  holder,    \* invocation whose backend holds the collection lock
  inflight,  \* its commit on the way: "create", "close" or "none"
  entry,     \* the receipt that commit creates
  acks,      \* COLLECTOR_ACK_UNFINISHED_RUNS of each invocation
  pc         \* where each invocation stands

vars == <<day, receipts, open, holder, inflight, entry, acks, pc>>
database == <<receipts, open, holder, inflight, entry>>

Places == {"start", "launched", "preflight", "dedup", "collect",
           "creating", "running", "closing", "gone", "end"}

Receipt == [by : Proc, day : FirstDay..LastDay]
NoEntry == [by |-> NoProc, day |-> 0]

Init ==
  /\ day = FirstDay
  /\ receipts = <<>>
  /\ open = {}
  /\ holder = NoProc
  /\ inflight = "none"
  /\ entry = NoEntry
  /\ acks = [p \in Proc |-> {}]
  /\ pc = [p \in Proc |-> "start"]

Goto(p, l) == pc' = [pc EXCEPT ![p] = l]

(* period_start(): the UTC day of a refresh, the Monday of a discovery.    *)
PeriodStart(kind, d) == IF kind = "discover" THEN d - (d % 7) ELSE d

Tick ==
  /\ day < LastDay
  /\ day' = day + 1
  /\ UNCHANGED <<database, acks, pc>>

---------------------------------------------------------------------------
(* One invocation.                                                         *)

(* The gates pass, and the acknowledgement is read from the environment:   *)
(* it is as old as the operator's last look at the receipts.               *)
Launch(p) ==
  /\ pc[p] = "start"
  /\ \E reviewed \in SUBSET open :
       acks' = [acks EXCEPT ![p] = IF p \in Scheduled THEN reviewed ELSE {}]
  /\ Goto(p, "launched")
  /\ UNCHANGED <<day, database>>

TakeLock(p) ==
  /\ pc[p] = "launched"
  /\ holder = NoProc
  /\ holder' = p
  /\ Goto(p, IF p \in Scheduled THEN "preflight" ELSE "collect")
  /\ UNCHANGED <<day, receipts, open, inflight, entry, acks>>

LockHeld(p) ==
  /\ pc[p] = "launched"
  /\ holder # NoProc
  /\ Goto(p, "end")
  /\ UNCHANGED <<day, database, acks>>

(* The invocation returns or raises, and unlocks on its own backend.       *)
Leave(p) ==
  /\ holder = p
  /\ holder' = NoProc
  /\ Goto(p, "end")

(* check_collector_role() or the review of unfinished receipts blocks.     *)
Unreviewed(p) == open \ acks[p]

Blocked(p) ==
  /\ pc[p] = "preflight"
  /\ Leave(p)
  /\ UNCHANGED <<day, receipts, open, inflight, entry, acks>>

Reviewed(p) ==
  /\ pc[p] = "preflight"
  /\ holder = p
  /\ Unreviewed(p) = {}
  /\ Goto(p, "dedup")
  /\ UNCHANGED <<day, database, acks>>

(* A receipt of the kind since the start of the period, however it ended   *)
(* and whoever made it.                                                    *)
AttemptedFinished(p) ==   \* mutant: an unfinished receipt does not count
  \E i \in 1..Len(receipts) :
    /\ Kind[receipts[i].by] = Kind[p]
    /\ receipts[i].day >= PeriodStart(Kind[p], day)
    /\ receipts[i].by \notin open

Attempted(p) ==
  \E i \in 1..Len(receipts) :
    /\ Kind[receipts[i].by] = Kind[p]
    /\ receipts[i].day >= PeriodStart(Kind[p], day)

Skipped(p) ==
  /\ pc[p] = "dedup"
  /\ Attempted(p)
  /\ Leave(p)
  /\ UNCHANGED <<day, receipts, open, inflight, entry, acks>>

Due(p) ==
  /\ pc[p] = "dedup"
  /\ holder = p
  /\ ~Attempted(p)
  /\ Goto(p, "collect")
  /\ UNCHANGED <<day, database, acks>>

(* CollectionService.run() stamps started_at with a later reading of the   *)
(* clock than the one the period was checked with.                         *)
CreateForPeriod(p) ==   \* mutant: stamped with the period, not the clock
  /\ pc[p] = "collect"
  /\ holder = p
  /\ inflight' = "create"
  /\ entry' = [by |-> p, day |-> PeriodStart(Kind[p], day)]
  /\ Goto(p, "creating")
  /\ UNCHANGED <<day, receipts, open, holder, acks>>

Create(p) ==
  /\ pc[p] = "collect"
  /\ holder = p
  /\ inflight' = "create"
  /\ entry' = [by |-> p, day |-> day]
  /\ Goto(p, "creating")
  /\ UNCHANGED <<day, receipts, open, holder, acks>>

Created(p) ==
  /\ pc[p] = "creating"
  /\ holder = p
  /\ inflight = "none"
  /\ Goto(p, "running")
  /\ UNCHANGED <<day, database, acks>>

Close(p) ==
  /\ pc[p] = "running"
  /\ holder = p
  /\ inflight' = "close"
  /\ Goto(p, "closing")
  /\ UNCHANGED <<day, receipts, open, holder, entry, acks>>

Closed(p) ==
  /\ pc[p] = "closing"
  /\ inflight = "none"
  /\ Leave(p)
  /\ UNCHANGED <<day, receipts, open, inflight, entry, acks>>

(* Nothing is on its way any more, whether it took effect or not.          *)
NothingInFlight == inflight' = "none" /\ entry' = NoEntry

(* A statement fails: what was in flight is rolled back, and the           *)
(* invocation raises.                                                      *)
Fails(p) ==
  /\ pc[p] \in {"preflight", "dedup", "creating", "closing"}
  /\ NothingInFlight
  /\ Leave(p)
  /\ UNCHANGED <<day, receipts, open, acks>>

(* The client is killed, cancelled during I/O, or finds its backend gone.  *)
AbandonUnlocks(p) ==   \* mutant: the lock is free before the backend ends
  /\ pc[p] \in Places \ {"start", "launched", "gone", "end"}
  /\ Goto(p, "gone")
  /\ holder' = IF holder = p THEN NoProc ELSE holder
  /\ UNCHANGED <<day, receipts, open, inflight, entry, acks>>

Abandon(p) ==
  /\ pc[p] \in Places \ {"start", "launched", "gone", "end"}
  /\ Goto(p, "gone")
  /\ UNCHANGED <<day, database, acks>>

---------------------------------------------------------------------------
(* The server.                                                             *)

CommitCreate ==
  /\ inflight = "create"
  /\ receipts' = Append(receipts, entry)
  /\ open' = open \cup {entry.by}
  /\ NothingInFlight
  /\ UNCHANGED <<day, holder, acks, pc>>

CommitClose ==
  /\ inflight = "close"
  /\ open' = open \ {holder}
  /\ NothingInFlight
  /\ UNCHANGED <<day, receipts, holder, acks, pc>>

(* The lock goes with the backend, and so does a commit in flight.         *)
EndBackend(p) ==
  /\ holder = p
  /\ holder' = NoProc
  /\ NothingInFlight
  /\ UNCHANGED <<day, receipts, open, acks, pc>>

---------------------------------------------------------------------------
Step(p) ==
  \/ Launch(p) \/ TakeLock(p) \/ LockHeld(p) \/ Blocked(p) \/ Reviewed(p)
  \/ Skipped(p) \/ Due(p) \/ Create(p) \/ Created(p) \/ Close(p)
  \/ Closed(p) \/ Fails(p) \/ Abandon(p) \/ EndBackend(p)

Next == Tick \/ CommitCreate \/ CommitClose \/ \E p \in Proc : Step(p)

Spec == Init /\ [][Next]_vars

---------------------------------------------------------------------------
(* Properties.                                                             *)

TypeOK ==
  /\ day \in FirstDay..LastDay
  /\ receipts \in Seq(Receipt)
  /\ open \subseteq Proc
  /\ holder \in Proc \cup {NoProc}
  /\ inflight \in {"none", "create", "close"}
  /\ entry \in Receipt \cup {NoEntry}
  /\ acks \in [Proc -> SUBSET Proc]
  /\ pc \in [Proc -> Places]

Period(i) == PeriodStart(Kind[receipts[i].by], receipts[i].day)

(* A scheduled run is the first of its kind in its period: it never        *)
(* repeats what another run attempted there, crashed, lost and manual runs *)
(* included, and although the period is checked on another reading of the  *)
(* clock than the receipt is stamped with.                                 *)
NoAutomaticRetry ==
  \A i, j \in 1..Len(receipts) :
    /\ i < j
    /\ receipts[j].by \in Scheduled
    /\ Kind[receipts[i].by] = Kind[receipts[j].by]
    => Period(i) < Period(j)

(* While a scheduled run goes ahead, every other unfinished receipt is one *)
(* its operator has acknowledged: what it read before is still so.         *)
RunsOnReviewedState ==
  \A p \in Scheduled :
    /\ holder = p
    /\ pc[p] \in {"dedup", "collect", "creating", "running", "closing"}
    => open \ {p} \subseteq acks[p]
=============================================================================
