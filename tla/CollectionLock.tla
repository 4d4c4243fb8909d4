--------------------------- MODULE CollectionLock ---------------------------
(***************************************************************************)
(* The database-wide collection lock of storage/collection.py and the      *)
(* bounded libpq I/O of storage/deadlines.py it runs on.                   *)
(*                                                                         *)
(* Every collector invocation opens ONE connection, hence one PostgreSQL   *)
(* backend, takes the session-level advisory lock on it, and runs all of   *)
(* its transactions on that backend.  What the client knows (lost, socket, *)
(* acked) and what the server did (backend, holder, applied) are separate: *)
(* a backend can die under the client, and a client that abandons its      *)
(* socket leaves behind a backend that still holds the lock and may still  *)
(* execute a COMMIT it has already received.                               *)
(***************************************************************************)
EXTENDS Naturals, Sequences

CONSTANTS
  Proc,        \* collector invocations, scheduled and manual
  NoProc,      \* nobody
  MaxCommits   \* bound: transactions one invocation completes

ASSUME LockAssumption == NoProc \notin Proc /\ MaxCommits \in Nat

VARIABLES
  \* the server
  backend,   \* the backend of each invocation: "none", "live" or "gone"
  holder,    \* invocation whose backend holds advisory lock 6742565
  pending,   \* invocations whose COMMIT was received but not executed
  applied,   \* number of transactions the server committed for each
  log,       \* the committing invocation of every transaction, in order
  \* the clients
  pc,        \* where each invocation stands
  socket,    \* "none", "open", or "closed" (abandoned or invalidated)
  lost,      \* the flag of locked_collection_session
  acked,     \* number of COMMITs whose success the client has seen
  outcome    \* the latest ownership error, in the end the way it ended

server == <<backend, holder, pending, applied, log>>
client == <<pc, socket, lost, acked, outcome>>
vars == <<backend, holder, pending, applied, log,
          pc, socket, lost, acked, outcome>>

Locations == {"start", "connected", "granted", "work", "check", "send",
              "commit", "unlock", "end"}

(* "refused": another owner; "certain" and "uncertain": an ownership error *)
(* without and with database_outcome_uncertain; "crashed": no report.      *)
Outcomes == {"none", "finished", "refused", "certain", "uncertain", "crashed"}

Init ==
  /\ backend = [p \in Proc |-> "none"]
  /\ holder = NoProc
  /\ pending = {}
  /\ applied = [p \in Proc |-> 0]
  /\ log = <<>>
  /\ pc = [p \in Proc |-> "start"]
  /\ socket = [p \in Proc |-> "none"]
  /\ lost = [p \in Proc |-> FALSE]
  /\ acked = [p \in Proc |-> 0]
  /\ outcome = [p \in Proc |-> "none"]

Live(p) == socket[p] = "open" /\ backend[p] = "live"

Goto(p, l) == pc' = [pc EXCEPT ![p] = l]

(* An ownership error is raised inside the body, which may let it go, and  *)
(* locked_collection_session makes no assumption that it does.             *)
Raise(p, o) ==
  /\ pc' = [pc EXCEPT ![p] = "work"]
  /\ outcome' = [outcome EXCEPT ![p] = o]
  /\ UNCHANGED acked

(* Leave locked_collection_session with outcome o: the connection closes,  *)
(* and the engine is disposed, whether or not an unlock was sent.          *)
LeaveOpen(p, o) ==   \* mutant: the connection is kept
  /\ pc' = [pc EXCEPT ![p] = "end"]
  /\ UNCHANGED <<socket, acked>>
  /\ outcome' = [outcome EXCEPT ![p] = o]

Leave(p, o) ==
  /\ pc' = [pc EXCEPT ![p] = "end"]
  /\ socket' = [socket EXCEPT ![p] = "closed"]
  /\ outcome' = [outcome EXCEPT ![p] = o]
  /\ UNCHANGED acked

CloseSocket(p) == socket' = [socket EXCEPT ![p] = "closed"]

Lose(p) == lost' = [lost EXCEPT ![p] = TRUE]

---------------------------------------------------------------------------
(* Acquisition.                                                            *)

Connect(p) ==
  /\ pc[p] = "start"
  /\ backend' = [backend EXCEPT ![p] = "live"]
  /\ socket' = [socket EXCEPT ![p] = "open"]
  /\ Goto(p, "connected")
  /\ UNCHANGED <<holder, pending, applied, log, lost, acked, outcome>>

(* pg_try_advisory_lock never waits.                                       *)
TryLock(p) ==
  /\ pc[p] = "connected"
  /\ Live(p)
  /\ holder = NoProc
  /\ holder' = p
  /\ Goto(p, "granted")
  /\ UNCHANGED <<backend, pending, applied, log, socket, lost, acked, outcome>>

Refused(p) ==
  /\ pc[p] = "connected"
  /\ Live(p)
  /\ holder # NoProc
  /\ Leave(p, "refused")
  /\ UNCHANGED <<server, lost>>

(* The acquisition transaction ends; from here on the listeners are on.    *)
StartSession(p) ==
  /\ pc[p] = "granted"
  /\ Live(p)
  /\ Goto(p, "work")
  /\ UNCHANGED <<server, socket, lost, acked, outcome>>

---------------------------------------------------------------------------
(* One transaction of the session: statements, then commit().              *)

(* Ownership is already known to be gone: require_owner refuses a commit,  *)
(* and refuse_reconnect any statement that would need a new backend.       *)
KnownLost(p) == lost[p] \/ socket[p] # "open"

BeginCommitUnchecked(p) ==   \* mutant: no before_commit check
  /\ pc[p] = "work"
  /\ ~KnownLost(p)
  /\ acked[p] < MaxCommits
  /\ Goto(p, "send")
  /\ UNCHANGED <<server, socket, lost, acked, outcome>>

BeginCommit(p) ==
  /\ pc[p] = "work"
  /\ ~KnownLost(p)
  /\ acked[p] < MaxCommits
  /\ Goto(p, "check")
  /\ UNCHANGED <<server, socket, lost, acked, outcome>>

Refuse(p) ==
  /\ pc[p] = "work"
  /\ KnownLost(p)
  /\ Lose(p)
  /\ Raise(p, "uncertain")
  /\ UNCHANGED <<server, socket>>

(* The pg_locks query runs on the session's own backend.                   *)
CheckAnyOwner(p) ==   \* mutant: the query does not look at whose lock it is
  /\ pc[p] = "check"
  /\ Live(p)
  /\ Goto(p, "send")
  /\ UNCHANGED <<server, socket, lost, acked, outcome>>

CheckOwner(p) ==
  /\ pc[p] = "check"
  /\ Live(p)
  /\ holder = p
  /\ Goto(p, "send")
  /\ UNCHANGED <<server, socket, lost, acked, outcome>>

CheckFails(p) ==
  /\ pc[p] = "check"
  /\ Live(p)
  /\ holder # p
  /\ Lose(p)
  /\ Raise(p, "certain")
  /\ UNCHANGED <<server, socket>>

ResendCommit(p) ==   \* mutant: an unanswered COMMIT is sent again
  /\ pc[p] \in {"send", "commit"}
  /\ pending' = IF Live(p) THEN pending \cup {p} ELSE pending
  /\ Goto(p, "commit")
  /\ UNCHANGED <<backend, holder, applied, log, socket, lost, acked, outcome>>

SendCommit(p) ==
  /\ pc[p] = "send"
  /\ pending' = IF Live(p) THEN pending \cup {p} ELSE pending
  /\ Goto(p, "commit")
  /\ UNCHANGED <<backend, holder, applied, log, socket, lost, acked, outcome>>

(* The reply is in the socket even if the backend has died since.          *)
AckCommit(p) ==
  /\ pc[p] = "commit"
  /\ socket[p] = "open"
  /\ applied[p] = acked[p] + 1
  /\ acked' = [acked EXCEPT ![p] = @ + 1]
  /\ Goto(p, "work")
  /\ UNCHANGED <<server, socket, lost, outcome>>

---------------------------------------------------------------------------
(* The end of the session: the body returns or raises, the session rolls   *)
(* back what is staged, and the lock is released on the same backend.      *)

CloseSession(p) ==
  /\ pc[p] = "work"
  /\ Goto(p, "unlock")
  /\ UNCHANGED <<server, socket, lost, acked, outcome>>

Unlock(p) ==
  /\ pc[p] = "unlock"
  /\ ~KnownLost(p)
  /\ Live(p)
  /\ holder' = IF holder = p THEN NoProc ELSE holder
  /\ Leave(p, IF holder = p THEN "finished" ELSE "certain")
  /\ UNCHANGED <<backend, pending, applied, log, lost>>

(* Never reconnect for cleanup: the body's own ending stands.              *)
SkipUnlock(p) ==
  /\ pc[p] = "unlock"
  /\ KnownLost(p)
  /\ Leave(p, IF outcome[p] = "none" THEN "finished" ELSE outcome[p])
  /\ UNCHANGED <<server, lost>>

---------------------------------------------------------------------------
(* Loss of the connection, as the client meets it.                         *)

InBody(p) == pc[p] \in {"work", "check", "send", "commit"}
Outside(p) == pc[p] \in {"connected", "granted", "unlock"}

(* The I/O deadline or a cancellation (SIGTERM, max_seconds) during I/O    *)
(* closes the socket locally and proves nothing about the server.  In the  *)
(* body the listeners turn it into an ownership error; around it the       *)
(* driver's error, which outcome_uncertain() recognises, ends the          *)
(* invocation.  The flag is set only while the listeners are on.           *)
AbandonAsCertain(p) ==   \* mutant: the interrupted COMMIT counts as undone
  /\ socket[p] = "open"
  /\ CloseSocket(p)
  /\ \/ InBody(p) /\ Lose(p) /\ Raise(p, "certain")
     \/ Outside(p) /\ Leave(p, "uncertain") /\ UNCHANGED lost
  /\ UNCHANGED server

AbandonButWait(p) ==   \* mutant: the flag is set, the answer still awaited
  /\ socket[p] = "open"
  /\ InBody(p)
  /\ Lose(p)
  /\ outcome' = [outcome EXCEPT ![p] = "uncertain"]
  /\ UNCHANGED <<server, pc, socket, acked>>

Abandon(p) ==
  /\ socket[p] = "open"
  /\ CloseSocket(p)
  /\ \/ InBody(p) /\ Lose(p) /\ Raise(p, "uncertain")
     \/ Outside(p) /\ Leave(p, "uncertain")
        /\ lost' = [lost EXCEPT ![p] = @ \/ pc[p] = "unlock"]
  /\ UNCHANGED server

(* handle_disconnect: no answer comes because the backend is gone, and the *)
(* connection is invalidated just the same.                                *)
Disconnected(p) == backend[p] = "gone" /\ Abandon(p)

(* Connection.invalidate() between two statements; Refuse follows.         *)
Invalidate(p) ==
  /\ pc[p] = "work"
  /\ socket[p] = "open"
  /\ socket' = [socket EXCEPT ![p] = "closed"]
  /\ UNCHANGED <<server, pc, lost, acked, outcome>>

(* The process is killed: no cleanup at all.                               *)
Crash(p) ==
  /\ pc[p] \in Locations \ {"start", "end"}
  /\ Leave(p, "crashed")
  /\ UNCHANGED <<server, lost>>

---------------------------------------------------------------------------
(* The server.                                                             *)

ExecCommit(p) ==
  /\ p \in pending
  /\ backend[p] = "live"
  /\ pending' = pending \ {p}
  /\ applied' = [applied EXCEPT ![p] = @ + 1]
  /\ log' = Append(log, p)
  /\ UNCHANGED <<backend, holder, client>>

(* A backend that ends rolls back and drops its session-level lock.        *)
EndBackend(p) ==
  /\ backend[p] = "live"
  /\ backend' = [backend EXCEPT ![p] = "gone"]
  /\ holder' = IF holder = p THEN NoProc ELSE holder
  /\ pending' = pending \ {p}
  /\ UNCHANGED <<applied, log, client>>

TerminateBackend(p) == socket[p] = "open" /\ EndBackend(p)
ReapBackend(p) == socket[p] = "closed" /\ EndBackend(p)

(* The session itself gives the lock up, for instance by an unlock it was  *)
(* not meant to issue; only the session that holds it can.                 *)
LoseLock(p) ==
  /\ pc[p] = "work"
  /\ Live(p)
  /\ holder = p
  /\ holder' = NoProc
  /\ UNCHANGED <<backend, pending, applied, log, client>>

---------------------------------------------------------------------------
ClientStep(p) ==
  \/ TryLock(p) \/ Refused(p) \/ StartSession(p)
  \/ CheckOwner(p) \/ CheckFails(p) \/ SendCommit(p) \/ AckCommit(p)
  \/ Unlock(p) \/ SkipUnlock(p)
  \/ Disconnected(p)

BodyStep(p) ==
  \/ BeginCommit(p) \/ Refuse(p) \/ CloseSession(p)

Fault(p) ==
  \/ Abandon(p) \/ Invalidate(p) \/ Crash(p)
  \/ TerminateBackend(p) \/ LoseLock(p)

Step(p) ==
  \/ Connect(p) \/ ClientStep(p) \/ BodyStep(p) \/ Fault(p)
  \/ ExecCommit(p) \/ ReapBackend(p)

Next == \E p \in Proc : Step(p)

(* asyncio and the deadlines keep a started invocation going, a run's body *)
(* ends (max_seconds), and the server works off what it received and ends  *)
(* the backend of a closed socket.  Nothing makes a fault happen.          *)
Fairness ==
  \A p \in Proc :
    /\ WF_vars(ClientStep(p))
    /\ WF_vars(BodyStep(p))
    /\ WF_vars(ExecCommit(p))
    /\ WF_vars(ReapBackend(p))

Spec == Init /\ [][Next]_vars

---------------------------------------------------------------------------
(* Properties.                                                             *)

TypeOK ==
  /\ backend \in [Proc -> {"none", "live", "gone"}]
  /\ holder \in Proc \cup {NoProc}
  /\ pending \subseteq Proc
  /\ applied \in [Proc -> 0..MaxCommits]
  /\ log \in Seq(Proc)
  /\ pc \in [Proc -> Locations]
  /\ socket \in [Proc -> {"none", "open", "closed"}]
  /\ lost \in [Proc -> BOOLEAN]
  /\ acked \in [Proc -> 0..MaxCommits]
  /\ outcome \in [Proc -> Outcomes]

(* The transactions of one collector are never separated by another's:     *)
(* before_commit checks the lock and then commits in two round trips, yet  *)
(* no other owner can write in between.                                    *)
NoInterleavedWriters ==
  \A i, j, k \in 1..Len(log) :
    i < j /\ j < k /\ log[i] = log[k] => log[j] = log[i]

(* An ending that is not flagged uncertain is the truth: what the server   *)
(* committed is exactly what the client saw succeed, and nothing of this   *)
(* invocation is still on its way.                                         *)
TruthfulOutcome ==
  \A p \in Proc :
    outcome[p] \in {"finished", "refused", "certain"} =>
      applied[p] = acked[p] /\ p \notin pending

(* Lost ownership is irreversible: once the flag is up it stays up, and no *)
(* COMMIT is sent and no success is seen any more.                         *)
LostStays ==
  \A p \in Proc : lost[p] => /\ lost'[p]
                             /\ p \in pending' => p \in pending
                             /\ acked'[p] = acked[p]

LostIsFinal == [][LostStays]_vars

(* However an invocation ends, killed or abandoned ones included, the lock *)
(* does not stay with it.                                                  *)
LockIsFreed == \A p \in Proc : holder = p ~> holder # p

(* Invocations past their one attempt at the lock that do not hold it.     *)
Retired ==
  {p \in Proc : holder # p /\ pc[p] \notin {"start", "connected"}}

(* The lock is a fence: only its owner extends the history.                *)
Fence == INSTANCE FencedLog
           WITH Writer <- Proc, NoWriter <- NoProc,
                owner <- holder, retired <- Retired, history <- log
FenceSpec == Fence!Spec
=============================================================================
