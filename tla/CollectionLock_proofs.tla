------------------------ MODULE CollectionLock_proofs ------------------------
(***************************************************************************)
(* The collection lock is a fence for every set of invocations and every   *)
(* bound on their transactions; a database session ends cleanly whatever   *)
(* its deadlines; workspace entries are versioned entries for any number   *)
(* of browsers; and all of this holds of the writers of one database       *)
(* together.                                                               *)
(***************************************************************************)
EXTENDS Writers, TLAPS

(* What the client saw is what the server did.                             *)
Settled(p) == applied[p] = acked[p] /\ p \notin pending

(* The server's side: the lock, a COMMIT on its way and a committed        *)
(* transaction all belong to an invocation that was granted the lock.      *)
ServerInv(p) ==
  /\ holder = p => backend[p] = "live" /\ pc[p] \notin {"start", "connected"}
  /\ p \in pending => holder = p /\ backend[p] = "live" /\ applied[p] = acked[p]
  /\ p \in pending => pc[p] = "commit" \/ socket[p] = "closed"
  /\ pc[p] \in {"start", "connected"} =>
       \A i \in 1..Len(log) : log[i] # p

(* The client's side: where it is tells what it may still believe.         *)
ClientInv(p) ==
  /\ pc[p] \in {"check", "send", "commit"} =>
       socket[p] = "open" /\ ~lost[p]
  /\ pc[p] = "send" /\ backend[p] = "live" => holder = p
  /\ pc[p] = "end" => socket[p] = "closed"
  /\ lost[p] => pc[p] \in {"work", "unlock", "end"}
  /\ outcome[p] # "none" => lost[p] \/ pc[p] = "end"
  /\ ~Settled(p) => pc[p] = "commit" \/ outcome[p] \in {"uncertain", "crashed"}
  /\ applied[p] \in {acked[p], acked[p] + 1}
  /\ pc[p] \in {"check", "send", "commit"} \/ p \in pending =>
       acked[p] < MaxCommits

(* The transactions of the present owner are the last ones.                *)
OwnerIsLast ==
  \A i, j \in 1..Len(log) : i < j /\ log[i] = holder => log[j] = holder

IInv ==
  /\ TypeOK
  /\ \A p \in Proc : ServerInv(p) /\ ClientInv(p)
  /\ OwnerIsLast
  /\ NoInterleavedWriters

---------------------------------------------------------------------------
(* Every step is one of the actions below: a disconnection has the effect  *)
(* of an abandoned socket, and a backend ends one way however it comes.    *)
Basic(p) ==
  \/ Connect(p) \/ TryLock(p) \/ Refused(p) \/ StartSession(p)
  \/ BeginCommit(p) \/ Refuse(p) \/ CheckOwner(p) \/ CheckFails(p)
  \/ SendCommit(p) \/ AckCommit(p) \/ CloseSession(p) \/ Unlock(p)
  \/ SkipUnlock(p) \/ Abandon(p) \/ Invalidate(p) \/ Crash(p)
  \/ ExecCommit(p) \/ EndBackend(p) \/ LoseLock(p)

LEMMA NextIsBasic == Next => \E p \in Proc : Basic(p)
  BY DEF Next, Basic, Step, ClientStep, BodyStep, Fault, Disconnected, TerminateBackend, ReapBackend

(* Every variable keeps to its type, a COMMIT executed twice included.     *)
LEMMA TypeStep == ASSUME IInv, [Next]_vars PROVE TypeOK'
<1>. USE LockAssumption DEF IInv, TypeOK, ServerInv, ClientInv, Locations, Outcomes
<1>1. ASSUME NEW p \in Proc, Basic(p) PROVE TypeOK'
  <2>1. CASE Connect(p)
    BY <2>1 DEF Connect, Goto, server, client
  <2>2. CASE TryLock(p)
    BY <2>2 DEF TryLock, Live, Goto, server, client
  <2>3. CASE Refused(p)
    BY <2>3 DEF Refused, Live, Leave, server, client
  <2>4. CASE StartSession(p)
    BY <2>4 DEF StartSession, Live, Goto, server, client
  <2>5. CASE BeginCommit(p)
    BY <2>5 DEF BeginCommit, KnownLost, Goto, server, client
  <2>6. CASE Refuse(p)
    BY <2>6 DEF Refuse, KnownLost, Lose, Raise, server, client
  <2>7. CASE CheckOwner(p)
    BY <2>7 DEF CheckOwner, Live, Goto, server, client
  <2>8. CASE CheckFails(p)
    BY <2>8 DEF CheckFails, Live, Lose, Raise, server, client
  <2>9. CASE SendCommit(p)
    BY <2>9 DEF SendCommit, Live, Goto, server, client
  <2>10. CASE AckCommit(p)
    BY <2>10 DEF AckCommit, Goto, server, client
  <2>11. CASE CloseSession(p)
    BY <2>11 DEF CloseSession, Goto, server, client
  <2>12. CASE Unlock(p)
    BY <2>12 DEF Unlock, KnownLost, Live, Leave, server, client
  <2>13. CASE SkipUnlock(p)
    BY <2>13 DEF SkipUnlock, KnownLost, Leave, server, client
  <2>14. CASE Abandon(p)
    BY <2>14 DEF Abandon, CloseSocket, InBody, Outside, Lose, Raise, Leave, server, client
  <2>15. CASE Invalidate(p)
    BY <2>15 DEF Invalidate, server, client
  <2>16. CASE Crash(p)
    BY <2>16 DEF Crash, Leave, Locations, server, client
  <2>17. CASE ExecCommit(p)
    BY <2>17 DEF ExecCommit, server, client
  <2>18. CASE EndBackend(p)
    BY <2>18 DEF EndBackend, server, client
  <2>19. CASE LoseLock(p)
    BY <2>19 DEF LoseLock, Live, server, client
  <2>. QED BY <1>1, <2>1, <2>2, <2>3, <2>4, <2>5, <2>6, <2>7, <2>8, <2>9, <2>10, <2>11, <2>12, <2>13, <2>14, <2>15, <2>16, <2>17, <2>18, <2>19 DEF Basic
<1>2. CASE UNCHANGED vars
  BY <1>2 DEF vars
<1>. QED BY <1>1, <1>2, NextIsBasic

(* The log only grows, and only by a transaction of the owner.             *)
LEMMA LogStep ==
  ASSUME IInv, NEW p \in Proc, Basic(p)
  PROVE  \/ log' = log
         \/ holder = p /\ log' = Append(log, p)
  BY DEF IInv, ServerInv, Basic, Connect, TryLock, Refused, StartSession, BeginCommit, Refuse, CheckOwner, CheckFails, SendCommit, AckCommit, CloseSession, Unlock, SkipUnlock, Abandon, Invalidate, Crash, ExecCommit, EndBackend, LoseLock, server, client

(* Lock, COMMITs on their way and transactions stay with granted ones.     *)
LEMMA ServerStep ==
  ASSUME IInv, NEW p \in Proc, Basic(p), NEW q \in Proc
  PROVE  ServerInv(q)'
<1>. USE LockAssumption DEF TypeOK, IInv, ServerInv, ClientInv
<1>1. CASE Connect(p)
  BY <1>1 DEF Connect, Goto, server, client, Settled
<1>2. CASE TryLock(p)
  BY <1>2 DEF TryLock, Live, Goto, server, client, Settled
<1>3. CASE Refused(p)
  BY <1>3 DEF Refused, Live, Leave, server, client, Settled
<1>4. CASE StartSession(p)
  BY <1>4 DEF StartSession, Live, Goto, server, client, Settled
<1>5. CASE BeginCommit(p)
  BY <1>5 DEF BeginCommit, KnownLost, Goto, server, client, Settled
<1>6. CASE Refuse(p)
  BY <1>6 DEF Refuse, KnownLost, Lose, Raise, server, client, Settled
<1>7. CASE CheckOwner(p)
  BY <1>7 DEF CheckOwner, Live, Goto, server, client, Settled
<1>8. CASE CheckFails(p)
  BY <1>8 DEF CheckFails, Live, Lose, Raise, server, client, Settled
<1>9. CASE SendCommit(p)
  <2>1. UNCHANGED <<backend, holder, applied, log, socket, acked>>
    BY <1>9 DEF SendCommit
  <2>2. pc' = [pc EXCEPT ![p] = "commit"] /\ pc[p] = "send"
        /\ pending' \in {pending, pending \cup {p}}
        /\ (p \in pending' => holder = p /\ backend[p] = "live" /\ applied[p] = acked[p])
    BY <1>9 DEF SendCommit, Live, Goto, Settled
  <2>3. CASE q = p
    BY <2>1, <2>2, <2>3
  <2>4. CASE q # p
    BY <2>1, <2>2, <2>4
  <2>. QED BY <2>3, <2>4
<1>10. CASE AckCommit(p)
  BY <1>10 DEF AckCommit, Goto, server, client, Settled
<1>11. CASE CloseSession(p)
  BY <1>11 DEF CloseSession, Goto, server, client, Settled
<1>12. CASE Unlock(p)
  BY <1>12 DEF Unlock, KnownLost, Live, Leave, server, client, Settled
<1>13. CASE SkipUnlock(p)
  BY <1>13 DEF SkipUnlock, KnownLost, Leave, server, client, Settled
<1>14. CASE Abandon(p)
  <2>1. UNCHANGED <<backend, holder, pending, applied, log, acked>>
    BY <1>14 DEF Abandon, Raise, Leave, server
  <2>2. socket' = [socket EXCEPT ![p] = "closed"]
        /\ \E l \in {"work", "end"} : pc' = [pc EXCEPT ![p] = l]
    BY <1>14 DEF Abandon, CloseSocket, Raise, Leave
  <2>3. holder = p => pc[p] \notin {"start", "connected"}
    OBVIOUS
  <2>4. pc[p] \in {"start", "connected"} \/ pc'[p] \notin {"start", "connected"}
    BY <2>2
  <2>5. CASE q = p
    BY <2>1, <2>2, <2>3, <2>5
  <2>6. CASE q # p
    BY <2>1, <2>2, <2>6
  <2>. QED BY <2>5, <2>6
<1>15. CASE Invalidate(p)
  BY <1>15 DEF Invalidate, server, client, Settled
<1>16. CASE Crash(p)
  BY <1>16 DEF Crash, Leave, Locations, server, client, Settled
<1>17. CASE ExecCommit(p)
  <2>1. UNCHANGED <<backend, holder, pc, socket, acked>>
    BY <1>17 DEF ExecCommit, client
  <2>2. holder = p /\ pc[p] \notin {"start", "connected"} /\ pending' = pending \ {p}
    BY <1>17 DEF ExecCommit
  <2>3. q # p => applied'[q] = applied[q]
    BY <1>17 DEF ExecCommit
  <2>4. pc[q] \in {"start", "connected"} => \A i \in 1..Len(log') : log'[i] # q
    <3>1. log \in Seq(Proc) /\ log' = Append(log, p)
      BY <1>17 DEF ExecCommit
    <3>2. \A i \in 1..Len(log') : (i \in 1..Len(log) /\ log'[i] = log[i]) \/ log'[i] = p
      BY <3>1, SMTT(20)
    <3>3. CASE q = p
      BY <2>1, <2>2, <3>3
    <3>4. CASE q # p
      <4>1. pc[q] \in {"start", "connected"} => \A i \in 1..Len(log) : log[i] # q
        OBVIOUS
      <4>. QED BY <2>1, <3>2, <3>4, <4>1
    <3>. QED BY <3>3, <3>4
  <2>. QED BY <2>1, <2>2, <2>3, <2>4
<1>18. CASE EndBackend(p)
  BY <1>18 DEF EndBackend, server, client, Settled
<1>19. CASE LoseLock(p)
  BY <1>19 DEF LoseLock, Live, server, client, Settled
<1>. QED BY <1>1, <1>2, <1>3, <1>4, <1>5, <1>6, <1>7, <1>8, <1>9, <1>10, <1>11, <1>12, <1>13, <1>14, <1>15, <1>16, <1>17, <1>18, <1>19 DEF Basic

(* What a client believes of the server stays true, place by place.        *)
LEMMA ClientInvStep ==
  ASSUME IInv, NEW p \in Proc, Basic(p), NEW q \in Proc
  PROVE  ClientInv(q)'
<1>. USE LockAssumption DEF TypeOK, IInv, ServerInv, ClientInv
<1>1. CASE Connect(p)
  BY <1>1 DEF Connect, Goto, server, client, Settled
<1>2. CASE TryLock(p)
  BY <1>2 DEF TryLock, Live, Goto, server, client, Settled
<1>3. CASE Refused(p)
  BY <1>3 DEF Refused, Live, Leave, server, client, Settled
<1>4. CASE StartSession(p)
  BY <1>4 DEF StartSession, Live, Goto, server, client, Settled
<1>5. CASE BeginCommit(p)
  BY <1>5 DEF BeginCommit, KnownLost, Goto, server, client, Settled
<1>6. CASE Refuse(p)
  BY <1>6 DEF Refuse, KnownLost, Lose, Raise, server, client, Settled
<1>7. CASE CheckOwner(p)
  BY <1>7 DEF CheckOwner, Live, Goto, server, client, Settled
<1>8. CASE CheckFails(p)
  BY <1>8 DEF CheckFails, Live, Lose, Raise, server, client, Settled
<1>9. CASE SendCommit(p)
  BY <1>9 DEF SendCommit, Live, Goto, server, client, Settled
<1>10. CASE AckCommit(p)
  BY <1>10 DEF AckCommit, Goto, server, client, Settled
<1>11. CASE CloseSession(p)
  BY <1>11 DEF CloseSession, Goto, server, client, Settled
<1>12. CASE Unlock(p)
  BY <1>12 DEF Unlock, KnownLost, Live, Leave, server, client, Settled
<1>13. CASE SkipUnlock(p)
  BY <1>13 DEF SkipUnlock, KnownLost, Leave, server, client, Settled
<1>14. CASE Abandon(p)
  BY <1>14 DEF Abandon, CloseSocket, InBody, Outside, Lose, Raise, Leave, server, client, Settled
<1>15. CASE Invalidate(p)
  BY <1>15 DEF Invalidate, server, client, Settled
<1>16. CASE Crash(p)
  BY <1>16 DEF Crash, Leave, Locations, server, client, Settled
<1>17. CASE ExecCommit(p)
  BY <1>17 DEF ExecCommit, server, client, Settled
<1>18. CASE EndBackend(p)
  BY <1>18 DEF EndBackend, server, client, Settled
<1>19. CASE LoseLock(p)
  BY <1>19 DEF LoseLock, Live, server, client, Settled
<1>. QED BY <1>1, <1>2, <1>3, <1>4, <1>5, <1>6, <1>7, <1>8, <1>9, <1>10, <1>11, <1>12, <1>13, <1>14, <1>15, <1>16, <1>17, <1>18, <1>19 DEF Basic

(* An owner's transactions are contiguous: a new owner has none yet, and   *)
(* what the owner appends comes after transactions of its own.             *)
LEMMA HistoryStep ==
  ASSUME IInv, NEW p \in Proc, Basic(p)
  PROVE  OwnerIsLast' /\ NoInterleavedWriters'
<1>. /\ OwnerIsLast /\ NoInterleavedWriters
     /\ log \in Seq(Proc) /\ holder \in Proc \cup {NoProc}
  BY DEF IInv, TypeOK
<1>3. \A q \in Proc : pc[q] \in {"start", "connected"} =>
        \A i \in 1..Len(log) : log[i] # q
  BY DEF IInv, ServerInv
<1>4. \A i \in 1..Len(log) : log[i] # NoProc
  BY LockAssumption
<1>1. CASE holder = p /\ log' = Append(log, p)
  <2>1. holder' = p
    BY <1>1, LogStep DEF Basic, Connect, TryLock, Refused, StartSession,
       BeginCommit, Refuse, CheckOwner, CheckFails, SendCommit, AckCommit,
       CloseSession, Unlock, SkipUnlock, Abandon, Invalidate, Crash,
       ExecCommit, EndBackend, LoseLock, server, client
  <2>. DEFINE n == Len(log)
              m == Len(log')
  <2>2. n \in Nat /\ m = n + 1
    BY <1>1
  <2>3. log'[n + 1] = p /\ \A i \in 1..n : log'[i] = log[i]
    BY <1>1
  <2>. HIDE DEF n, m
  <2>4. \A i, j \in 1..n : i < j /\ log[i] = p => log[j] = p
    BY <1>1 DEF OwnerIsLast, n
  <2>5. \A i, j, k \in 1..n :
          i < j /\ j < k /\ log[i] = log[k] => log[j] = log[i]
    BY DEF NoInterleavedWriters, n
  <2>6. \A i, j \in 1..m : i < j /\ log'[i] = p => log'[j] = p
    BY <2>2, <2>3, <2>4
  <2>7. \A i, j, k \in 1..m :
          i < j /\ j < k /\ log'[i] = log'[k] => log'[j] = log'[i]
    BY <2>2, <2>3, <2>4, <2>5
  <2>. QED BY <2>1, <2>6, <2>7 DEF OwnerIsLast, NoInterleavedWriters, m
<1>2. CASE log' = log
  <2>1. CASE holder' \in {holder, NoProc}
    BY <1>2, <1>4, <2>1 DEF OwnerIsLast, NoInterleavedWriters
  <2>2. CASE TryLock(p)
    BY <1>2, <1>3, <2>2 DEF TryLock, OwnerIsLast, NoInterleavedWriters
  <2>3. holder' \in {holder, NoProc} \/ TryLock(p)
    BY DEF Basic, Connect, Refused, StartSession, BeginCommit, Refuse,
       CheckOwner, CheckFails, SendCommit, AckCommit, CloseSession, Unlock,
       SkipUnlock, Abandon, Invalidate, Crash, ExecCommit, EndBackend,
       LoseLock, server, client
  <2>. QED BY <2>1, <2>2, <2>3
<1>. QED BY <1>1, <1>2, LogStep

(* The strengthened invariant is inductive.                                *)
LEMMA Inductive == IInv /\ [Next]_vars => IInv'
<1>. SUFFICES ASSUME IInv, [Next]_vars PROVE IInv'
  OBVIOUS
<1>1. TypeOK'
  BY TypeStep DEF IInv
<1>2. ASSUME NEW p \in Proc, Basic(p) PROVE IInv'
  BY <1>1, <1>2, ServerStep, ClientInvStep, HistoryStep DEF IInv
<1>3. CASE UNCHANGED vars
  BY <1>3 DEF IInv, TypeOK, ServerInv, ClientInv, Settled, OwnerIsLast,
     NoInterleavedWriters, vars
<1>. QED BY <1>2, <1>3, NextIsBasic

(* Before anything happens all of it holds.                                *)
LEMMA Initially == Init => IInv
  BY LockAssumption DEF Init, IInv, TypeOK, ServerInv, ClientInv, Settled,
     OwnerIsLast, NoInterleavedWriters, Locations, Outcomes

(* The inductive invariant holds in every reachable state.                 *)
THEOREM Invariance == Spec => []IInv
  BY Initially, Inductive, PTL DEF Spec

---------------------------------------------------------------------------
(* Every variable keeps to its type.                                       *)
THEOREM TypeCorrect == Spec => []TypeOK
  BY Invariance, PTL DEF IInv

(* Two collectors never interleave their transactions, although ownership  *)
(* is checked one round trip before the COMMIT (before_commit).            *)
THEOREM Fencing == Spec => []NoInterleavedWriters
  BY Invariance, PTL DEF IInv

(* An ending without database_outcome_uncertain tells the truth about the  *)
(* database.                                                               *)
THEOREM Truthful == Spec => []TruthfulOutcome
<1>1. IInv => TruthfulOutcome
  BY DEF IInv, ClientInv, Settled, TruthfulOutcome, TypeOK
<1>. QED BY <1>1, Invariance, PTL

(* Ownership, once lost, is lost for good: no later COMMIT, no later       *)
(* success.                                                                *)
THEOREM Irreversible == Spec => LostIsFinal
<1>1. ASSUME IInv, NEW p \in Proc, Basic(p), NEW q \in Proc, lost[q]
      PROVE  /\ lost'[q]
             /\ q \in pending' => q \in pending
             /\ acked'[q] = acked[q]
  <2>. USE <1>1 DEF IInv, TypeOK, ClientInv
  <2>1. CASE p # q
    BY <2>1, <1>1 DEF Basic, Connect, TryLock, Refused, StartSession,
       BeginCommit, Refuse, CheckOwner, CheckFails, SendCommit, AckCommit,
       CloseSession, Unlock, SkipUnlock, Abandon, Invalidate, Crash,
       ExecCommit, EndBackend, LoseLock, Goto, Raise, Leave,
       CloseSocket, Lose, server, client
  <2>2. CASE p = q /\ lost[p]
    <3>1. pc[p] \in {"work", "unlock", "end"}
      BY <2>2
    <3>2. pending' \subseteq pending /\ acked' = acked
      BY <2>2, <3>1 DEF Basic, Connect, TryLock, Refused, StartSession,
         BeginCommit, Refuse, CheckOwner, CheckFails, SendCommit, AckCommit,
         CloseSession, Unlock, SkipUnlock, Abandon, Invalidate, Crash,
         ExecCommit, EndBackend, LoseLock, KnownLost, Raise, Leave, server,
         client
    <3>3. lost' = lost \/ \E b \in BOOLEAN : lost' = [lost EXCEPT ![p] = lost[p] \/ b]
                       \/ lost' = [lost EXCEPT ![p] = TRUE]
      BY <2>2, <3>1 DEF Basic, Connect, TryLock, Refused, StartSession,
         BeginCommit, Refuse, CheckOwner, CheckFails, SendCommit, AckCommit,
         CloseSession, Unlock, SkipUnlock, Abandon, Invalidate, Crash,
         ExecCommit, EndBackend, LoseLock, Lose, server, client
    <3>. QED BY <2>2, <3>2, <3>3
  <2>. QED BY <2>1, <2>2
<1>2. IInv /\ [Next]_vars => [LostStays]_vars
  BY <1>1, NextIsBasic DEF LostStays
<1>. QED BY <1>2, Invariance, PTL DEF Spec, LostIsFinal

---------------------------------------------------------------------------
(* A step of the implementation is a step of the abstract log, or leaves   *)
(* it alone.                                                               *)
LEMMA FenceStep == IInv /\ IInv' /\ [Next]_vars => [Fence!Next]_(Fence!vars)
<1>. USE LockAssumption DEF IInv, TypeOK, ServerInv, ClientInv, Retired,
       Fence!Next, Fence!vars, Fence!Claim, Fence!Extend, Fence!Retire
<1>1. ASSUME IInv, NEW p \in Proc, Basic(p)
      PROVE  [Fence!Next]_(Fence!vars)
  <2>. USE <1>1
  <2>1. CASE TryLock(p)
    <3>1. Retired' = Retired /\ p \notin Retired
      BY <2>1 DEF TryLock, Live, Goto
    <3>. QED BY <2>1, <3>1 DEF TryLock
  <2>2. CASE ExecCommit(p)
    BY <2>2 DEF ExecCommit, client
  <2>3. CASE Refused(p) \/ Abandon(p) \/ Crash(p)
    <3>1. UNCHANGED <<holder, log>>
      BY <2>3 DEF Refused, Abandon, Crash, server
    <3>2. \A q \in Proc : q # p => pc'[q] = pc[q]
      BY <2>3 DEF Refused, Abandon, Crash, Leave, Raise
    <3>3. pc[p] \notin {"start", "end"} /\ pc'[p] \in {"work", "end"}
      BY <2>3 DEF Refused, Abandon, Crash, Leave, Raise, InBody, Outside
    <3>4. Retired' = IF holder = p THEN Retired ELSE Retired \cup {p}
      BY <3>1, <3>2, <3>3
    <3>5. CASE Retired' = Retired
      BY <3>1, <3>5
    <3>6. CASE holder # p /\ p \notin Retired /\ Retired' = Retired \cup {p}
      BY <3>1, <3>6
    <3>7. p \in Retired => Retired \cup {p} = Retired
      OBVIOUS
    <3>. QED BY <3>4, <3>5, <3>6, <3>7
  <2>4. CASE Unlock(p) \/ EndBackend(p) \/ LoseLock(p)
    <3>1. log' = log /\ holder' = IF holder = p THEN NoProc ELSE holder
      BY <2>4 DEF Unlock, EndBackend, LoseLock
    <3>2. pc' = pc \/ Unlock(p)
      BY <2>4 DEF EndBackend, LoseLock, client
    <3>3. CASE holder = p
      <4>1. p \notin Retired /\ holder' = NoProc
        BY <3>1, <3>3
      <4>2. \A q \in Proc : q # p => (pc'[q] = pc[q])
        BY <3>2 DEF Unlock, Leave
      <4>3. pc'[p] \notin {"start", "connected"}
        BY <3>2, <3>3 DEF Unlock, Leave
      <4>4. Retired' = Retired \cup {p}
        BY <3>3, <4>1, <4>2, <4>3
      <4>. QED BY <3>1, <3>3, <4>1, <4>4
    <3>4. CASE holder # p
      BY <3>1, <3>2, <3>4 DEF Unlock, Leave
    <3>. QED BY <3>3, <3>4
  <2>5. CASE \/ Connect(p) \/ StartSession(p) \/ BeginCommit(p) \/ Refuse(p)
             \/ CheckOwner(p) \/ CheckFails(p) \/ SendCommit(p)
             \/ AckCommit(p) \/ CloseSession(p) \/ SkipUnlock(p)
             \/ Invalidate(p)
    <3>1. UNCHANGED <<holder, log>>
      BY <2>5 DEF Connect, StartSession, BeginCommit, Refuse, CheckOwner,
         CheckFails, SendCommit, AckCommit, CloseSession, SkipUnlock,
         Invalidate, server
    <3>2. Retired' = Retired
      BY <2>5, <3>1 DEF Connect, StartSession, BeginCommit, Refuse,
         CheckOwner, CheckFails, SendCommit, AckCommit, CloseSession,
         SkipUnlock, Invalidate, Goto, Raise, Leave
    <3>. QED BY <3>1, <3>2
  <2>. QED BY <2>1, <2>2, <2>3, <2>4, <2>5 DEF Basic
<1>2. CASE UNCHANGED vars
  BY <1>2 DEF vars
<1>. QED BY <1>1, <1>2, NextIsBasic

(* The detailed lock implements the abstract fence.                        *)
THEOREM Refinement == Spec => FenceSpec
<1>1. Init => Fence!Init
  BY LockAssumption DEF Init, Fence!Init, Retired
<1>. QED BY <1>1, FenceStep, Invariance, PTL DEF Spec, FenceSpec, Fence!Spec

-----------------------------------------------------------
(* Deadlines.  Before the cleanup nothing has gone wrong yet; only the     *)
(* connection may still be open; and a cancellation of the cleanup is      *)
(* either still to be delivered, remembered, or about to be raised.        *)
Unharmed == child = "none" /\ raised = "none" /\ ~asked /\ ~abandoned

OnlyConnectionOpen == \A h \in Host : sock[h] = "open" => h = conn

Telling ==
  /\ asked => cancelled \/ woken = "cancel" \/ raised # "none"
  /\ abandoned => uncertain

SessionInv ==
  /\ D!TypeOK /\ D!EndingIsHonest
  /\ at \in {"connecting", "working", "statement"} => Unharmed
  /\ at \in {"working", "statement", "cleanup"} => conn \in Host
  /\ at # "connecting" => OnlyConnectionOpen
  /\ at = "connecting" => conn = 0 /\ waited <= ConnectSeconds
  /\ at = "statement" => waited <= IoSeconds
  /\ at = "cleanup" => Telling
  /\ child = "running" => at = "cleanup" /\ spent = waited /\ waited <= IoSeconds

LEMMA SessionStarts == D!Init => SessionInv
<1>1. ConnectSeconds \in Nat /\ IoSeconds \in Nat
  BY SessionParameters DEF D!Parameters
<1>2. D!Init => D!TypeOK
  <2>1. D!Init => /\ waited \in 0..ConnectSeconds + IoSeconds /\ spent \in 0..IoSeconds + 1
    BY <1>1 DEF D!Init
  <2>2. D!Init => sock \in [Host -> {"none", "open", "closed"}]
    BY DEF D!Init
  <2>. QED BY <2>1, <2>2 DEF D!Init, D!TypeOK
<1>. QED BY <1>1, <1>2 DEF D!Init, SessionInv, D!EndingIsHonest, Unharmed

LEMMA SocketsClose ==
  ASSUME NEW keep, SessionInv
  PROVE  /\ D!Closed(keep) \in [Host -> {"none", "open", "closed"}]
         /\ \A h \in Host : D!Closed(keep)[h] = "open" => h = keep
  BY DEF SessionInv, D!TypeOK, D!Closed

LEMMA ConnectionCloses ==
  ASSUME SessionInv, conn \in Host, D!Abandon, at # "connecting"
  PROVE  /\ sock' \in [Host -> {"none", "open", "closed"}] /\ conn' = conn
         /\ \A h \in Host : sock'[h] # "open" /\ abandoned'
  BY DEF SessionInv, D!TypeOK, D!Abandon, OnlyConnectionOpen

LEMMA CleanupStarts ==
  ASSUME SessionInv, NEW exc \in {"none", "cancelled", "deadline", "failed"},
         NEW unclear \in BOOLEAN, D!CleanUp(exc, unclear),
         at \in {"working", "statement"},
         asked' => exc # "none", abandoned' => unclear,
         asked' \in BOOLEAN, abandoned' \in BOOLEAN, conn' = conn,
         sock' \in [Host -> {"none", "open", "closed"}], OnlyConnectionOpen'
  PROVE  SessionInv'
  BY SessionParameters DEF D!Parameters, SessionInv, D!CleanUp, D!TypeOK,
     D!EndingIsHonest, Unharmed, Telling

LEMMA SessionStep == ASSUME SessionInv, D!Next PROVE SessionInv'
<1>. USE SessionParameters DEF D!Parameters
<1>1. ASSUME NEW h \in Host, D!Try(h) PROVE SessionInv'
  BY <1>1 DEF D!Try, SessionInv, D!TypeOK, D!EndingIsHonest, D!clock, D!task, D!fate,
     Unharmed, Telling, OnlyConnectionOpen
<1>2. ASSUME NEW h \in Host, D!Connected(h) PROVE SessionInv'
  BY <1>2, SocketsClose DEF D!Connected, SessionInv, D!TypeOK, D!EndingIsHonest,
     D!clock, D!task, D!fate, Unharmed, Telling, OnlyConnectionOpen
<1>3. ASSUME NEW exc \in {"cancelled", "failed"}, D!ConnectEnds(exc), asked' \in BOOLEAN
      PROVE  SessionInv'
  BY <1>3, SocketsClose DEF D!ConnectEnds, SessionInv, D!TypeOK, D!EndingIsHonest,
     D!clock, D!task, Unharmed, Telling, OnlyConnectionOpen
<1>4. CASE D!ConnectFails
  BY <1>3, <1>4 DEF D!ConnectFails, SessionInv, D!TypeOK
<1>5. CASE D!Begin \/ D!Reply
  BY <1>5 DEF D!Begin, D!Reply, SessionInv, D!TypeOK, D!EndingIsHonest, D!clock,
     D!net, D!task, D!fate, Unharmed, Telling, OnlyConnectionOpen
<1>6. CASE D!Leave
  <2>1. /\ UNCHANGED <<sock, conn, abandoned, asked>>
        /\ ~asked /\ ~abandoned /\ asked \in BOOLEAN /\ abandoned \in BOOLEAN
        /\ sock \in [Host -> {"none", "open", "closed"}] /\ OnlyConnectionOpen
        /\ at \in {"working", "statement"}
    BY <1>6 DEF D!Leave, D!net, SessionInv, D!TypeOK, Unharmed
  <2>2. OnlyConnectionOpen'
    BY <2>1 DEF OnlyConnectionOpen
  <2>3. D!CleanUp("none", FALSE) \/ D!CleanUp("failed", FALSE)
    BY <1>6 DEF D!Leave
  <2>. QED BY <2>1, <2>2, <2>3, CleanupStarts
<1>7. CASE D!Expire
  <2>1. /\ conn \in Host /\ ~asked /\ asked' = asked /\ at = "statement"
        /\ asked \in BOOLEAN /\ D!Abandon /\ abandoned' = TRUE
    BY <1>7 DEF D!Expire, SessionInv, D!TypeOK, Unharmed, D!Abandon
  <2>2. OnlyConnectionOpen'
    BY <2>1, ConnectionCloses DEF OnlyConnectionOpen
  <2>3. D!CleanUp("deadline", TRUE)
    BY <1>7 DEF D!Expire
  <2>. QED BY <2>1, <2>2, <2>3, ConnectionCloses, CleanupStarts
<1>8. ASSUME NEW told \in {"ok", "failed"}, D!Finish(told), child = "running",
             uncertain' \in BOOLEAN, abandoned' \in BOOLEAN, conn' = conn,
             sock' \in [Host -> {"none", "open", "closed"}], OnlyConnectionOpen',
             abandoned' => uncertain'
      PROVE  SessionInv'
  BY <1>8 DEF D!Finish, SessionInv, D!TypeOK, D!EndingIsHonest, D!clock, Unharmed, Telling
<1>9. CASE D!Close
  <2>1. /\ UNCHANGED <<sock, conn, abandoned, uncertain>>
        /\ child = "running" /\ (D!Finish("ok") \/ D!Finish("failed"))
    BY <1>9 DEF D!Close, D!net
  <2>2. /\ sock \in [Host -> {"none", "open", "closed"}] /\ OnlyConnectionOpen
        /\ uncertain \in BOOLEAN /\ abandoned \in BOOLEAN /\ (abandoned => uncertain)
    BY <2>1 DEF SessionInv, D!TypeOK, Telling
  <2>3. OnlyConnectionOpen'
    BY <2>1, <2>2 DEF OnlyConnectionOpen
  <2>. QED BY <2>1, <2>2, <2>3, <1>8
<1>10. CASE D!CloseExpires
  <2>1. /\ conn \in Host /\ at # "connecting" /\ child = "running"
        /\ D!Abandon /\ abandoned' = TRUE /\ uncertain' = TRUE /\ D!Finish("failed")
    BY <1>10 DEF D!CloseExpires, SessionInv, D!Abandon
  <2>2. OnlyConnectionOpen'
    BY <2>1, ConnectionCloses DEF OnlyConnectionOpen
  <2>. QED BY <2>1, <2>2, <1>8, ConnectionCloses
<1>11. CASE D!Resume
  BY <1>11 DEF D!Resume, D!ShieldAgain, D!Ending, SessionInv, D!TypeOK,
     D!EndingIsHonest, D!clock, D!net, Unharmed, Telling, OnlyConnectionOpen
<1>12. CASE D!Cancel
  <2>1. asked' = TRUE
    BY <1>12 DEF D!Cancel
  <2>2. CASE at = "connecting"
    BY <1>12, <2>1, <2>2, <1>3 DEF D!Cancel
  <2>3. CASE at = "working"
    <3>1. D!CleanUp("cancelled", FALSE) /\ UNCHANGED <<sock, conn, abandoned>>
      BY <1>12, <2>3 DEF D!Cancel, D!net
    <3>2. /\ ~abandoned /\ abandoned \in BOOLEAN /\ OnlyConnectionOpen
          /\ sock \in [Host -> {"none", "open", "closed"}]
      BY <2>3 DEF SessionInv, D!TypeOK, Unharmed
    <3>3. OnlyConnectionOpen'
      BY <3>1, <3>2 DEF OnlyConnectionOpen
    <3>. QED BY <2>1, <2>3, <3>1, <3>2, <3>3, CleanupStarts
  <2>4. CASE at = "statement"
    <3>1. D!CleanUp("cancelled", TRUE) /\ D!Abandon /\ abandoned' = TRUE
      BY <1>12, <2>4 DEF D!Cancel, D!Abandon
    <3>2. conn \in Host
      BY <2>4 DEF SessionInv
    <3>3. OnlyConnectionOpen'
      BY <2>4, <3>1, <3>2, ConnectionCloses DEF OnlyConnectionOpen
    <3>. QED BY <2>1, <2>4, <3>1, <3>2, <3>3, ConnectionCloses, CleanupStarts
  <2>5. CASE at = "cleanup"
    <3>1. woken' = "cancel"
      BY <1>12, <2>5 DEF D!Cancel
    <3>2. UNCHANGED <<at, waited, spent, sock, conn, abandoned, child, cancelled, raised, uncertain>>
      BY <1>12, <2>5 DEF D!Cancel, D!clock, D!net, D!fate
    <3>. QED BY <2>1, <2>5, <3>1, <3>2 DEF SessionInv, D!TypeOK, D!EndingIsHonest,
       Unharmed, Telling, OnlyConnectionOpen
  <2>. QED BY <1>12, <2>2, <2>3, <2>4, <2>5 DEF D!Cancel, SessionInv, D!TypeOK
<1>13. CASE D!Tick
  BY <1>13 DEF D!Tick, D!Late, D!AtMost, SessionInv, D!TypeOK, D!EndingIsHonest,
     D!net, D!task, D!fate, Unharmed, Telling, OnlyConnectionOpen
<1>. QED BY <1>1, <1>2, <1>4, <1>5, <1>6, <1>7, <1>9, <1>10, <1>11, <1>12, <1>13
   DEF D!Next, D!Progress

LEMMA SessionRests == ASSUME SessionInv, UNCHANGED D!vars PROVE SessionInv'
  BY DEF SessionInv, D!vars, D!clock, D!net, D!task, D!fate, D!TypeOK,
     D!EndingIsHonest, Unharmed, Telling, OnlyConnectionOpen

LEMMA SessionMeans == SessionInv => EndsCleanly
  BY DEF SessionInv, EndsCleanly, D!EndsCleanly, D!NothingLeftBehind,
     D!CleanupIsBounded, OnlyConnectionOpen
---------------------------------------------------------------------------
(* Workspace.  Entries are versioned entries, and the answers to edits are *)
(* true, for any number of browsers and of requests.                       *)
EntryKinds == {"none", "put", "delete"}
EntryPlaces == {"idle", "sent", "staged", "answer"}
Change == [by : Browser, edit : Nat, from : Nat, to : Nat]

EntryTyped ==
  /\ row \in Nat /\ newest \in Nat
  /\ locker \in Browser \cup {NoBrowser}
  /\ history \in Seq(Change)
  /\ shown \in [Browser -> Nat] /\ result \in [Browser -> Nat]
  /\ request \in [Browser -> [kind : EntryKinds, base : Nat, edit : Nat]]
  /\ sends \in [Browser -> Nat]
  /\ turn \in [Browser -> EntryPlaces]
  /\ answer \in [Browser -> {"none", "ok", "conflict", "lost"}]

(* Whatever a browser shows or bases an edit on was committed, and there   *)
(* is a newest committed version; none is newer than the last one drawn.   *)
VersionsAreCommitted ==
  /\ \E v \in W!Committed : \A w \in W!Committed : w <= v
  /\ \A w \in W!Committed : w <= newest
  /\ row \in W!Committed
  /\ \A b \in Browser :
       /\ shown[b] \in W!Committed /\ request[b].base \in W!Committed
       /\ turn[b] = "answer" => result[b] \in W!Committed
       /\ result[b] <= newest

(* The row lock and what is staged under it belong to one browser: a       *)
(* version newer than every committed one, or the removal of a row.        *)
StagedUnderLock ==
  \A b \in Browser :
    /\ turn[b] = "staged" <=> locker = b
    /\ turn[b] = "staged" =>
         /\ row = request[b].base
         /\ request[b].kind = "put" => \A w \in W!Committed : w < result[b]
         /\ request[b].kind = "delete" => result[b] = 0
    /\ request[b].kind = "delete" => request[b].base # 0
    /\ turn[b] # "idle" \/ answer[b] = "lost" => request[b].kind # "none"

(* An edit is older than its browser's latest; one that is sent again was  *)
(* based on the same version; what is answered was committed.              *)
EditsAreKnown ==
  /\ \A i \in DOMAIN history :
       /\ history[i].edit <= sends[history[i].by]
       /\ history[i].edit = request[history[i].by].edit =>
            history[i].from = request[history[i].by].base
  /\ \A b \in Browser :
       /\ request[b].edit <= sends[b]
       /\ turn[b] = "answer" =>
            \E i \in DOMAIN history : history[i].by = b /\ history[i].edit = request[b].edit

(* Every change starts from what the one before it left, a removal from    *)
(* something, and no version comes back.                                   *)
HistoryIsAChain ==
  /\ history = <<>> => row = 0
  /\ history # <<>> => row = history[Len(history)].to
  /\ \A i \in DOMAIN history :
       /\ history[i].from # 0 => i > 1 /\ history[i - 1].to = history[i].from
       /\ history[i].to = 0 => history[i].from # 0
  /\ \A i, j \in DOMAIN history :
       i < j /\ history[j].to # 0 => history[i].to < history[j].to

EntryIInv ==
  /\ EntryTyped /\ VersionsAreCommitted /\ StagedUnderLock /\ EditsAreKnown
  /\ HistoryIsAChain /\ W!EditedOnce /\ W!AnswersAreTrue

---------------------------------------------------------------------------
(* A history that is not extended tells the same.                          *)
LEMMA EntrySameHistory ==
  ASSUME UNCHANGED history
  PROVE  UNCHANGED W!Committed
  BY DEF W!Committed

LEMMA CommittedTyped == ASSUME EntryTyped PROVE W!Committed \subseteq Nat
<1>1. \A i \in DOMAIN history : history[i] \in Change
  BY DEF EntryTyped
<1>. QED BY <1>1 DEF W!Committed, Change

(* What a commit adds to the history.                                      *)
EntryExtendedBy(b) ==
  /\ history' \in Seq(Change) /\ history' # <<>>
  /\ Len(history) \in Nat /\ Len(history') = Len(history) + 1
  /\ DOMAIN history = 1..Len(history) /\ DOMAIN history' = 1..Len(history')
  /\ \A i \in DOMAIN history : i \in DOMAIN history' /\ history'[i] = history[i]
  /\ history'[Len(history')] = [by |-> b, edit |-> request[b].edit,
                                from |-> row, to |-> result[b]]
  /\ Len(history') \in DOMAIN history'
  /\ \A i \in DOMAIN history' : i \in DOMAIN history \/ i = Len(history')
  /\ W!Committed' = W!Committed \cup {result[b]}

LEMMA EntryExtended == ASSUME EntryTyped, NEW b \in Browser, W!Commit(b) PROVE EntryExtendedBy(b)
<1>. DEFINE added == [by |-> b, edit |-> request[b].edit, from |-> row, to |-> result[b]]
<1>1. history \in Seq(Change) /\ added \in Change /\ history' = Append(history, added)
  BY DEF EntryTyped, W!Commit, Change
<1>2. /\ Len(history) \in Nat /\ DOMAIN history = 1..Len(history)
      /\ history' \in Seq(Change) /\ Len(history') = Len(history) + 1
      /\ DOMAIN history' = 1..Len(history')
      /\ \A i \in DOMAIN history : history'[i] = history[i]
      /\ history'[Len(history')] = added
  <2>. HIDE DEF added
  <2>. QED BY <1>1
<1>3. W!Committed' = W!Committed \cup {result[b]}
  <2>1. added.to = result[b]
    OBVIOUS
  <2>. HIDE DEF added
  <2>. QED BY <1>2, <2>1 DEF W!Committed
<1>4. history' # <<>>
  BY <1>2
<1>. QED BY <1>2, <1>3, <1>4 DEF EntryExtendedBy

(* Every variable keeps to its type.                                       *)
LEMMA EntryTypedStep == ASSUME EntryIInv, [W!Next]_(W!vars) PROVE EntryTyped'
<1>. USE DEF EntryIInv, EntryTyped
<1>1. CASE UNCHANGED W!vars
  BY <1>1 DEF W!vars, W!database, W!browser
<1>2. ASSUME NEW b \in Browser, W!Step(b) PROVE EntryTyped'
  <2>0. /\ request[b] \in [kind : EntryKinds, base : Nat, edit : Nat]
        /\ \A l \in EntryPlaces : [turn EXCEPT ![b] = l] \in [Browser -> EntryPlaces]
    BY DEF EntryPlaces
  <2>. USE DEF W!Goto, W!database, W!browser
  <2>1. CASE W!Reload(b)
    BY <2>1 DEF W!Reload
  <2>2. CASE W!SubmitAgain(b)
    BY <2>0, <2>2, SMTT(20) DEF W!SubmitAgain, W!Send, EntryPlaces
  <2>3. ASSUME NEW kind \in {"put", "delete"}, W!Submit(b, kind) PROVE EntryTyped'
    <3>1. sends' \in [Browser -> Nat] /\ sends'[b] \in Nat
      BY <2>3 DEF W!Submit, W!Send
    <3>2. [kind |-> kind, base |-> shown[b], edit |-> sends'[b]] \in [kind : EntryKinds, base : Nat, edit : Nat]
      BY <3>1 DEF EntryKinds
    <3>3. request' \in [Browser -> [kind : EntryKinds, base : Nat, edit : Nat]]
      BY <2>3, <3>2 DEF W!Submit
    <3>. QED BY <2>0, <2>3, <3>1, <3>3 DEF W!Submit, W!Send, EntryPlaces
  <2>4. CASE W!Put(b)
    BY <2>0, <2>4 DEF W!Put, W!Stage, W!NewVersion, EntryPlaces
  <2>5. CASE W!Delete(b)
    BY <2>0, <2>5 DEF W!Delete, W!Stage, EntryPlaces
  <2>6. CASE W!Conflict(b) \/ W!Respond(b)
    BY <2>0, <2>6 DEF W!Conflict, W!Respond, EntryPlaces
  <2>7. CASE W!Commit(b)
    BY <2>0, <2>7, EntryExtended DEF EntryExtendedBy, W!Commit, EntryPlaces
  <2>8. CASE W!Drop(b)
    BY <2>0, <2>8 DEF W!Drop, EntryPlaces
  <2>. QED BY <1>2, <2>1, <2>2, <2>3, <2>4, <2>5, <2>6, <2>7, <2>8 DEF W!Step, W!Serve
<1>. QED BY <1>1, <1>2 DEF W!Next

(* Only a commit adds a version, that of its browser.                      *)
LEMMA VersionsStep == ASSUME EntryIInv, [W!Next]_(W!vars) PROVE VersionsAreCommitted'
<1>. USE DEF EntryIInv, EntryTyped, VersionsAreCommitted
<1>0. \A w \in W!Committed : w \in Nat
  BY CommittedTyped
<1>1. CASE UNCHANGED W!vars
  BY <1>1, EntrySameHistory DEF W!vars, W!database, W!browser
<1>2. ASSUME NEW b \in Browser, W!Step(b) PROVE VersionsAreCommitted'
  <2>. USE DEF W!Goto, W!database, W!browser
  <2>1. CASE W!Reload(b) \/ W!SubmitAgain(b)
    <3>1. UNCHANGED <<row, newest, history, request, result, W!Committed>>
      BY <2>1, EntrySameHistory DEF W!Reload, W!SubmitAgain, W!Send
    <3>2. \A d \in Browser : shown'[d] \in W!Committed /\ (turn'[d] = "answer" => turn[d] = "answer")
      <4>1. CASE W!Reload(b)
        BY <4>1 DEF W!Reload
      <4>2. CASE W!SubmitAgain(b)
        BY <4>2 DEF W!SubmitAgain, W!Send
      <4>. QED BY <2>1, <4>1, <4>2
    <3>. QED BY <3>1, <3>2
  <2>2. ASSUME NEW kind \in {"put", "delete"}, W!Submit(b, kind) PROVE VersionsAreCommitted'
    <3>1. \A d \in Browser : request'[d].base \in W!Committed
      BY <2>2 DEF W!Submit
    <3>. QED BY <2>2, <3>1, EntrySameHistory DEF W!Submit, W!Send
  <2>3. CASE W!Put(b)
    <3>1. newest' = newest + 1 /\ \A d \in Browser : result'[d] <= newest'
      BY <2>3, SMTT(20) DEF W!Put, W!Stage, W!NewVersion
    <3>2. UNCHANGED W!Committed /\ \A w \in W!Committed : w <= newest'
      BY <1>0, <2>3, <3>1, EntrySameHistory DEF W!Put
    <3>. QED BY <2>3, <3>1, <3>2 DEF W!Put, W!Stage
  <2>4. CASE W!Delete(b)
    <3>1. \A d \in Browser : result'[d] <= newest'
      BY <2>4 DEF W!Delete, W!Stage
    <3>. QED BY <2>4, <3>1, EntrySameHistory DEF W!Delete, W!Stage
  <2>5. CASE W!Conflict(b) \/ W!Respond(b)
    <3>1. \A d \in Browser : shown'[d] \in W!Committed
      BY <2>5 DEF W!Conflict, W!Respond
    <3>2. \A d \in Browser : turn'[d] = "answer" => turn[d] = "answer"
      BY <2>5 DEF W!Conflict, W!Respond
    <3>3. UNCHANGED <<row, newest, history, request, result, W!Committed>>
      BY <2>5, EntrySameHistory DEF W!Conflict, W!Respond
    <3>. QED BY <3>1, <3>2, <3>3
  <2>6. CASE W!Commit(b)
    <3>1. W!Committed' = W!Committed \cup {result[b]} /\ result[b] \in Nat /\ result[b] <= newest
      BY <2>6, EntryExtended DEF EntryExtendedBy
    <3>2. \E v \in W!Committed' : \A w \in W!Committed' : w <= v
      <4>1. PICK v \in W!Committed : \A w \in W!Committed : w <= v
        OBVIOUS
      <4>2. CASE result[b] <= v
        BY <3>1, <4>1, <4>2
      <4>3. CASE v <= result[b]
        <5>1. \A w \in W!Committed' : w <= result[b]
          BY <1>0, <3>1, <4>1, <4>3
        <5>. QED BY <3>1, <5>1
      <4>. QED BY <1>0, <3>1, <4>1, <4>2, <4>3
    <3>. QED BY <2>6, <3>1, <3>2 DEF W!Commit
  <2>7. CASE W!Drop(b)
    BY <2>7, EntrySameHistory DEF W!Drop
  <2>. QED BY <1>2, <2>1, <2>2, <2>3, <2>4, <2>5, <2>6, <2>7 DEF W!Step, W!Serve
<1>. QED BY <1>1, <1>2 DEF W!Next

(* One browser stages at a time, and a condition that holds when the lock  *)
(* is taken holds until it is released.                                    *)
LEMMA StagedStep == ASSUME W!Parameters, EntryIInv, [W!Next]_(W!vars) PROVE StagedUnderLock'
<1>. USE DEF W!Parameters, EntryIInv, EntryTyped, StagedUnderLock
<1>1. CASE UNCHANGED W!vars
  BY <1>1, EntrySameHistory DEF W!vars, W!database, W!browser
<1>2. ASSUME NEW b \in Browser, W!Step(b) PROVE StagedUnderLock'
  <2>. USE DEF W!Goto, W!database, W!browser
  <2>1. CASE W!Reload(b) \/ W!SubmitAgain(b)
    <3>1. UNCHANGED <<row, locker, result, request, W!Committed>>
      BY <2>1, EntrySameHistory DEF W!Reload, W!SubmitAgain, W!Send
    <3>2. /\ \A d \in Browser : turn'[d] = "staged" <=> turn[d] = "staged"
          /\ \A d \in Browser : turn'[d] # "idle" \/ answer'[d] = "lost" =>
                                 turn[d] # "idle" \/ answer[d] = "lost"
      <4>1. CASE W!Reload(b)
        BY <4>1 DEF W!Reload
      <4>2. CASE W!SubmitAgain(b)
        BY <4>2 DEF W!SubmitAgain, W!Send
      <4>. QED BY <2>1, <4>1, <4>2
    <3>. QED BY <3>1, <3>2
  <2>2. ASSUME NEW kind \in {"put", "delete"}, W!Submit(b, kind) PROVE StagedUnderLock'
    <3>1. /\ request'[b].kind = kind /\ request'[b].base = shown[b]
          /\ \A d \in Browser \ {b} : request'[d] = request[d] /\ turn'[d] = turn[d]
          /\ turn'[b] = "sent" /\ turn[b] = "idle"
      BY <2>2 DEF W!Submit, W!Send
    <3>2. UNCHANGED <<row, locker, history, result, answer, W!Committed>>
      BY <2>2, EntrySameHistory DEF W!Submit, W!Send
    <3>3. kind = "delete" => shown[b] # 0
      BY <2>2 DEF W!Submit
    <3>4. \A d \in Browser : turn'[d] = "staged" <=> turn[d] = "staged"
      BY <3>1
    <3>5. \A d \in Browser \ {b} : request'[d] = request[d] /\ turn'[d] = turn[d]
      BY <3>1
    <3>6. \A d \in Browser : turn'[d] = "staged" => d # b
      BY <3>1
    <3>7. \A d \in Browser : turn[d] = "staged" => request'[d] = request[d]
      BY <3>1
    <3>8. \A d \in Browser :
            /\ request'[d].kind = "delete" => request'[d].base # 0
            /\ turn'[d] # "idle" \/ answer'[d] = "lost" => request'[d].kind # "none"
      <4>. SUFFICES ASSUME NEW d \in Browser
                    PROVE /\ request'[d].kind = "delete" => request'[d].base # 0
                          /\ turn'[d] # "idle" \/ answer'[d] = "lost" => request'[d].kind # "none"
        OBVIOUS
      <4>1. CASE d = b
        BY <3>1, <3>3, <4>1
      <4>2. CASE d # b
        BY <3>2, <3>5, <4>2
      <4>. QED BY <4>1, <4>2
    <3>. QED BY <3>2, <3>4, <3>7, <3>8, SMTT(20)
  <2>3. CASE W!Put(b)
    <3>1. UNCHANGED W!Committed /\ \A w \in W!Committed : w < W!NewVersion
      BY <2>3, EntrySameHistory, CommittedTyped DEF W!Put, W!NewVersion, VersionsAreCommitted
    <3>2. locker = NoBrowser /\ \A d \in Browser : turn[d] # "staged"
      BY <2>3 DEF W!Put, W!Stage
    <3>. QED BY <2>3, <3>1, <3>2 DEF W!Put, W!Stage
  <2>4. CASE W!Delete(b)
    <3>1. UNCHANGED W!Committed
      BY <2>4, EntrySameHistory DEF W!Delete
    <3>2. locker = NoBrowser /\ \A d \in Browser : turn[d] # "staged"
      BY <2>4 DEF W!Delete, W!Stage
    <3>. QED BY <2>4, <3>1, <3>2 DEF W!Delete, W!Stage
  <2>5. CASE W!Conflict(b) \/ W!Respond(b)
    BY <2>5, EntrySameHistory DEF W!Conflict, W!Respond
  <2>6. CASE W!Commit(b)
    <3>1. locker = b /\ \A d \in Browser \ {b} : turn[d] # "staged"
      BY <2>6 DEF W!Commit
    <3>. QED BY <2>6, <3>1 DEF W!Commit
  <2>7. CASE W!Drop(b)
    <3>1. UNCHANGED W!Committed
      BY <2>7, EntrySameHistory DEF W!Drop
    <3>. QED BY <2>7, <3>1 DEF W!Drop
  <2>. QED BY <1>2, <2>1, <2>2, <2>3, <2>4, <2>5, <2>6, <2>7 DEF W!Step, W!Serve
<1>. QED BY <1>1, <1>2 DEF W!Next

LEMMA EntryChangesTyped ==
  ASSUME EntryTyped
  PROVE  /\ Len(history) \in Nat /\ DOMAIN history = 1..Len(history)
         /\ history # <<>> <=> Len(history) # 0
         /\ \A i \in DOMAIN history :
              /\ history[i] \in Change
              /\ history[i].by \in Browser /\ history[i].edit \in Nat
              /\ history[i].from \in Nat /\ history[i].to \in Nat
<1>1. history \in Seq(Change)
  BY DEF EntryTyped
<1>2. Len(history) \in Nat /\ DOMAIN history = 1..Len(history)
  BY <1>1
<1>3. history = <<>> <=> Len(history) = 0
  BY <1>1
<1>4. \A i \in DOMAIN history : history[i] \in Change
  BY <1>1
<1>. QED BY <1>2, <1>3, <1>4 DEF Change

(* A new edit is none of those committed before.                           *)
LEMMA EditsStep == ASSUME EntryIInv, [W!Next]_(W!vars) PROVE EditsAreKnown'
<1>0. /\ \A i \in DOMAIN history : history[i].by \in Browser /\ history[i].edit \in Nat
      /\ sends \in [Browser -> Nat] /\ turn \in [Browser -> EntryPlaces]
      /\ request \in [Browser -> [kind : EntryKinds, base : Nat, edit : Nat]]
  BY EntryChangesTyped DEF EntryIInv, EntryTyped
<1>. USE <1>0 DEF EntryIInv, EditsAreKnown
<1>1. CASE UNCHANGED W!vars
  BY <1>1 DEF W!vars, W!database, W!browser
<1>2. ASSUME NEW b \in Browser, W!Step(b) PROVE EditsAreKnown'
  <2>. USE DEF W!Goto, W!database, W!browser
  <2>1. CASE W!Reload(b)
    BY <2>1 DEF W!Reload
  <2>2. CASE W!SubmitAgain(b)
    BY <2>2 DEF W!SubmitAgain, W!Send
  <2>3. ASSUME NEW kind \in {"put", "delete"}, W!Submit(b, kind) PROVE EditsAreKnown'
    <3>1. /\ request'[b].edit = sends[b] + 1 /\ sends'[b] = sends[b] + 1
          /\ \A d \in Browser \ {b} : request'[d] = request[d] /\ sends'[d] = sends[d] /\ turn'[d] = turn[d]
          /\ turn'[b] = "sent" /\ UNCHANGED history
      BY <2>3 DEF W!Submit, W!Send
    <3>2. ASSUME NEW i \in DOMAIN history
          PROVE  /\ history[i].edit <= sends'[history[i].by]
                 /\ history[i].edit = request'[history[i].by].edit =>
                      history[i].from = request'[history[i].by].base
      BY <3>1
    <3>. QED BY <3>1, <3>2
  <2>4. CASE W!Put(b) \/ W!Delete(b)
    BY <2>4 DEF W!Put, W!Delete, W!Stage
  <2>5. CASE W!Conflict(b) \/ W!Respond(b) \/ W!Drop(b)
    BY <2>5 DEF W!Conflict, W!Respond, W!Drop
  <2>6. CASE W!Commit(b)
    <3>0. EntryExtendedBy(b)
      BY <2>6, EntryExtended
    <3>1. UNCHANGED <<request, sends>> /\ turn[b] = "staged"
      BY <2>6 DEF W!Commit
    <3>2. \A d \in Browser : turn'[d] = "answer" => turn[d] = "answer" \/ d = b
      BY <2>6 DEF W!Commit
    <3>3. row = request[b].base
      BY <3>1 DEF StagedUnderLock
    <3>4. ASSUME NEW i \in DOMAIN history'
          PROVE  /\ history'[i].edit <= sends[history'[i].by]
                 /\ history'[i].edit = request[history'[i].by].edit =>
                      history'[i].from = request[history'[i].by].base
      <4>1. CASE i \in DOMAIN history
        BY <3>0, <4>1 DEF EntryExtendedBy
      <4>2. CASE i = Len(history')
        <5>1. history'[i].by = b /\ history'[i].edit = request[b].edit /\ history'[i].from = row
          BY <3>0, <4>2 DEF EntryExtendedBy
        <5>. QED BY <3>3, <5>1
      <4>. QED BY <3>0, <4>1, <4>2 DEF EntryExtendedBy
    <3>5. ASSUME NEW d \in Browser, turn'[d] = "answer"
          PROVE  \E i \in DOMAIN history' : history'[i].by = d /\ history'[i].edit = request[d].edit
      <4>1. CASE d = b
        <5>. DEFINE i == Len(history')
        <5>1. i \in DOMAIN history' /\ history'[i].by = b /\ history'[i].edit = request[b].edit
          BY <3>0 DEF EntryExtendedBy
        <5>. QED BY <4>1, <5>1
      <4>2. CASE d # b
        <5>1. PICK i \in DOMAIN history : history[i].by = d /\ history[i].edit = request[d].edit
          BY <3>2, <3>5, <4>2
        <5>2. i \in DOMAIN history' /\ history'[i] = history[i]
          BY <3>0 DEF EntryExtendedBy
        <5>. QED BY <5>1, <5>2
      <4>. QED BY <4>1, <4>2
    <3>. QED BY <3>1, <3>4, <3>5
  <2>. QED BY <1>2, <2>1, <2>2, <2>3, <2>4, <2>5, <2>6 DEF W!Step, W!Serve
<1>. QED BY <1>1, <1>2 DEF W!Next

LEMMA AnswersStep == ASSUME EntryIInv, [W!Next]_(W!vars) PROVE W!AnswersAreTrue'
<1>0. /\ turn \in [Browser -> EntryPlaces] /\ DOMAIN request = Browser /\ DOMAIN answer = Browser
  BY DEF EntryIInv, EntryTyped
<1>. USE <1>0 DEF EntryIInv, W!AnswersAreTrue
<1>1. CASE UNCHANGED W!vars
  BY <1>1 DEF W!vars, W!database, W!browser
<1>2. ASSUME NEW b \in Browser, W!Step(b) PROVE W!AnswersAreTrue'
  <2>. USE DEF W!Goto, W!database, W!browser
  <2>1. CASE W!Reload(b)
    BY <2>1 DEF W!Reload
  <2>2. CASE W!SubmitAgain(b) \/ \E kind \in {"put", "delete"} : W!Submit(b, kind)
    <3>1. /\ UNCHANGED <<history, answer>> /\ turn'[b] = "sent"
          /\ \A d \in Browser \ {b} : turn'[d] = turn[d] /\ request'[d] = request[d]
      BY <2>2 DEF W!SubmitAgain, W!Submit, W!Send
    <3>. QED BY <3>1
  <2>3. CASE W!Put(b) \/ W!Delete(b)
    BY <2>3 DEF W!Put, W!Delete, W!Stage
  <2>4. CASE W!Conflict(b) \/ W!Drop(b)
    BY <2>4 DEF W!Conflict, W!Drop
  <2>5. CASE W!Respond(b)
    BY <2>5 DEF W!Respond, EditsAreKnown
  <2>6. CASE W!Commit(b)
    <3>1. ASSUME NEW d \in Browser, answer'[d] = "ok", turn'[d] = "idle"
          PROVE  answer[d] = "ok" /\ turn[d] = "idle" /\ request'[d] = request[d]
      BY <2>6, <3>1 DEF W!Commit
    <3>2. EntryExtendedBy(b)
      BY <2>6, EntryExtended
    <3>. QED BY <3>1, <3>2 DEF EntryExtendedBy
  <2>. QED BY <1>2, <2>1, <2>2, <2>3, <2>4, <2>5, <2>6 DEF W!Step, W!Serve
<1>. QED BY <1>1, <1>2 DEF W!Next

(* Only commits write the history and the row.                             *)
LEMMA EntryOnlyCommits ==
  ASSUME EntryIInv, [W!Next]_(W!vars)
  PROVE  UNCHANGED <<row, history>> \/ \E b \in Browser : W!Commit(b)
  BY DEF W!Next, W!Step, W!Serve, W!vars, W!database, W!Reload, W!SubmitAgain, W!Submit, W!Send, W!Put,
     W!Delete, W!Conflict, W!Respond, W!Drop

(* A version staged under the lock is newer than all there were.           *)
LEMMA ChainStep == ASSUME EntryIInv, [W!Next]_(W!vars) PROVE HistoryIsAChain'
<1>. USE EntryChangesTyped DEF HistoryIsAChain
<1>1. CASE UNCHANGED <<row, history>>
  BY <1>1 DEF EntryIInv
<1>2. ASSUME NEW b \in Browser, W!Commit(b) PROVE HistoryIsAChain'
  <2>0. EntryExtendedBy(b)
    BY <1>2, EntryExtended DEF EntryIInv
  <2>1. /\ row' = result[b] /\ row = request[b].base /\ result[b] \in Nat
        /\ request[b].kind \in {"put", "delete"} /\ row \in Nat
        /\ request[b].kind = "put" => \A w \in W!Committed : w < result[b]
        /\ request[b].kind = "delete" => result[b] = 0 /\ row # 0
    BY <1>2 DEF W!Commit, EntryIInv, EntryTyped, StagedUnderLock, EntryKinds
  <2>2. history' # <<>> /\ row' = history'[Len(history')].to
    BY <2>0, <2>1 DEF EntryExtendedBy
  <2>3. ASSUME NEW i \in DOMAIN history'
        PROVE  /\ history'[i].from # 0 => i > 1 /\ history'[i - 1].to = history'[i].from
               /\ history'[i].to = 0 => history'[i].from # 0
    <3>1. CASE i \in DOMAIN history
      BY <2>0, <3>1 DEF EntryExtendedBy, EntryIInv
    <3>2. CASE i = Len(history')
      <4>1. history'[i].from = row /\ history'[i].to = result[b]
        BY <2>0, <3>2 DEF EntryExtendedBy, EntryIInv
      <4>2. result[b] = 0 => row # 0
        <5>1. 0 \in W!Committed
          BY DEF W!Committed
        <5>. QED BY <2>1, <5>1
      <4>3. row # 0 => Len(history) # 0 /\ history[Len(history)].to = row
        BY DEF EntryIInv
      <4>4. row # 0 => history'[Len(history)].to = row
        BY <2>0, <4>3 DEF EntryExtendedBy, EntryIInv
      <4>. QED BY <2>0, <3>2, <4>1, <4>2, <4>3, <4>4 DEF EntryExtendedBy, EntryIInv
    <3>. QED BY <2>0, <3>1, <3>2 DEF EntryExtendedBy, EntryIInv
  <2>4. ASSUME NEW i \in DOMAIN history', NEW j \in DOMAIN history', i < j, history'[j].to # 0
        PROVE  history'[i].to < history'[j].to
    <3>1. i \in DOMAIN history
      BY <2>0, <2>4 DEF EntryExtendedBy, EntryIInv
    <3>2. CASE j \in DOMAIN history
      BY <2>0, <2>4, <3>1, <3>2 DEF EntryExtendedBy, EntryIInv
    <3>3. CASE j = Len(history')
      <4>1. history'[j].to = result[b] /\ history'[i].to = history[i].to /\ history[i].to \in W!Committed
        BY <2>0, <3>1, <3>3 DEF EntryExtendedBy, EntryIInv, W!Committed
      <4>. QED BY <2>1, <2>4, <4>1
    <3>. QED BY <2>0, <3>2, <3>3 DEF EntryExtendedBy, EntryIInv
  <2>. QED BY <2>2, <2>3, <2>4
<1>. QED BY <1>1, <1>2, EntryOnlyCommits

(* An edit that is committed again was based on no entry: a version it was *)
(* based on would have to come back.                                       *)
LEMMA EditedStep == ASSUME EntryIInv, [W!Next]_(W!vars) PROVE W!EditedOnce'
<1>0. HistoryIsAChain /\ HistoryIsAChain'
  BY ChainStep DEF EntryIInv
<1>1. CASE UNCHANGED <<row, history>>
  BY <1>1 DEF EntryIInv, W!EditedOnce
<1>2. ASSUME NEW b \in Browser, W!Commit(b) PROVE W!EditedOnce'
  <2>0. EntryExtendedBy(b)
    BY <1>2, EntryExtended DEF EntryIInv
  <2>. SUFFICES ASSUME NEW i \in DOMAIN history', NEW j \in DOMAIN history', i < j,
                       history'[i].by = history'[j].by, history'[i].edit = history'[j].edit
                PROVE  /\ history'[i].from = 0
                       /\ \E k \in i + 1..j - 1 : history'[k].to = 0
    BY DEF W!EditedOnce
  <2>1. i \in DOMAIN history /\ history'[i] = history[i]
    BY <2>0 DEF EntryExtendedBy
  <2>2. CASE j \in DOMAIN history
    <3>1. history'[j] = history[j]
      BY <2>0, <2>2 DEF EntryExtendedBy
    <3>2. history[i].from = 0 /\ \E k \in i + 1..j - 1 : history[k].to = 0
      BY <2>1, <2>2, <3>1 DEF EntryIInv, W!EditedOnce
    <3>3. \A k \in i + 1..j - 1 : history'[k] = history[k]
      BY <2>0, <2>1, <2>2 DEF EntryExtendedBy
    <3>. QED BY <2>1, <3>2, <3>3
  <2>3. CASE j = Len(history')
    <3>. DEFINE n == Len(history)
    <3>0. /\ n \in Nat /\ DOMAIN history = 1..n /\ j = n + 1 /\ i \in 1..n /\ n \in DOMAIN history
          /\ \A k \in 1..n : history'[k] = history[k] /\ history[k].from \in Nat /\ history[k].to \in Nat
      BY <2>0, <2>1, <2>3, EntryChangesTyped DEF EntryExtendedBy, EntryIInv
    <3>1. history[i].by = b /\ history[i].edit = request[b].edit
      BY <2>0, <2>1, <2>3 DEF EntryExtendedBy
    <3>2. history[i].from = row
      <4>1. history[i].from = request[b].base
        BY <2>1, <3>1 DEF EntryIInv, EditsAreKnown
      <4>2. row = request[b].base
        BY <1>2 DEF EntryIInv, StagedUnderLock, W!Commit
      <4>. QED BY <4>1, <4>2
    <3>3. row = history[n].to
      BY <1>0, <3>0, EntryChangesTyped DEF HistoryIsAChain, EntryIInv
    <3>4. row = 0
      <4>. SUFFICES ASSUME row # 0 PROVE FALSE
        OBVIOUS
      <4>1. i > 1 /\ history[i - 1].to = row
        BY <1>0, <2>1, <3>2 DEF HistoryIsAChain
      <4>2. i - 1 \in 1..n /\ i - 1 < n
        BY <3>0, <4>1
      <4>3. history[i - 1].to < history[n].to
        BY <1>0, <3>0, <3>3, <4>2 DEF HistoryIsAChain
      <4>. QED BY <3>0, <3>3, <4>1, <4>2, <4>3
    <3>5. i # n
      BY <1>0, <2>1, <3>2, <3>3, <3>4 DEF HistoryIsAChain
    <3>6. n \in i + 1..j - 1 /\ history'[n].to = 0
      <4>. HIDE DEF n
      <4>1. n \in i + 1..j - 1 /\ n \in 1..n
        BY <3>0, <3>5
      <4>2. history'[n] = history[n]
        BY <3>0, <4>1
      <4>. QED BY <3>3, <3>4, <4>1, <4>2
    <3>. QED BY <2>1, <3>2, <3>4, <3>6
  <2>. QED BY <2>0, <2>2, <2>3 DEF EntryExtendedBy
<1>. QED BY <1>1, <1>2, EntryOnlyCommits

---------------------------------------------------------------------------
LEMMA EntryInitially == ASSUME W!Parameters PROVE W!Init => EntryIInv
<1>. SUFFICES ASSUME W!Init PROVE EntryIInv
  OBVIOUS
<1>. USE DEF W!Init, W!NoRequest, W!Parameters
<1>1. EntryTyped
  BY DEF EntryTyped, EntryKinds, EntryPlaces
<1>2. DOMAIN history = {} /\ W!Committed = {0}
  BY DEF W!Committed
<1>3. VersionsAreCommitted /\ StagedUnderLock /\ EditsAreKnown
  BY <1>2 DEF VersionsAreCommitted, StagedUnderLock, EditsAreKnown
<1>4. HistoryIsAChain /\ W!EditedOnce /\ W!AnswersAreTrue
  BY <1>2 DEF HistoryIsAChain, W!EditedOnce, W!AnswersAreTrue
<1>. QED BY <1>1, <1>3, <1>4 DEF EntryIInv

THEOREM EntryInvariance == ASSUME W!Parameters PROVE W!Spec => []EntryIInv
<1>1. EntryIInv /\ [W!Next]_(W!vars) => EntryIInv'
  BY EntryTypedStep, VersionsStep, StagedStep, EditsStep, ChainStep, EditedStep, AnswersStep DEF EntryIInv
<1>. QED BY <1>1, EntryInitially, PTL DEF W!Spec

(* workspace.py: an edit sent again after a lost answer takes effect once, *)
(* and an "ok" means that the latest edit was committed.                   *)
THEOREM EntriesMeant == ASSUME W!Parameters PROVE W!Spec => []W!AnswersAreMeant
<1>1. ASSUME EntryIInv PROVE W!TypeOK
  <2>1. \A w \in W!Committed : w \in Nat /\ w <= newest
    BY <1>1, CommittedTyped DEF EntryIInv, VersionsAreCommitted
  <2>2. shown \in [Browser -> 0..newest]
    BY <1>1, <2>1 DEF EntryIInv, EntryTyped, VersionsAreCommitted
  <2>3. result \in [Browser -> 0..newest]
    BY <1>1, <2>1 DEF EntryIInv, EntryTyped, VersionsAreCommitted
  <2>. QED BY <1>1, <2>1, <2>2, <2>3 DEF EntryIInv, EntryTyped, VersionsAreCommitted, StagedUnderLock, W!TypeOK, EntryPlaces
<1>2. EntryIInv => W!AnswersAreMeant
  BY <1>1 DEF EntryIInv, W!AnswersAreMeant
<1>. QED BY <1>2, EntryInvariance, PTL

---------------------------------------------------------------------------
(* The refinement of VersionedEntry.                                       *)
Newest == CHOOSE v \in W!Committed : \A w \in W!Committed : w <= v
Seen == [b \in Browser |-> W!Base(b)]
LastAuthor == IF history = <<>> THEN NoBrowser ELSE history[Len(history)].by

LEMMA NewestCommitted ==
  ASSUME VersionsAreCommitted
  PROVE  Newest \in W!Committed /\ \A w \in W!Committed : w <= Newest
  BY DEF VersionsAreCommitted, Newest

LEMMA BasesCommitted ==
  ASSUME VersionsAreCommitted, NEW b \in Browser
  PROVE  W!Base(b) \in W!Committed
  BY DEF VersionsAreCommitted, W!Base

LEMMA EntryStarts == ASSUME W!Init PROVE W!Entry!Init
<1>1. W!Committed = {0}
  BY DEF W!Init, W!Committed
<1>2. Newest = 0
  BY <1>1 DEF Newest
<1>3. Seen = [a \in Browser |-> 0]
  BY DEF W!Init, Seen, W!Base
<1>. QED BY <1>2, <1>3 DEF W!Init, W!Entry!Init, Newest, Seen

(* A step of a browser that commits nothing may change what it goes by, to *)
(* another committed version; a commit replaces or erases the version its  *)
(* edit is based on.                                                       *)
LEMMA EntryStep ==
  ASSUME W!Parameters, EntryIInv, EntryIInv', [W!Next]_(W!vars)
  PROVE  [W!Entry!Next]_(W!Entry!vars)
<1>0. /\ Newest \in W!Committed /\ \A w \in W!Committed : w <= Newest
      /\ W!Committed \subseteq Nat
  BY NewestCommitted, CommittedTyped DEF EntryIInv
<1>1. CASE UNCHANGED W!vars
  <2>1. UNCHANGED <<row, Newest, Seen, LastAuthor>>
    BY <1>1 DEF W!vars, W!database, W!browser, Newest, Seen, LastAuthor, W!Base, W!Committed
  <2>. QED BY <2>1 DEF W!Entry!vars, Newest, Seen, LastAuthor
<1>2. ASSUME NEW b \in Browser, W!Step(b), ~W!Commit(b) PROVE W!Entry!Look(b)
  <2>1. UNCHANGED <<row, history>>
    BY <1>2 DEF W!Step, W!Serve, W!database, W!Reload, W!SubmitAgain, W!Submit, W!Send, W!Put, W!Delete,
       W!Conflict, W!Respond, W!Drop
  <2>2. UNCHANGED <<Newest, LastAuthor, W!Committed>>
    BY <2>1 DEF Newest, LastAuthor, W!Committed
  <2>3. ASSUME NEW d \in Browser, d # b PROVE W!Base(d)' = W!Base(d)
    <3>1. /\ DOMAIN turn = Browser /\ DOMAIN answer = Browser
          /\ DOMAIN request = Browser /\ DOMAIN shown = Browser
      BY DEF EntryIInv, EntryTyped
    <3>2. UNCHANGED <<turn[d], answer[d], request[d], shown[d]>>
      BY <1>2, <2>3, <3>1 DEF W!Step, W!Serve, W!database, W!browser, W!Reload, W!SubmitAgain, W!Submit,
         W!Send, W!Put, W!Delete, W!Stage, W!Goto, W!Conflict, W!Respond, W!Drop
    <3>. QED BY <3>2 DEF W!Base
  <2>4. W!Base(b)' \in 0..Newest
    <3>1. W!Base(b)' \in W!Committed'
      BY BasesCommitted DEF EntryIInv, VersionsAreCommitted, W!Base
    <3>2. W!Base(b)' \in W!Committed
      BY <2>2, <3>1
    <3>. HIDE DEF Newest
    <3>3. Newest \in Nat /\ W!Base(b)' \in Nat /\ W!Base(b)' <= Newest
      BY <1>0, <3>2
    <3>. QED BY <3>3
  <2>5. Seen' = [Seen EXCEPT ![b] = W!Base(b)']
    BY <2>3 DEF Seen
  <2>. QED BY <2>1, <2>2, <2>4, <2>5 DEF W!Entry!Look, Newest, Seen, LastAuthor
<1>3. ASSUME NEW b \in Browser, W!Commit(b) PROVE W!Entry!Replace(b) \/ W!Entry!Erase(b)
  <2>0. EntryExtendedBy(b)
    BY <1>3, EntryExtended DEF EntryIInv
  <2>1. LastAuthor' = b
    BY <2>0 DEF EntryExtendedBy, LastAuthor
  <2>2. W!Base(b) = row /\ row' = result[b] /\ result[b] \in Nat
    BY <1>3 DEF W!Commit, W!Base, EntryIInv, EntryTyped, StagedUnderLock
  <2>3. UNCHANGED Seen
    <3>1. ASSUME NEW d \in Browser PROVE W!Base(d)' = W!Base(d)
      BY <1>3 DEF W!Commit, W!Goto, W!Base, W!browser, EntryIInv, EntryTyped
    <3>. QED BY <3>1 DEF Seen
  <2>4. W!Entry!Change(b)
    BY <2>1, <2>2, <2>3 DEF W!Entry!Change, Seen, LastAuthor
  <2>5. Newest' \in W!Committed' /\ \A w \in W!Committed' : w <= Newest'
    BY NewestCommitted DEF EntryIInv, VersionsAreCommitted, Newest
  <2>6. CASE request[b].kind = "put"
    <3>1. \A w \in W!Committed : w < result[b]
      BY <1>3, <2>6 DEF W!Commit, EntryIInv, StagedUnderLock
    <3>2. Newest' = result[b] /\ Newest < result[b]
      BY <1>0, <2>0, <2>2, <2>5, <3>1 DEF EntryExtendedBy
    <3>3. W!Entry!Replace(b)
      BY <2>2, <2>4, <3>2 DEF W!Entry!Replace, Newest
    <3>. QED BY <3>3
  <2>7. CASE request[b].kind = "delete"
    <3>1. result[b] = 0 /\ row # 0
      BY <1>3, <2>2, <2>7 DEF W!Commit, EntryIInv, StagedUnderLock
    <3>2. W!Committed' = W!Committed
      BY <2>0, <3>1 DEF EntryExtendedBy, W!Committed
    <3>3. UNCHANGED Newest
      BY <3>2 DEF Newest
    <3>. QED BY <2>2, <2>4, <3>1, <3>3 DEF W!Entry!Erase, Newest
  <2>. QED BY <1>3, <2>6, <2>7 DEF W!Commit, EntryIInv, EntryTyped, StagedUnderLock, EntryKinds
<1>. QED BY <1>1, <1>2, <1>3 DEF W!Next, W!Entry!Next

(* The records of workspace.py are versioned entries: nobody overwrites or *)
(* deletes what the author of the edit was not shown.                      *)
THEOREM EntryRefinement == ASSUME W!Parameters PROVE W!Spec => W!EntrySpec
<1>1. W!Init => W!Entry!Init
  BY EntryStarts
<1>2. EntryIInv /\ EntryIInv' /\ [W!Next]_(W!vars) => [W!Entry!Next]_(W!Entry!vars)
  BY EntryStep
<1>. QED BY <1>1, <1>2, EntryInvariance, PTL DEF W!Spec, W!EntrySpec, W!Entry!Spec

---------------------------------------------------------------------------
(* Writers.                                                                *)

(* Each machine of Writers behaves as if it were alone: what holds of it   *)
(* alone holds of it beside the others.                                    *)
THEOREM Alone == WritersSpec => Spec /\ D!Spec /\ W!Spec
<1>1. WritersInit => Init /\ D!Init /\ W!Init
  BY DEF WritersInit
<1>2. [WritersNext]_<<part, vars, session, entry>> => [Next]_vars
  BY DEF WritersNext
<1>3. [WritersNext]_<<part, vars, session, entry>> => [D!Next]_(D!vars)
  <2>1. UNCHANGED session => UNCHANGED D!vars
    BY DEF session, D!vars, D!net, D!clock, D!task, D!fate
  <2>. QED BY <2>1 DEF WritersNext
<1>4. [WritersNext]_<<part, vars, session, entry>> => [W!Next]_(W!vars)
  <2>1. UNCHANGED entry => UNCHANGED W!vars
    BY DEF entry, W!vars, W!database, W!browser
  <2>. QED BY <2>1 DEF WritersNext
<1>. QED BY <1>1, <1>2, <1>3, <1>4, PTL DEF WritersSpec, Spec, D!Spec, W!Spec

(* What a session leaves behind and says at its end (deadlines.py), beside *)
(* the lock and the entries: nothing outlives its owner, no cancellation   *)
(* is swallowed, and a deadline bounds every cleanup.                      *)
THEOREM CleanEnd == WritersSpec => []EndsCleanly
<1>1. SessionInv /\ [D!Next]_(D!vars) => SessionInv'
  BY SessionStep, SessionRests
<1>. QED BY <1>1, SessionStarts, SessionMeans, Alone, PTL DEF D!Spec

(* Workspace beside the lock: an edit takes effect once, and an editor     *)
(* that is told "ok" had it committed.                                     *)
THEOREM Meant == WritersSpec => []AnswersAreMeant
  BY EntriesMeant, EntryParameters, Alone, PTL DEF AnswersAreMeant

(* Workspace beside the lock: nobody replaces or erases a version of an    *)
(* entry that the author of the edit was not shown.                        *)
THEOREM Versioned == WritersSpec => EntrySpec
  BY EntryRefinement, EntryParameters, Alone, PTL DEF EntrySpec
=============================================================================
