-------------------------- MODULE Automation_proofs --------------------------
(***************************************************************************)
(* No scheduled run repeats a period, and none runs beside a receipt       *)
(* nobody reviewed, for any number of invocations, kinds and days; and     *)
(* what is proved of GitHubClient holds beside the schedule.               *)
(***************************************************************************)
EXTENDS Unattended, FiniteSetTheorems, TLAPS

(* A commit on its way belongs to the holder of the lock, alive or gone.   *)
InFlight ==
  /\ inflight = "create" =>
       /\ holder \in Proc /\ pc[holder] \in {"creating", "gone"}
       /\ entry \in Receipt /\ entry.by = holder
  /\ inflight = "close" => holder \in Proc /\ pc[holder] \in {"closing", "gone"}

(* No receipt of kind k is of the period of day d or a later one.          *)
NoneSince(k, d) ==
  \A i \in 1..Len(receipts) :
    Kind[receipts[i].by] = k => receipts[i].day < PeriodStart(k, d)

(* What a scheduled run found in its period is still so when its receipt   *)
(* is made, and when that receipt is committed.                            *)
StillDue ==
  /\ \A p \in Scheduled :
       holder = p /\ pc[p] = "collect" => NoneSince(Kind[p], day)
  /\ inflight = "create" /\ entry.by \in Scheduled =>
       NoneSince(Kind[entry.by], entry.day)

IInv == TypeOK /\ InFlight /\ StillDue /\ NoAutomaticRetry /\ RunsOnReviewedState

---------------------------------------------------------------------------
(* A period begins no later than its days, and periods follow the days.    *)
LEMMA Periods ==
  ASSUME NEW k, NEW d \in Nat, NEW e \in Nat, d <= e
  PROVE  /\ PeriodStart(k, d) \in Int
         /\ PeriodStart(k, d) <= d
         /\ PeriodStart(k, d) <= PeriodStart(k, e)
  BY SMT DEF PeriodStart

(* The days of receipts are natural numbers.                               *)
LEMMA ReceiptDays ==
  /\ \A r \in Receipt : r.day \in Nat
  /\ TypeOK => \A i \in 1..Len(receipts) : receipts[i] \in Receipt
<1>1. ASSUME NEW r \in Receipt PROVE r.day \in Nat
  <2>1. r.day \in FirstDay..LastDay
    BY DEF Receipt
  <2>. QED BY <2>1, AutomationAssumption
<1>2. ASSUME TypeOK, NEW i \in 1..Len(receipts) PROVE receipts[i] \in Receipt
  BY <1>2 DEF TypeOK
<1>. QED BY <1>1, <1>2

(* Every variable keeps to its type.                                       *)
LEMMA TypeStep == ASSUME IInv, [Next]_vars PROVE TypeOK'
<1>. USE AutomationAssumption DEF IInv, TypeOK
<1>1. CASE Tick
  BY <1>1 DEF Tick, database
<1>2. CASE CommitCreate
  BY <1>2 DEF CommitCreate, InFlight, NothingInFlight, Receipt
<1>3. CASE CommitClose
  BY <1>3 DEF CommitClose, NothingInFlight
<1>4. ASSUME NEW p \in Proc, Step(p) PROVE TypeOK'
  <2>. USE DEF Goto, Leave, NothingInFlight, database, Places
  <2>1. CASE Launch(p)
    BY <2>1 DEF Launch
  <2>2. CASE Create(p)
    BY <2>2 DEF Create, Receipt
  <2>3. CASE Step(p) /\ ~Launch(p) /\ ~Create(p)
    <3>1. UNCHANGED <<day, receipts, open, acks>>
      BY <2>3 DEF Step, TakeLock, LockHeld, Blocked, Reviewed, Skipped, Due, Created, Close, Closed, Fails, Abandon, EndBackend
    <3>2. holder' \in {holder, p, NoProc} /\ inflight' \in {inflight, "close", "none"}
          /\ entry' \in {entry, NoEntry}
      BY <2>3 DEF Step, TakeLock, LockHeld, Blocked, Reviewed, Skipped, Due, Created, Close, Closed, Fails, Abandon, EndBackend
    <3>3. pc' = pc \/ \E l \in Places : pc' = [pc EXCEPT ![p] = l]
      BY <2>3 DEF Step, TakeLock, LockHeld, Blocked, Reviewed, Skipped, Due, Created, Close, Closed, Fails, Abandon, EndBackend
    <3>4. pc' \in [Proc -> Places]
      BY <3>3
    <3>. QED BY <3>1, <3>2, <3>4
  <2>. QED BY <1>4, <2>1, <2>2, <2>3
<1>5. CASE UNCHANGED vars
  BY <1>5 DEF vars
<1>. QED BY <1>1, <1>2, <1>3, <1>4, <1>5 DEF Next

(* A commit is put on its way, and called off, only under the lock.        *)
LEMMA FlightStep == ASSUME IInv, [Next]_vars PROVE InFlight'
<1>. USE AutomationAssumption DEF IInv, TypeOK, InFlight, Receipt, NothingInFlight, database
<1>1. CASE Tick \/ CommitCreate \/ CommitClose \/ UNCHANGED vars
  BY <1>1 DEF Tick, CommitCreate, CommitClose, vars
<1>2. ASSUME NEW p \in Proc, Step(p) PROVE InFlight'
  <2>. USE DEF Goto, Leave
  <2>1. CASE Launch(p) \/ TakeLock(p) \/ LockHeld(p)
    BY <2>1 DEF Launch, TakeLock, LockHeld
  <2>2. CASE Blocked(p) \/ Reviewed(p) \/ Skipped(p) \/ Due(p) \/ Created(p) \/ Closed(p)
    BY <2>2 DEF Blocked, Reviewed, Skipped, Due, Created, Closed
  <2>3. CASE Create(p)
    BY <2>3 DEF Create
  <2>4. CASE Close(p)
    BY <2>4 DEF Close
  <2>5. CASE Fails(p) \/ EndBackend(p)
    BY <2>5 DEF Fails, EndBackend
  <2>6. CASE Abandon(p)
    BY <2>6 DEF Abandon
  <2>. QED BY <1>2, <2>1, <2>2, <2>3, <2>4, <2>5, <2>6 DEF Step
<1>. QED BY <1>1, <1>2 DEF Next

(* Only the commit of the holder's own receipt could end "still due", and  *)
(* while it is on its way nobody else holds the lock; the clock moves on,  *)
(* which can only put the receipts there are further into the past.        *)
LEMMA DueStep == ASSUME IInv, [Next]_vars PROVE StillDue'
<1>. USE AutomationAssumption DEF IInv, TypeOK, InFlight, StillDue, Receipt, NothingInFlight, database
<1>1. CASE Tick
  <2>1. day \in Nat /\ day' = day + 1 /\ day' \in Nat /\ receipts' = receipts
    BY <1>1 DEF Tick
  <2>2. ASSUME NEW k, NoneSince(k, day) PROVE NoneSince(k, day)'
    <3>1. PeriodStart(k, day) <= PeriodStart(k, day') /\ PeriodStart(k, day) \in Int
          /\ PeriodStart(k, day') \in Int
      BY <2>1, Periods
    <3>2. \A i \in 1..Len(receipts) : receipts[i].day \in Int
      BY ReceiptDays
    <3>. QED BY <2>1, <2>2, <3>1, <3>2 DEF NoneSince
  <2>. QED BY <1>1, <2>2 DEF Tick, NoneSince
<1>2. CASE CommitCreate
  BY <1>2 DEF CommitCreate, NoneSince
<1>3. CASE CommitClose \/ UNCHANGED vars
  BY <1>3 DEF CommitClose, vars, NoneSince
<1>4. ASSUME NEW p \in Proc, Step(p) PROVE StillDue'
  <2>. USE DEF Goto, Leave
  <2>1. UNCHANGED <<day, receipts>>
    BY <1>4 DEF Step, Launch, TakeLock, LockHeld, Blocked, Reviewed, Skipped,
       Due, Create, Created, Close, Closed, Fails, Abandon, EndBackend
  <2>2. CASE Due(p)
    <3>1. ASSUME NEW i \in 1..Len(receipts), Kind[receipts[i].by] = Kind[p]
          PROVE  receipts[i].day < PeriodStart(Kind[p], day)
      <4>1. receipts[i].day \in Nat /\ day \in Nat
        BY ReceiptDays
      <4>2. PeriodStart(Kind[p], day) \in Int
        BY <4>1, Periods, SMTT(20)
      <4>3. ~(receipts[i].day >= PeriodStart(Kind[p], day))
        BY <2>2, <3>1 DEF Due, Attempted
      <4>. QED BY <4>1, <4>2, <4>3
    <3>2. NoneSince(Kind[p], day)
      BY <3>1 DEF NoneSince
    <3>. QED BY <2>1, <2>2, <3>2 DEF Due, NoneSince
  <2>3. CASE Create(p)
    BY <2>1, <2>3 DEF Create, NoneSince
  <2>4. CASE TakeLock(p)
    BY <2>1, <2>4 DEF TakeLock, NoneSince
  <2>5. CASE Launch(p) \/ LockHeld(p) \/ Blocked(p) \/ Reviewed(p) \/ Skipped(p)
             \/ Created(p) \/ Close(p) \/ Closed(p) \/ Fails(p)
             \/ Abandon(p) \/ EndBackend(p)
    BY <2>1, <2>5 DEF Launch, LockHeld, Blocked, Reviewed, Skipped, Created,
       Close, Closed, Fails, Abandon, EndBackend, NoneSince
  <2>. QED BY <1>4, <2>2, <2>3, <2>4, <2>5 DEF Step
<1>. QED BY <1>1, <1>2, <1>3, <1>4 DEF Next

(* The receipts change only when one is committed, and then it is the only *)
(* one of its period so far.                                               *)
LEMMA HistoryStep == ASSUME IInv, [Next]_vars PROVE NoAutomaticRetry'
<1>. USE AutomationAssumption DEF IInv, TypeOK, InFlight, StillDue, NothingInFlight, database
<1>1. CASE CommitCreate
  <2>1. receipts' = Append(receipts, entry) /\ entry \in Receipt
    BY <1>1 DEF CommitCreate
  <2>2. Len(receipts') = Len(receipts) + 1 /\ receipts'[Len(receipts) + 1] = entry
        /\ \A i \in 1..Len(receipts) : receipts'[i] = receipts[i]
    BY <2>1
  <2>3. SUFFICES ASSUME NEW i \in 1..Len(receipts'), NEW j \in 1..Len(receipts'), i < j,
                        receipts'[j].by \in Scheduled,
                        Kind[receipts'[i].by] = Kind[receipts'[j].by]
                 PROVE  Period(i)' < Period(j)'
    BY DEF NoAutomaticRetry
  <2>4. CASE j \in 1..Len(receipts)
    BY <2>2, <2>3, <2>4 DEF NoAutomaticRetry, Period
  <2>5. CASE j = Len(receipts) + 1
    <3>1. i \in 1..Len(receipts) /\ receipts'[i] = receipts[i] /\ receipts'[j] = entry
      BY <2>2, <2>3, <2>5
    <3>2. receipts[i].day < PeriodStart(Kind[entry.by], entry.day)
      BY <1>1, <2>3, <3>1 DEF CommitCreate, NoneSince
    <3>3. receipts[i].day \in Nat /\ entry.day \in Nat
      BY <2>1, <3>1, ReceiptDays
    <3>4. /\ PeriodStart(Kind[receipts[i].by], receipts[i].day) <= receipts[i].day
          /\ PeriodStart(Kind[receipts[i].by], receipts[i].day) \in Int
          /\ PeriodStart(Kind[entry.by], entry.day) \in Int
      BY <3>3, Periods
    <3>. QED BY <3>1, <3>2, <3>3, <3>4 DEF Period
  <2>6. j \in 1..Len(receipts) \/ j = Len(receipts) + 1
    <3>1. Len(receipts) \in Nat
      OBVIOUS
    <3>2. j \in 1..(Len(receipts) + 1)
      BY ONLY <2>2, <2>3
    <3>. QED BY ONLY <3>1, <3>2
  <2>. QED BY ONLY <2>4, <2>5, <2>6
<1>2. CASE receipts' = receipts
  BY <1>2 DEF NoAutomaticRetry, Period
<1>3. CASE ~CommitCreate
  BY <1>2, <1>3 DEF Next, Step, Tick, CommitClose, Launch, TakeLock, LockHeld,
     Blocked, Reviewed, Skipped, Due, Create, Created, Close, Closed, Fails,
     Abandon, EndBackend, vars
<1>. QED BY <1>1, <1>3

(* The unfinished receipts only become more by the holder's own.           *)
LEMMA ReviewStep == ASSUME IInv, [Next]_vars PROVE RunsOnReviewedState'
<1>. USE AutomationAssumption DEF IInv, TypeOK, InFlight, RunsOnReviewedState, NothingInFlight, database
<1>1. CASE Tick \/ CommitCreate \/ CommitClose \/ UNCHANGED vars
  BY <1>1 DEF Tick, CommitCreate, CommitClose, vars
<1>2. ASSUME NEW p \in Proc, Step(p) PROVE RunsOnReviewedState'
  <2>. USE DEF Goto, Leave
  <2>1. CASE Reviewed(p)
    BY <2>1 DEF Reviewed, Unreviewed
  <2>2. CASE Launch(p) \/ TakeLock(p) \/ LockHeld(p)
    BY <2>2 DEF Launch, TakeLock, LockHeld
  <2>3. CASE Due(p) \/ Create(p) \/ Created(p) \/ Close(p) \/ Abandon(p)
    BY <2>3 DEF Due, Create, Created, Close, Abandon
  <2>4. CASE Blocked(p) \/ Skipped(p) \/ Closed(p) \/ Fails(p) \/ EndBackend(p)
    BY <2>4 DEF Blocked, Skipped, Closed, Fails, EndBackend
  <2>. QED BY <1>2, <2>1, <2>2, <2>3, <2>4 DEF Step
<1>. QED BY <1>1, <1>2 DEF Next

---------------------------------------------------------------------------
(* With no receipts and no lock there is nothing to contradict.            *)
LEMMA Initially == Init => IInv
  BY AutomationAssumption DEF Init, IInv, TypeOK, InFlight, StillDue, NoneSince,
     NoAutomaticRetry, RunsOnReviewedState, Places

(* The inductive invariant holds in every reachable state.                 *)
THEOREM Invariance == Spec => []IInv
<1>1. IInv /\ [Next]_vars => IInv'
  BY TypeStep, FlightStep, DueStep, HistoryStep, ReviewStep DEF IInv
<1>. QED BY Initially, <1>1, PTL DEF Spec

(* The clock, the receipts and the lock keep to their types.               *)
THEOREM TypeCorrect == Spec => []TypeOK
  BY Invariance, PTL DEF IInv

(* A scheduled run never repeats what was attempted in its period.         *)
THEOREM NoRetry == Spec => []NoAutomaticRetry
  BY Invariance, PTL DEF IInv

(* A scheduled run proceeds only beside receipts that were acknowledged.   *)
THEOREM Reviewable == Spec => []RunsOnReviewedState
  BY Invariance, PTL DEF IInv

---------------------------------------------------------------------------
(* GitHubClient.  The request budget and the pause threshold hold for any  *)
(* number of clients, any caps, retries, thresholds and quotas.            *)
(*                                                                         *)
(* The instance counts as the library does.                                *)
LEMMA SameSets ==
  \A S : (G!IsFiniteSet(S) <=> IsFiniteSet(S)) /\ G!Cardinality(S) = Cardinality(S)
  BY DEF G!IsFiniteSet, IsFiniteSet, G!Cardinality, Cardinality

(* A response waits only for a client that has an attempt under way, an    *)
(* attempt is under way only for a request, and only while one is left.    *)
AnswersAreAwaited ==
  \A c \in Client :
    /\ answer[c] # G!NoAnswer => at[c] = "flight"
    /\ at[c] # "idle" => request[c] \in ClientKind
    /\ at[c] \in {"reserve", "flight"} => attempt[c] < G!Attempts

(* A picture of a resource is of a window that was, and if that window     *)
(* still lasts GitHub has since lost no more than the attempts it served.  *)
Honest(r, picture) ==
  /\ picture.window <= window[r]
  /\ picture.window = window[r] =>
       picture.remaining <= quota[r] + (served[r] - picture.seen)

PicturesAreHonest ==
  \A c \in Client :
    /\ \A r \in G!Resource : Honest(r, known[c][r])
    /\ answer[c] # G!NoAnswer => Honest(G!Resources(c), answer[c])

(* What let a client charge its attempt is still so when GitHub serves it. *)
AboveThreshold ==
  \A c \in Client :
    LET r == G!Resources(c)
    IN at[c] \in {"reserve", "flight"} /\ known[c][r].window = window[r]
         => known[c][r].remaining > Threshold[r]

Picture == [remaining : -1..Quota, window : 0..MaxWindow, seen : Nat]
Answer == [status : G!Statuses, remaining : 0..Quota, window : 1..MaxWindow, seen : Nat]
Numbers(picture) ==
  picture.remaining \in Int /\ picture.window \in Int /\ picture.seen \in Int
ClientsPlaces == {"idle", "check", "reserve", "flight", "closed"}

ClientsIInv == G!TypeOK /\ G!CapsHold /\ AnswersAreAwaited /\ PicturesAreHonest /\ AboveThreshold

---------------------------------------------------------------------------
(* The library's Max of two numbers is one of them and no less than both.  *)
LEMMA MaxOfTwo ==
  ASSUME NEW a \in Int, NEW b \in Int
  PROVE  G!Max({a, b}) \in {a, b} /\ G!Max({a, b}) >= a /\ G!Max({a, b}) >= b
<1>. DEFINE Top(x) == x \in {a, b} /\ \A y \in {a, b} : x >= y
<1>1. \E x : Top(x)
  <2>1. CASE a >= b
    BY <2>1
  <2>2. CASE b >= a
    BY <2>2
  <2>. QED BY <2>1, <2>2
<1>2. Top(CHOOSE x : Top(x))
  BY <1>1
<1>3. G!Max({a, b}) = CHOOSE x \in {a, b} : \A y \in {a, b} : x >= y
  BY DEF G!Max
<1>. QED BY <1>2, <1>3

(* What is left after one more attempt.                                    *)
LEMMA LessOne ==
  ASSUME NEW n \in Nat, NEW q \in 0..n
  PROVE  /\ G!Max({0, q - 1}) \in 0..n
         /\ G!Max({0, q - 1}) + 1 >= q
<1>1. PICK p \in Int : p = q - 1
  OBVIOUS
<1>2. G!Max({0, p}) \in {0, p} /\ G!Max({0, p}) >= 0 /\ G!Max({0, p}) >= p
  BY MaxOfTwo
<1>3. G!Max({0, p}) \in 0..n /\ G!Max({0, p}) + 1 >= q
  BY <1>1, <1>2
<1>. QED BY <1>1, <1>3

(* A request may be tried at least once.                                   *)
LEMMA AttemptsTyped == ASSUME G!Parameters PROVE G!Attempts \in Nat \ {0}
<1>1. Retries \in Nat
  BY DEF G!Parameters
<1>2. G!Attempts \in {1, Retries} /\ G!Attempts >= 1
  BY <1>1, MaxOfTwo DEF G!Attempts
<1>. QED BY <1>1, <1>2

LEMMA ResourceTyped == \A k : G!ResourceOf(k) \in G!Resource
  BY DEF G!ResourceOf, G!Resource

LEMMA ClientsInitially == ASSUME G!Parameters PROVE G!Init => ClientsIInv
<1>. SUFFICES ASSUME G!Init PROVE ClientsIInv
  OBVIOUS
<1>. USE DEF G!Init
<1>1. G!TypeOK
  BY AttemptsTyped DEF G!Parameters, G!TypeOK, G!Unknown, G!Resource
<1>2. G!CapsHold
  <2>. SUFFICES ASSUME NEW s \in DOMAIN Limit PROVE used[s] = sent[s] + unsent[s] + G!Cardinality(G!Held(s)) /\ used[s] <= Limit[s]
    BY DEF G!CapsHold
  <2>1. G!Held(s) = {}
    BY DEF G!Held
  <2>. QED BY <2>1, FS_EmptySet, SameSets DEF G!Parameters
<1>3. AnswersAreAwaited /\ PicturesAreHonest /\ AboveThreshold
  BY ResourceTyped DEF AnswersAreAwaited, PicturesAreHonest, AboveThreshold, Honest, G!Unknown, G!Resource, G!Resources
<1>. QED BY <1>1, <1>2, <1>3 DEF ClientsIInv

---------------------------------------------------------------------------
LEMMA ClientsTypeStep == ASSUME G!Parameters, ClientsIInv, [G!Next]_(G!vars) PROVE G!TypeOK'
<1>0. Quota \in Nat /\ MaxWindow \in Nat \ {0} /\ G!Attempts \in Nat \ {0}
  BY AttemptsTyped DEF G!Parameters
<1>. USE <1>0, ResourceTyped DEF ClientsIInv, G!TypeOK
<1>1. CASE UNCHANGED G!vars
  BY <1>1 DEF G!vars, G!budget, G!github
<1>2. ASSUME NEW r \in G!Resource, G!NextWindow(r) PROVE G!TypeOK'
  <2>1. window' \in [G!Resource -> 1..MaxWindow] 
    BY <1>2 DEF G!NextWindow
  <2>2. quota' \in [G!Resource -> 0..Quota]
    BY <1>2 DEF G!NextWindow
  <2>3. served' \in [G!Resource -> Nat]
    BY <1>2 DEF G!NextWindow
  <2>4. UNCHANGED <<used, sent, unsent, known, request, attempt, at, answer, result, failure>>
    BY <1>2 DEF G!NextWindow, G!budget
  <2>. QED BY <2>1, <2>2, <2>3, <2>4
<1>3. ASSUME NEW c \in Client, G!Step(c) PROVE G!TypeOK'
  <2>1. ASSUME NEW k \in ClientKind, G!Request(c, k) PROVE G!TypeOK'
    BY <2>1 DEF G!Request, G!budget, G!github
  <2>2. ASSUME NEW how, G!End(c, how), UNCHANGED <<G!budget, known, request, answer, G!github>>,
               how \in {"ok", "limited", "failed", "budget", "database", "network"}
        PROVE  G!TypeOK'
    <3>1. attempt' \in [Client -> 0..G!Attempts]
      BY <2>2 DEF G!End
    <3>2. at' \in [Client -> ClientsPlaces]
      BY <2>2 DEF G!End, ClientsPlaces
    <3>3. result' \in [Client -> {"none", "ok", "limited", "failed", "budget", "database", "network"}]
      BY <2>2 DEF G!End
    <3>. QED BY <2>2, <3>1, <3>2, <3>3 DEF ClientsPlaces, G!budget, G!github
  <2>3. CASE G!Pause(c) \/ G!Refuse(c) \/ G!GiveUp(c)
    BY <2>2, <2>3 DEF G!Pause, G!Refuse, G!GiveUp
  <2>4. CASE G!Consume(c)
    <3>1. used' \in [DOMAIN Limit -> Nat]
      BY <2>4 DEF G!Consume, G!CountIn
    <3>. QED BY <2>4, <3>1 DEF G!Consume, G!github
  <2>5. CASE G!ReserveFails(c)
    <3>1. unsent' \in [DOMAIN Limit -> Nat]
      BY <2>5 DEF G!ReserveFails, G!CountIn
    <3>2. /\ attempt' \in [Client -> 0..G!Attempts]
          /\ at' \in [Client -> ClientsPlaces]
          /\ result' \in [Client -> {"none", "ok", "limited", "failed", "budget", "database", "network"}]
      <4>1. CASE G!End(c, "database")
        BY <4>1 DEF G!End, ClientsPlaces
      <4>2. CASE at' = [at EXCEPT ![c] = "closed"] /\ UNCHANGED <<attempt, result>>
        BY <4>2 DEF ClientsPlaces
      <4>. QED BY <2>5, <4>1, <4>2 DEF G!ReserveFails
    <3>3. UNCHANGED <<used, sent, known, request, answer, window, quota, served>>
      BY <2>5 DEF G!ReserveFails, G!github
    <3>. QED BY <3>1, <3>2, <3>3 DEF ClientsPlaces
  <2>6. CASE G!Send(c)
    <3>1. sent' \in [DOMAIN Limit -> Nat]
      BY <2>6 DEF G!Send, G!CountIn
    <3>. QED BY <2>6, <3>1 DEF G!Send, G!github
  <2>7. CASE G!Serve(c)
    <3>. DEFINE r == G!Resources(c)
    <3>0. r \in G!Resource
      BY DEF G!Resources
    <3>1. G!Max({0, quota[r] - 1}) \in 0..Quota
      BY <3>0, LessOne
    <3>2. quota' \in [G!Resource -> 0..Quota] /\ quota'[r] \in 0..Quota
      BY <2>7, <3>0, <3>1 DEF G!Serve
    <3>3. served' \in [G!Resource -> Nat] /\ served'[r] \in Nat
      BY <2>7, <3>0 DEF G!Serve
    <3>4. PICK status \in G!Statuses :
            answer' = [answer EXCEPT ![c] = [status |-> status, remaining |-> quota'[r],
                                             window |-> window[r], seen |-> served'[r]]]
      BY <2>7 DEF G!Serve, G!Statuses
    <3>5. answer' \in [Client -> {G!NoAnswer} \cup Answer]
      BY <3>0, <3>2, <3>3, <3>4 DEF Answer
    <3>6. UNCHANGED <<used, sent, unsent, known, request, attempt, at, result, window, failure>>
      BY <2>7 DEF G!Serve, G!budget
    <3>. QED BY <3>2, <3>3, <3>5, <3>6 DEF Answer
  <2>8. ASSUME NEW why, G!TryAgain(c, why), attempt[c] < G!Attempts
        PROVE  /\ attempt' \in [Client -> 0..G!Attempts]
               /\ at' \in [Client -> ClientsPlaces]
               /\ UNCHANGED result
    BY <2>8 DEF G!TryAgain, ClientsPlaces
  <2>9. CASE G!Lose(c)
    <3>1. answer' \in [Client -> {G!NoAnswer} \cup Answer]
      BY <2>9 DEF G!Lose, Answer
    <3>2. attempt[c] < G!Attempts
      BY <2>9 DEF G!Lose, AnswersAreAwaited
    <3>3. /\ attempt' \in [Client -> 0..G!Attempts]
          /\ at' \in [Client -> ClientsPlaces]
          /\ UNCHANGED result
      BY <2>8, <2>9, <3>2 DEF G!Lose
    <3>. QED BY <2>9, <3>1, <3>3 DEF G!Lose, Answer, ClientsPlaces, G!budget, G!github
  <2>10. CASE G!Receive(c)
    <3>0. answer[c] \in Answer /\ G!Resources(c) \in G!Resource
      BY <2>10 DEF G!Receive, Answer, G!Resources
    <3>1. answer' \in [Client -> {G!NoAnswer} \cup Answer]
      BY <2>10 DEF G!Receive, Answer
    <3>2. known' \in [Client -> [G!Resource -> Picture]]
      <4>. DEFINE heard == [remaining |-> answer[c].remaining, window |-> answer[c].window,
                            seen |-> answer[c].seen]
      <4>1. heard \in Picture
        BY <3>0 DEF Answer, Picture
      <4>2. known \in [Client -> [G!Resource -> Picture]]
        BY DEF Picture
      <4>3. known' = known \/ known' = [known EXCEPT ![c][G!Resources(c)] = heard]
        BY <2>10 DEF G!Receive, G!Record
      <4>. HIDE DEF heard
      <4>4. [known[c] EXCEPT ![G!Resources(c)] = heard] \in [G!Resource -> Picture]
        BY <3>0, <4>1, <4>2
      <4>. HIDE DEF ClientsIInv, G!TypeOK
      <4>. QED BY <4>2, <4>3, <4>4
    <3>3. /\ attempt' \in [Client -> 0..G!Attempts]
          /\ at' \in [Client -> ClientsPlaces]
          /\ result' \in [Client -> {"none", "ok", "limited", "failed", "budget", "database", "network"}]
      <4>1. CASE G!End(c, answer[c].status) /\ answer[c].status \in {"ok", "limited", "failed"}
        BY <4>1 DEF G!End, ClientsPlaces
      <4>2. CASE G!TryAgain(c, answer[c].status)
        <5>1. attempt[c] < G!Attempts
          BY <2>10 DEF G!Receive, AnswersAreAwaited
        <5>. QED BY <2>8, <4>2, <5>1
      <4>. QED BY <2>10, <4>1, <4>2 DEF G!Receive
    <3>4. UNCHANGED <<used, sent, unsent, request, window, quota, served>>
      BY <2>10 DEF G!Receive, G!budget, G!github
    <3>. QED BY <3>1, <3>2, <3>3, <3>4 DEF Picture, Answer, ClientsPlaces
  <2>. QED BY <1>3, <2>1, <2>3, <2>4, <2>5, <2>6, <2>7, <2>9, <2>10 DEF G!Step
<1>. QED BY <1>1, <1>2, <1>3 DEF G!Next

(* Each place that matters to the answers and the attempts.                *)
LEMMA AwaitedStep == ASSUME G!Parameters, ClientsIInv, [G!Next]_(G!vars) PROVE AnswersAreAwaited'
<1>. USE DEF ClientsIInv, G!TypeOK, AnswersAreAwaited
<1>0. G!Attempts \in Nat \ {0}
  BY AttemptsTyped
<1>1. CASE UNCHANGED G!vars \/ \E r \in G!Resource : G!NextWindow(r)
  BY <1>1 DEF G!vars, G!NextWindow
<1>2. ASSUME NEW c \in Client, G!Step(c) PROVE AnswersAreAwaited'
  <2>1. CASE \E k \in ClientKind : G!Request(c, k)
    BY <2>1 DEF G!Request
  <2>2. CASE G!Pause(c) \/ G!Refuse(c) \/ G!GiveUp(c)
    BY <2>2 DEF G!Pause, G!Refuse, G!GiveUp, G!End, G!Trying
  <2>3. CASE G!Consume(c)
    BY <2>3 DEF G!Consume, G!Trying
  <2>4. CASE G!ReserveFails(c) \/ G!Send(c)
    BY <2>4 DEF G!ReserveFails, G!Send, G!End
  <2>5. CASE G!Serve(c)
    <3>1. UNCHANGED <<request, attempt, at>> /\ at[c] = "flight"
      BY <2>5 DEF G!Serve
    <3>2. \A d \in Client \ {c} : answer'[d] = answer[d]
      BY <2>5 DEF G!Serve
    <3>. QED BY <3>1, <3>2
  <2>6. CASE G!Lose(c)
    BY <1>0, <2>6 DEF G!Lose, G!TryAgain
  <2>7. CASE G!Receive(c)
    <3>1. UNCHANGED request /\ answer' = [answer EXCEPT ![c] = G!NoAnswer]
      BY <2>7 DEF G!Receive
    <3>2. at' = [at EXCEPT ![c] = "idle"] \/ at' = [at EXCEPT ![c] = "check"]
      BY <2>7 DEF G!Receive, G!End, G!TryAgain
    <3>3. \A d \in Client \ {c} : attempt'[d] = attempt[d]
      BY <2>7 DEF G!Receive, G!End, G!TryAgain
    <3>4. request[c] \in ClientKind
      BY <2>7 DEF G!Receive
    <3>. QED BY <3>1, <3>2, <3>3, <3>4
  <2>. QED BY <1>2, <2>1, <2>2, <2>3, <2>4, <2>5, <2>6, <2>7 DEF G!Step
<1>. QED BY <1>1, <1>2 DEF G!Next

(* A charge makes its client a holder in each of its scopes; sending makes *)
(* it one no more, and counts the attempt; nothing else moves either.      *)
LEMMA CapsStep == ASSUME G!Parameters, ClientsIInv, [G!Next]_(G!vars) PROVE G!CapsHold'
<1>. SUFFICES ASSUME NEW s \in DOMAIN Limit
              PROVE  used'[s] = sent'[s] + unsent'[s] + G!Cardinality(G!Held(s)') /\ used'[s] <= Limit[s]
  BY DEF G!CapsHold
<1>0. /\ used[s] = sent[s] + unsent[s] + G!Cardinality(G!Held(s)) /\ used[s] <= Limit[s]
      /\ used[s] \in Nat /\ sent[s] \in Nat /\ unsent[s] \in Nat /\ Limit[s] \in Nat
      /\ at \in [Client -> ClientsPlaces] /\ request \in [Client -> ClientKind \cup {"none"}]
      /\ DOMAIN used = DOMAIN Limit /\ DOMAIN sent = DOMAIN Limit /\ DOMAIN unsent = DOMAIN Limit
  BY DEF ClientsIInv, G!CapsHold, G!TypeOK, G!Parameters, ClientsPlaces
<1>1. G!IsFiniteSet(G!Held(s)) /\ G!Cardinality(G!Held(s)) \in Nat
  BY FS_Subset, FS_CardinalityType, SameSets DEF G!Held, G!Parameters
<1>. USE <1>0
<1>2. CASE UNCHANGED G!vars \/ \E r \in G!Resource : G!NextWindow(r)
  BY <1>2 DEF G!vars, G!NextWindow, G!budget, G!Held
<1>3. ASSUME NEW c \in Client, G!Step(c)
      PROVE  used'[s] = sent'[s] + unsent'[s] + G!Cardinality(G!Held(s)') /\ used'[s] <= Limit[s]
  <2>1. ASSUME UNCHANGED <<G!budget, at, request>>
        PROVE  used'[s] = sent'[s] + unsent'[s] + G!Cardinality(G!Held(s)') /\ used'[s] <= Limit[s]
    BY <2>1 DEF G!Held, G!budget
  <2>2. ASSUME UNCHANGED G!budget, at[c] # "reserve",
               NEW l \in {"idle", "check"}, at' = [at EXCEPT ![c] = l],
               request' = request \/ \E k \in ClientKind : request' = [request EXCEPT ![c] = k]
        PROVE  used'[s] = sent'[s] + unsent'[s] + G!Cardinality(G!Held(s)') /\ used'[s] <= Limit[s]
    <3>1. G!Held(s)' = G!Held(s)
      BY <2>2 DEF G!Held
    <3>. QED BY <2>2, <3>1 DEF G!budget
  <2>3. CASE \E k \in ClientKind : G!Request(c, k)
    BY <2>2, <2>3 DEF G!Request
  <2>4. CASE G!Pause(c) \/ G!Refuse(c) \/ G!GiveUp(c)
    BY <2>2, <2>4 DEF G!Pause, G!Refuse, G!GiveUp, G!End, G!Trying
  <2>5. CASE G!Consume(c)
    <3>1. used'[s] = used[s] + (IF s \in G!Scopes(request[c]) THEN 1 ELSE 0) /\ UNCHANGED <<sent, unsent, request>>
      BY <2>5 DEF G!Consume, G!CountIn
    <3>2. s \in G!Scopes(request[c]) => ~(used[s] >= Limit[s])
      BY <2>5 DEF G!Consume, G!Full
    <3>3. c \notin G!Held(s)
      BY <2>5 DEF G!Consume, G!Trying, G!Held
    <3>4. G!Held(s)' = IF s \in G!Scopes(request[c]) THEN G!Held(s) \cup {c} ELSE G!Held(s)
      BY <2>5 DEF G!Consume, G!Held
    <3>5. G!Cardinality(G!Held(s) \cup {c}) = G!Cardinality(G!Held(s)) + 1
      BY <1>1, <3>3, FS_AddElement, SameSets
    <3>. QED BY <1>1, <3>1, <3>2, <3>4, <3>5
  <2>6. CASE G!ReserveFails(c)
    <3>1. unsent'[s] = unsent[s] + (IF s \in G!Scopes(request[c]) THEN 1 ELSE 0) /\ UNCHANGED <<used, sent, request>>
      BY <2>6 DEF G!ReserveFails, G!End, G!CountIn
    <3>2. s \in G!Scopes(request[c]) <=> c \in G!Held(s)
      BY <2>6 DEF G!ReserveFails, G!End, G!Held
    <3>3. G!Held(s)' = G!Held(s) \ {c}
      BY <2>6 DEF G!ReserveFails, G!End, G!Held
    <3>4. G!Cardinality(G!Held(s) \ {c}) = IF c \in G!Held(s) THEN G!Cardinality(G!Held(s)) - 1
                                       ELSE G!Cardinality(G!Held(s))
      BY <1>1, FS_RemoveElement, SameSets
    <3>. QED BY <1>1, <3>1, <3>2, <3>3, <3>4
  <2>7. CASE G!Send(c)
    <3>1. sent'[s] = sent[s] + (IF s \in G!Scopes(request[c]) THEN 1 ELSE 0) /\ UNCHANGED <<used, unsent, request>>
      BY <2>7 DEF G!Send, G!CountIn
    <3>2. s \in G!Scopes(request[c]) <=> c \in G!Held(s)
      BY <2>7 DEF G!Send, G!Held
    <3>3. G!Held(s)' = G!Held(s) \ {c}
      BY <2>7 DEF G!Send, G!Held
    <3>4. G!Cardinality(G!Held(s) \ {c}) = IF c \in G!Held(s) THEN G!Cardinality(G!Held(s)) - 1
                                       ELSE G!Cardinality(G!Held(s))
      BY <1>1, FS_RemoveElement, SameSets
    <3>. QED BY <1>1, <3>1, <3>2, <3>3, <3>4
  <2>8. CASE G!Serve(c)
    BY <2>1, <2>8 DEF G!Serve
  <2>9. CASE G!Lose(c)
    BY <2>2, <2>9 DEF G!Lose, G!TryAgain
  <2>10. CASE G!Receive(c)
    BY <2>2, <2>10 DEF G!Receive, G!TryAgain, G!End
  <2>. QED BY <1>3, <2>3, <2>4, <2>5, <2>6, <2>7, <2>8, <2>9, <2>10 DEF G!Step
<1>. QED BY <1>2, <1>3 DEF G!Next

---------------------------------------------------------------------------
(* Pictures stay honest while GitHub goes on: an attempt takes one from    *)
(* the quota at most, and is served; a new window makes them old.          *)
LEMMA GitHubGoesOn ==
  ASSUME G!Parameters, G!TypeOK,
         NEW r \in G!Resource, NEW picture, Numbers(picture), Honest(r, picture),
         NEW a \in G!Resource,
         \/ UNCHANGED G!github
         \/ /\ quota' = [quota EXCEPT ![a] = G!Max({0, @ - 1})]
            /\ served' = [served EXCEPT ![a] = @ + 1]
            /\ UNCHANGED window
         \/ G!NextWindow(a)
  PROVE  Honest(r, picture)'
<1>1. /\ window \in [G!Resource -> Nat] /\ quota \in [G!Resource -> Nat]
      /\ served \in [G!Resource -> Nat] /\ Quota \in Nat /\ quota[r] \in 0..Quota
      /\ picture.window \in Int /\ picture.remaining \in Int /\ picture.seen \in Int
  BY DEF G!Parameters, G!TypeOK, Numbers
<1>2. CASE UNCHANGED G!github
  BY <1>1, <1>2 DEF G!github, Honest
<1>3. CASE /\ quota' = [quota EXCEPT ![a] = G!Max({0, @ - 1})]
           /\ served' = [served EXCEPT ![a] = @ + 1]
           /\ UNCHANGED window
  <2>1. CASE a = r
    <3>1. quota'[r] = G!Max({0, quota[r] - 1}) /\ served'[r] = served[r] + 1
      BY <1>1, <1>3, <2>1
    <3>2. quota'[r] \in Int /\ quota'[r] + 1 >= quota[r]
      BY <1>1, <3>1, LessOne
    <3>. QED BY <1>1, <1>3, <3>1, <3>2 DEF Honest
  <2>2. CASE a # r
    BY <1>1, <1>3, <2>2 DEF Honest
  <2>. QED BY <2>1, <2>2
<1>4. CASE G!NextWindow(a)
  BY <1>1, <1>4 DEF G!NextWindow, Honest
<1>. QED BY <1>2, <1>3, <1>4

(* A response tells the quota as it is then; what is recorded is what a    *)
(* response told.                                                          *)
LEMMA PicturesStep == ASSUME G!Parameters, ClientsIInv, [G!Next]_(G!vars) PROVE PicturesAreHonest'
<1>. DEFINE HonestThen(r, picture) ==
              /\ picture.window <= window'[r]
              /\ picture.window = window'[r] =>
                   picture.remaining <= quota'[r] + (served'[r] - picture.seen)
<1>1. /\ known \in [Client -> [G!Resource -> Picture]]
      /\ \A c \in Client : answer[c] = G!NoAnswer \/ answer[c] \in Answer
      /\ window \in [G!Resource -> Nat] /\ quota \in [G!Resource -> Nat]
      /\ served \in [G!Resource -> Nat]
  BY DEF ClientsIInv, G!TypeOK, Picture, Answer, G!Parameters
<1>2. \A c \in Client : G!Resources(c) \in G!Resource
  BY ResourceTyped DEF G!Resources
<1>3. /\ \A c \in Client, r \in G!Resource : Numbers(known[c][r])
      /\ \A c \in Client : answer[c] # G!NoAnswer => Numbers(answer[c])
  <2>1. ASSUME NEW x \in Picture PROVE Numbers(x)
    BY DEF Picture, Numbers
  <2>2. ASSUME NEW x \in Answer PROVE Numbers(x)
    BY DEF Answer, Numbers
  <2>. QED BY <1>1, <2>1, <2>2
<1>4. ASSUME NEW r \in G!Resource, NEW picture, Numbers(picture), Honest(r, picture)
      PROVE  HonestThen(r, picture)
  <2>1. \E a \in G!Resource :
          \/ UNCHANGED G!github
          \/ /\ quota' = [quota EXCEPT ![a] = G!Max({0, @ - 1})]
             /\ served' = [served EXCEPT ![a] = @ + 1]
             /\ UNCHANGED window
          \/ G!NextWindow(a)
    <3>1. CASE UNCHANGED G!vars
      BY <3>1 DEF G!vars, G!github
    <3>2. CASE \E a \in G!Resource : G!NextWindow(a)
      BY <3>2
    <3>3. ASSUME NEW c \in Client, G!Serve(c)
          PROVE  \E a \in G!Resource :
                   /\ quota' = [quota EXCEPT ![a] = G!Max({0, @ - 1})]
                   /\ served' = [served EXCEPT ![a] = @ + 1]
                   /\ UNCHANGED window
      BY <1>2, <3>3 DEF G!Serve
    <3>4. ASSUME NEW c \in Client, G!Step(c), ~G!Serve(c) PROVE UNCHANGED G!github
      BY <3>4 DEF G!Step, G!Request, G!Pause, G!Refuse, G!Consume, G!ReserveFails, G!Send, G!Lose, G!Receive, G!GiveUp
    <3>. QED BY <3>1, <3>2, <3>3, <3>4 DEF G!Next
  <2>2. Honest(r, picture)'
    BY <1>4, <2>1, GitHubGoesOn DEF ClientsIInv
  <2>. QED BY <2>2 DEF Honest
<1>5. ASSUME NEW d \in Client, NEW r \in G!Resource
      PROVE  \/ known'[d][r] = known[d][r]
             \/ /\ answer[d] # G!NoAnswer /\ r = G!Resources(d)
                /\ known'[d][r] = [remaining |-> answer[d].remaining,
                                   window |-> answer[d].window, seen |-> answer[d].seen]
  <2>1. CASE UNCHANGED known
    BY <2>1
  <2>2. ASSUME NEW c \in Client, G!Receive(c)
        PROVE  \/ known'[d][r] = known[d][r]
               \/ /\ answer[d] # G!NoAnswer /\ r = G!Resources(d)
                  /\ known'[d][r] = [remaining |-> answer[d].remaining,
                                     window |-> answer[d].window, seen |-> answer[d].seen]
    BY <1>1, <1>2, <2>2 DEF G!Receive, G!Record
  <2>3. ASSUME NEW c \in Client, G!Step(c), ~G!Receive(c) PROVE UNCHANGED known
    BY <2>3 DEF G!Step, G!Request, G!Pause, G!Refuse, G!Consume, G!ReserveFails, G!Send, G!Serve, G!Lose, G!GiveUp
  <2>. QED BY <2>1, <2>2, <2>3 DEF G!Next, G!NextWindow, G!vars
<1>6. ASSUME NEW d \in Client, answer'[d] # G!NoAnswer
      PROVE  /\ G!Resources(d)' = G!Resources(d)
             /\ \/ answer'[d] = answer[d]
                \/ /\ answer'[d].remaining = quota'[G!Resources(d)]
                   /\ answer'[d].window = window'[G!Resources(d)]
                   /\ answer'[d].seen = served'[G!Resources(d)]
  <2>0. answer \in [Client -> {G!NoAnswer} \cup Answer] /\ request \in [Client -> ClientKind \cup {"none"}]
    BY DEF ClientsIInv, G!TypeOK, Answer
  <2>. DEFINE Waiting == answer'[d] = answer[d] /\ request'[d] = request[d]
              Served ==
                /\ UNCHANGED request
                /\ answer'[d].remaining = quota'[G!Resources(d)]
                /\ answer'[d].window = window'[G!Resources(d)]
                /\ answer'[d].seen = served'[G!Resources(d)]
  <2>1. ASSUME NEW c \in Client, G!Serve(c) PROVE Waiting \/ Served
    <3>1. UNCHANGED <<request, window>> /\ served' \in [G!Resource -> Nat] /\ quota' \in [G!Resource -> 0..Quota]
      BY <2>1, ClientsTypeStep DEF G!Serve, G!TypeOK
    <3>2. CASE c = d
      <4>1. \E status \in G!Statuses :
              answer'[d] = [status |-> status, remaining |-> quota'[G!Resources(d)],
                            window |-> window[G!Resources(d)], seen |-> served'[G!Resources(d)]]
        BY <2>0, <2>1, <3>2 DEF G!Serve, G!Statuses
      <4>. QED BY <3>1, <4>1
    <3>3. CASE c # d
      BY <2>0, <2>1, <3>1, <3>3 DEF G!Serve
    <3>. QED BY <3>2, <3>3
  <2>2. ASSUME NEW c \in Client, G!Lose(c) \/ G!Receive(c) PROVE Waiting
    BY <1>6, <2>0, <2>2 DEF G!Lose, G!Receive
  <2>3. ASSUME NEW c \in Client, NEW k \in ClientKind, G!Request(c, k) PROVE Waiting
    BY <1>6, <2>0, <2>3 DEF G!Request, ClientsIInv, AnswersAreAwaited
  <2>4. ASSUME NEW c \in Client,
               G!Pause(c) \/ G!Refuse(c) \/ G!Consume(c) \/ G!ReserveFails(c) \/ G!Send(c) \/ G!GiveUp(c)
        PROVE  Waiting
    BY <2>4 DEF G!Pause, G!Refuse, G!Consume, G!ReserveFails, G!Send, G!GiveUp
  <2>5. Waiting \/ Served
    <3>. HIDE DEF Waiting, Served
    <3>1. CASE UNCHANGED G!vars \/ \E r \in G!Resource : G!NextWindow(r)
      BY <3>1 DEF Waiting, G!vars, G!NextWindow
    <3>. QED BY <2>1, <2>2, <2>3, <2>4, <3>1 DEF G!Next, G!Step
  <2>. QED BY <2>5 DEF G!Resources
<1>7. ASSUME NEW d \in Client, NEW r \in G!Resource PROVE HonestThen(r, known'[d][r])
  <2>1. CASE known'[d][r] = known[d][r]
    <3>1. Honest(r, known[d][r])
      BY DEF ClientsIInv, PicturesAreHonest
    <3>. QED BY <1>3, <1>4, <2>1, <3>1
  <2>2. CASE /\ answer[d] # G!NoAnswer /\ r = G!Resources(d)
             /\ known'[d][r] = [remaining |-> answer[d].remaining,
                                window |-> answer[d].window, seen |-> answer[d].seen]
    <3>1. HonestThen(r, answer[d])
      BY <1>3, <1>4, <2>2 DEF ClientsIInv, PicturesAreHonest
    <3>. QED BY <2>2, <3>1
  <2>. QED BY <1>5, <2>1, <2>2
<1>8. ASSUME NEW d \in Client, answer'[d] # G!NoAnswer
      PROVE  HonestThen(G!Resources(d)', answer'[d])
  <2>0. G!Resources(d) \in G!Resource /\ G!Resources(d)' = G!Resources(d)
    BY <1>2, <1>6, <1>8
  <2>1. CASE answer'[d] = answer[d]
    <3>1. answer[d] # G!NoAnswer
      BY <1>8, <2>1
    <3>2. HonestThen(G!Resources(d), answer[d])
      BY <1>2, <1>3, <1>4, <3>1 DEF ClientsIInv, PicturesAreHonest
    <3>. QED BY <2>0, <2>1, <3>2
  <2>2. CASE /\ answer'[d].remaining = quota'[G!Resources(d)]
             /\ answer'[d].window = window'[G!Resources(d)]
             /\ answer'[d].seen = served'[G!Resources(d)]
    <3>1. window'[G!Resources(d)] \in Int /\ quota'[G!Resources(d)] \in Int /\ served'[G!Resources(d)] \in Int
      BY <2>0, ClientsTypeStep DEF G!TypeOK, G!Parameters
    <3>. QED BY <2>0, <2>2, <3>1
  <2>. QED BY <1>6, <1>8, <2>1, <2>2
<1>. QED BY <1>7, <1>8 DEF PicturesAreHonest, Honest

(* A charge finds the picture above the threshold or of an old window;     *)
(* until its answer is there the picture stays, and the window it is of    *)
(* does not come back.                                                     *)
LEMMA ThresholdStep == ASSUME G!Parameters, ClientsIInv, [G!Next]_(G!vars) PROVE AboveThreshold'
<1>. SUFFICES ASSUME NEW d \in Client, at'[d] \in {"reserve", "flight"},
                     known'[d][G!Resources(d)'].window = window'[G!Resources(d)']
              PROVE  known'[d][G!Resources(d)'].remaining > Threshold[G!Resources(d)']
  BY DEF AboveThreshold
<1>0. /\ at \in [Client -> ClientsPlaces] /\ window \in [G!Resource -> Nat \ {0}]
      /\ known \in [Client -> [G!Resource -> Picture]] /\ G!Resources(d) \in G!Resource
      /\ known[d][G!Resources(d)].window \in Int /\ known[d][G!Resources(d)].remaining \in Int
      /\ Threshold[G!Resources(d)] \in Int
  BY ResourceTyped DEF ClientsIInv, G!TypeOK, Picture, ClientsPlaces, G!Parameters, G!Resources
<1>1. ASSUME UNCHANGED <<known, window>>, at[d] \in {"reserve", "flight"}, request'[d] = request[d]
      PROVE  known'[d][G!Resources(d)'].remaining > Threshold[G!Resources(d)']
  BY <1>1 DEF ClientsIInv, AboveThreshold, G!Resources
<1>2. CASE UNCHANGED G!vars
  BY <1>1, <1>2 DEF G!vars, G!github
<1>3. ASSUME NEW a \in G!Resource, G!NextWindow(a)
      PROVE  known'[d][G!Resources(d)'].remaining > Threshold[G!Resources(d)']
  <2>1. UNCHANGED <<known, at, request>> /\ window' = [window EXCEPT ![a] = @ + 1]
    BY <1>3 DEF G!NextWindow
  <2>2. G!Resources(d)' = G!Resources(d)
    BY <2>1 DEF G!Resources
  <2>3. known[d][G!Resources(d)].window <= window[G!Resources(d)]
    BY <1>0 DEF ClientsIInv, PicturesAreHonest, Honest
  <2>4. a # G!Resources(d)
    BY <1>0, <2>1, <2>2, <2>3
  <2>5. known[d][G!Resources(d)].window = window[G!Resources(d)]
    BY <1>0, <2>1, <2>2, <2>4
  <2>. QED BY <2>1, <2>2, <2>5 DEF ClientsIInv, AboveThreshold
<1>4. ASSUME NEW c \in Client, G!Step(c)
      PROVE  known'[d][G!Resources(d)'].remaining > Threshold[G!Resources(d)']
  <2>1. CASE (\E k \in ClientKind : G!Request(c, k)) \/ G!Pause(c) \/ G!Refuse(c) \/ G!GiveUp(c) \/ G!ReserveFails(c)
    <3>1. c # d
      BY <1>0, <2>1 DEF G!Request, G!Pause, G!Refuse, G!GiveUp, G!ReserveFails, G!End
    <3>2. at'[d] = at[d] /\ request'[d] = request[d] /\ UNCHANGED <<known, window>>
      BY <1>0, <2>1, <3>1 DEF G!Request, G!Pause, G!Refuse, G!GiveUp, G!ReserveFails, G!End, ClientsIInv, G!TypeOK, G!github
    <3>. QED BY <1>1, <3>2
  <2>2. CASE G!Consume(c)
    <3>1. UNCHANGED <<known, window, request>> /\ G!Resources(d)' = G!Resources(d)
      BY <2>2 DEF G!Consume, G!github, G!Resources
    <3>2. CASE c = d
      <4>1. ~G!Low(d) /\ known[d][G!Resources(d)].window = window[G!Resources(d)]
        BY <2>2, <3>1, <3>2 DEF G!Consume
      <4>2. known[d][G!Resources(d)] # G!Unknown
        BY <1>0, <4>1 DEF G!Unknown
      <4>. QED BY <1>0, <3>1, <4>1, <4>2 DEF G!Low
    <3>3. CASE c # d
      BY <1>0, <1>1, <2>2, <3>1, <3>3 DEF G!Consume
    <3>. QED BY <3>2, <3>3
  <2>3. CASE G!Send(c) \/ G!Serve(c)
    <3>1. UNCHANGED <<known, window, request>>
      BY <2>3 DEF G!Send, G!Serve, G!github
    <3>2. at[d] \in {"reserve", "flight"}
      BY <1>0, <2>3 DEF G!Send, G!Serve
    <3>. QED BY <1>1, <3>1, <3>2
  <2>4. CASE G!Lose(c) \/ G!Receive(c)
    <3>1. c # d
      BY <1>0, <2>4 DEF G!Lose, G!Receive, G!TryAgain, G!End
    <3>2. UNCHANGED <<window, request>>
      BY <2>4 DEF G!Lose, G!Receive, G!github
    <3>3. at'[d] = at[d]
      BY <1>0, <2>4, <3>1 DEF G!Lose, G!Receive, G!TryAgain, G!End
    <3>4. known'[d] = known[d]
      BY <1>0, <2>4, <3>1 DEF G!Lose, G!Receive, G!Record
    <3>. QED BY <3>2, <3>3, <3>4 DEF ClientsIInv, AboveThreshold, G!Resources
  <2>. QED BY <1>4, <2>1, <2>2, <2>3, <2>4 DEF G!Step
<1>. QED BY <1>2, <1>3, <1>4 DEF G!Next

---------------------------------------------------------------------------
(* The invariant holds in every state.                                     *)
THEOREM ClientsInvariance == ASSUME G!Parameters PROVE G!Spec => []ClientsIInv
<1>1. G!Init => ClientsIInv
  BY ClientsInitially
<1>2. ClientsIInv /\ [G!Next]_(G!vars) => ClientsIInv'
  BY ClientsTypeStep, AwaitedStep, CapsStep, PicturesStep, ThresholdStep DEF ClientsIInv
<1>. QED BY <1>1, <1>2, PTL DEF G!Spec

(* The budget of budget.py: with any clients, requests, retries, refusals  *)
(* and failed reservations, no scope is charged more than its cap, and     *)
(* what is charged is what went out, is about to, or was kept back by a    *)
(* failed reservation.                                                     *)
THEOREM CapsAreKept == ASSUME G!Parameters PROVE G!Spec => []G!BudgetIsKept
<1>1. ClientsIInv => G!BudgetIsKept
  BY DEF ClientsIInv, G!BudgetIsKept
<1>. QED BY <1>1, ClientsInvariance, PTL

(* The pause threshold of client.py: a client that knows of this window    *)
(* takes its quota below the threshold only for attempts it has not heard  *)
(* of.                                                                     *)
THEOREM ThresholdSpares == ASSUME G!Parameters PROVE G!Spec => G!PauseKeepsTheRest
<1>1. ClientsIInv /\ [G!Next]_(G!vars) => [G!PauseSparesTheRest]_(G!vars)
  <2>. SUFFICES ASSUME ClientsIInv, G!Next PROVE G!PauseSparesTheRest
    BY DEF G!PauseSparesTheRest, G!vars
  <2>. SUFFICES ASSUME NEW d \in Client, answer[d] = G!NoAnswer, answer'[d] # G!NoAnswer,
                       known[d][G!Resources(d)].window = window[G!Resources(d)]
                PROVE  quota[G!Resources(d)] + (served[G!Resources(d)] - known[d][G!Resources(d)].seen)
                         > Threshold[G!Resources(d)]
    BY DEF G!PauseSparesTheRest
  <2>1. at[d] = "flight"
    <3>1. answer \in [Client -> {G!NoAnswer} \cup Answer]
      BY DEF ClientsIInv, G!TypeOK, Answer
    <3>2. \E c \in Client : G!Serve(c) \/ G!Lose(c) \/ G!Receive(c)
      BY DEF G!Next, G!Step, G!NextWindow, G!Request, G!Pause, G!Refuse, G!Consume, G!ReserveFails, G!Send, G!GiveUp
    <3>. QED BY <3>1, <3>2 DEF G!Serve, G!Lose, G!Receive
  <2>2. /\ G!Resources(d) \in G!Resource /\ known[d][G!Resources(d)] \in Picture
        /\ quota[G!Resources(d)] \in Int /\ served[G!Resources(d)] \in Int
        /\ Threshold[G!Resources(d)] \in Int
    BY ResourceTyped DEF ClientsIInv, G!TypeOK, Picture, G!Parameters, G!Resources
  <2>3. known[d][G!Resources(d)].remaining > Threshold[G!Resources(d)]
    BY <2>1 DEF ClientsIInv, AboveThreshold
  <2>4. known[d][G!Resources(d)].remaining
          <= quota[G!Resources(d)] + (served[G!Resources(d)] - known[d][G!Resources(d)].seen)
    BY <2>2 DEF ClientsIInv, PicturesAreHonest, Honest
  <2>. QED BY <2>2, <2>3, <2>4 DEF Picture
<1>. QED BY <1>1, ClientsInvariance, PTL DEF G!Spec, G!PauseKeepsTheRest

---------------------------------------------------------------------------
(* Unattended.                                                             *)

(* Each machine of Unattended behaves as if it were alone: what holds of   *)
(* it alone holds of it beside the other.                                  *)
THEOREM Alone == UnattendedSpec => Spec /\ G!Spec
<1>1. UnattendedInit => Init /\ G!Init
  BY DEF UnattendedInit
<1>2. [UnattendedNext]_<<part, vars, client>> => [Next]_vars
  BY DEF UnattendedNext
<1>3. [UnattendedNext]_<<part, vars, client>> => [G!Next]_(G!vars)
  <2>1. UNCHANGED client => UNCHANGED G!vars
    BY DEF client, G!vars
  <2>. QED BY <2>1 DEF UnattendedNext
<1>. QED BY <1>1, <1>2, <1>3, PTL DEF UnattendedSpec, Spec, G!Spec

(* The budget of budget.py beside the schedule: no scope sends more than   *)
(* its cap, and each attempt is charged once to each of its scopes.        *)
THEOREM BudgetKept == UnattendedSpec => []BudgetIsKept
<1>1. G!BudgetIsKept => BudgetIsKept
  BY DEF BudgetIsKept
<1>. QED BY <1>1, CapsAreKept, ClientParameters, Alone, PTL

(* The pause threshold of client.py beside the schedule: a client that     *)
(* knows of this window takes its quota below the threshold only for       *)
(* attempts it has not heard of.                                           *)
THEOREM RestSpared == UnattendedSpec => PauseKeepsTheRest
<1>1. G!Spec => [][G!PauseSparesTheRest]_(G!vars)
  BY ThresholdSpares, ClientParameters DEF G!PauseKeepsTheRest
<1>2. [G!PauseSparesTheRest]_(G!vars) => [part = "client" => G!PauseSparesTheRest]_client
  <2>1. UNCHANGED G!vars => UNCHANGED client
    BY DEF G!vars, client
  <2>. QED BY <2>1
<1>. QED BY <1>1, <1>2, Alone, PTL DEF PauseKeepsTheRest
=============================================================================
