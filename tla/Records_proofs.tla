--------------------------- MODULE Records_proofs ---------------------------
(***************************************************************************)
(* What is stored of GitHub, for every number of repositories, developers, *)
(* observations and pages.                                                 *)
(***************************************************************************)
EXTENDS Records, Integers, SequenceTheorems, FiniteSetTheorems, WellFoundedInduction, TLAPS

(***************************************************************************)
(* The observation log.                                                    *)
(***************************************************************************)
Instant == 0..LastInstant
Snapshot == [repo : Observed, at : Instant, value : Counter]
Contribution == [repo : Observed, dev : Contributor, at : Instant, count : Counter]
Profile == [dev : Contributor, at : Instant, value : Counter]

LogTyped ==
  /\ clock \in Instant
  /\ snapshots \in Seq(Snapshot)
  /\ contributions \subseteq Contribution
  /\ profiles \subseteq Profile
  /\ DOMAIN links \subseteq Observed \X Contributor

LogIInv == LogTyped /\ O!TypeOK /\ O!LinksObserved

(* What the readers of a single newest snapshot rely on: the rows of one   *)
(* repository are in the order of their instants.                          *)
InOrder ==
  \A i, j \in DOMAIN snapshots :
    i < j /\ snapshots[i].repo = snapshots[j].repo => snapshots[i].at < snapshots[j].at

(* A write leaves every row its repository and its instant, changes those  *)
(* of the present instant only, and adds at most one, at a new instant.    *)
Wrote(r) ==
  /\ snapshots' \in Seq(Snapshot)
  /\ \A i \in DOMAIN snapshots :
       /\ i \in DOMAIN snapshots'
       /\ snapshots'[i].repo = snapshots[i].repo /\ snapshots'[i].at = snapshots[i].at
       /\ snapshots[i].at # clock => snapshots'[i] = snapshots[i]
  /\ \A i \in DOMAIN snapshots' \ DOMAIN snapshots :
       /\ i = Len(snapshots) + 1
       /\ snapshots'[i].repo = r /\ snapshots'[i].at = clock
       /\ \A j \in DOMAIN snapshots : snapshots[j].repo = r => snapshots[j].at # clock

(* A finite set of naturals has a greatest element.                        *)
LEMMA GreatestIs ==
  ASSUME NEW N \in Nat, NEW S \in SUBSET (0..N), S # {}
  PROVE  O!Max(S) \in S /\ \A x \in S : x <= O!Max(S)
<1> DEFINE U == {u \in Nat : \A x \in S : x <= u}
<1>1. N \in U /\ U \subseteq Nat OBVIOUS
<1>2. \E u \in U : \A v \in U : <<v, u>> \notin OpToRel(<, Nat)
  <2> HIDE DEF U
  <2> QED BY <1>1, WFMin, NatLessThanWellFounded, Zenon
<1>3. PICK u \in U : \A v \in U : ~(v < u) BY <1>1, <1>2, Zenon DEF OpToRel
<1>4. u \in S
  <2> SUFFICES ASSUME u \notin S PROVE FALSE OBVIOUS
  <2>1. u \in Nat /\ \A x \in S : x \in Nat /\ x <= u /\ x # u BY <1>3
  <2>0. PICK y \in S : TRUE OBVIOUS
  <2>2. u > 0 BY <2>0, <2>1
  <2>3. u - 1 \in U BY <2>1, <2>2
  <2> QED BY <1>3, <2>1, <2>3
<1>5. u \in S /\ \A x \in S : u >= x BY <1>3, <1>4
<1>6. O!Max(S) = CHOOSE x \in S : \A y \in S : x >= y BY DEF O!Max
<1>7. O!Max(S) \in S /\ \A y \in S : O!Max(S) >= y BY <1>5, <1>6
<1> QED BY <1>7

LEMMA Recording ==
  ASSUME LogIInv, NEW r \in Observed, NEW v \in Counter, O!RecordObservation(r, v)
  PROVE  Wrote(r)
<1> DEFINE same == {i \in O!Of(r) : snapshots[i].at = clock}
           new == [repo |-> r, at |-> clock, value |-> v]
<1>1. snapshots \in Seq(Snapshot) /\ new \in Snapshot /\ DOMAIN snapshots = 1..Len(snapshots) /\ Len(snapshots) \in Nat
  BY DEF LogIInv, LogTyped, Snapshot
<1>2. same \subseteq DOMAIN snapshots /\ \A i \in DOMAIN snapshots : i \in same <=> snapshots[i].repo = r /\ snapshots[i].at = clock
  BY DEF O!Of
<1>3. snapshots' = IF same = {} THEN Append(snapshots, new) ELSE [snapshots EXCEPT ![O!Max(same)] = new]
  BY DEF O!RecordObservation
<1>4. new.repo = r /\ new.at = clock OBVIOUS
<1> HIDE DEF same, new
<1>5. CASE same = {}
  <2>1. /\ snapshots' \in Seq(Snapshot) /\ Len(snapshots') = Len(snapshots) + 1
        /\ \A i \in 1..Len(snapshots) : snapshots'[i] = snapshots[i]
        /\ snapshots'[Len(snapshots) + 1] = new
    BY <1>1, <1>3, <1>5, AppendProperties
  <2>2. DOMAIN snapshots' = 1..(Len(snapshots) + 1) BY <2>1
  <2> QED BY <1>1, <1>2, <1>4, <1>5, <2>1, <2>2 DEF Wrote
<1>6. CASE same # {}
  <2> DEFINE m == O!Max(same)
  <2>0. same \subseteq 0..Len(snapshots) BY <1>1, <1>2
  <2>1. m \in same BY <1>1, <1>6, <2>0, GreatestIs
  <2>2. snapshots' = [snapshots EXCEPT ![m] = new] BY <1>3, <1>6
  <2> HIDE DEF m
  <2>3. m \in 1..Len(snapshots) /\ snapshots[m].repo = r /\ snapshots[m].at = clock BY <1>1, <1>2, <2>1
  <2>4. /\ snapshots' \in Seq(Snapshot) /\ Len(snapshots') = Len(snapshots)
        /\ \A j \in 1..Len(snapshots) : snapshots'[j] = IF j = m THEN new ELSE snapshots[j]
    BY <1>1, <2>2, <2>3, ExceptSeq
  <2>5. DOMAIN snapshots' = DOMAIN snapshots BY <1>1, <2>4
  <2> QED BY <1>1, <1>4, <2>3, <2>4, <2>5 DEF Wrote
<1> QED BY <1>5, <1>6

LEMMA Inserting ==
  ASSUME LogIInv, NEW r \in Observed, NEW v \in Counter, O!InsertIfChanged(r, v)
  PROVE  Wrote(r)
<1>1. CASE O!RecordObservation(r, v) BY <1>1, Recording
<1>2. CASE UNCHANGED snapshots BY <1>2 DEF Wrote, LogIInv, LogTyped
<1> QED BY <1>1, <1>2 DEF O!InsertIfChanged

(* What a write preserves.                                                 *)
OneEach ==
  \A i, j \in DOMAIN snapshots :
    snapshots[i].repo = snapshots[j].repo /\ snapshots[i].at = snapshots[j].at => i = j

LEMMA WroteOneEach ==
  ASSUME OneEach, NEW r, Wrote(r)
  PROVE  OneEach'
<1> SUFFICES ASSUME NEW i \in DOMAIN snapshots', NEW j \in DOMAIN snapshots',
                    snapshots'[i].repo = snapshots'[j].repo, snapshots'[i].at = snapshots'[j].at
             PROVE  i = j
  BY DEF OneEach
<1>1. CASE i \in DOMAIN snapshots /\ j \in DOMAIN snapshots BY <1>1 DEF Wrote, OneEach
<1>2. CASE i \notin DOMAIN snapshots /\ j \notin DOMAIN snapshots BY <1>2 DEF Wrote
<1>3. CASE i \in DOMAIN snapshots /\ j \notin DOMAIN snapshots BY <1>3 DEF Wrote
<1>4. CASE i \notin DOMAIN snapshots /\ j \in DOMAIN snapshots BY <1>4 DEF Wrote
<1> QED BY <1>1, <1>2, <1>3, <1>4

LEMMA WroteInOrder ==
  ASSUME InOrder, snapshots \in Seq(Snapshot), NEW r, Wrote(r), clock \in Instant,
         \A i \in DOMAIN snapshots : snapshots[i].repo = r => snapshots[i].at <= clock
  PROVE  InOrder'
<1> SUFFICES ASSUME NEW i \in DOMAIN snapshots', NEW j \in DOMAIN snapshots',
                    i < j, snapshots'[i].repo = snapshots'[j].repo
             PROVE  snapshots'[i].at < snapshots'[j].at
  BY DEF InOrder
<1>0. DOMAIN snapshots = 1..Len(snapshots) /\ Len(snapshots) \in Nat /\ snapshots' \in Seq(Snapshot)
      /\ DOMAIN snapshots' = 1..Len(snapshots')
  BY DEF Wrote
<1>1. CASE i \in DOMAIN snapshots /\ j \in DOMAIN snapshots BY <1>1 DEF Wrote, InOrder
<1>2. CASE i \in DOMAIN snapshots /\ j \notin DOMAIN snapshots
  <2>1. /\ snapshots'[i].repo = snapshots[i].repo /\ snapshots'[i].at = snapshots[i].at
        /\ snapshots'[j].repo = r /\ snapshots'[j].at = clock
        /\ (snapshots[i].repo = r => snapshots[i].at # clock)
    BY <1>2 DEF Wrote
  <2>2. snapshots[i] \in Snapshot BY <1>0, <1>2, ElementOfSeq
  <2>3. snapshots[i].at \in Instant BY <2>2 DEF Snapshot
  <2>4. snapshots[i].at <= clock /\ snapshots[i].at # clock BY <1>2, <2>1
  <2> QED BY <2>1, <2>3, <2>4 DEF Instant
<1>3. CASE i \notin DOMAIN snapshots
  <2>1. i = Len(snapshots) + 1 BY <1>3 DEF Wrote
  <2>2. j \notin DOMAIN snapshots BY <1>0, <2>1
  <2>3. j = Len(snapshots) + 1 BY <2>2 DEF Wrote
  <2> QED BY <1>0, <2>1, <2>3
<1> QED BY <1>1, <1>2, <1>3
---------------------------------------------------------------------------
(* A contributor's counts replace those of the same instant.               *)
Synced ==
  /\ contributions' \subseteq Contribution
  /\ \A c, d \in contributions' : c.repo = d.repo /\ c.dev = d.dev /\ c.at = d.at => c = d
  /\ \A c \in contributions : c.at # clock => c \in contributions'
  /\ \A c \in contributions : \E d \in contributions' : d.at = c.at
  /\ DOMAIN links' \subseteq Observed \X Contributor
  /\ O!LinksObserved'

LEMMA Syncing ==
  ASSUME LogIInv, NEW r \in Observed, NEW counts \in O!Counts, O!SyncContributors(r, counts)
  PROVE  Synced
<1>1. PICK D \in SUBSET Contributor : counts \in [D -> Counter] BY DEF O!Counts
<1> DEFINE old == {c \in contributions : ~(c.repo = r /\ c.dev \in D /\ c.at = clock)}
           New(d) == [repo |-> r, dev |-> d, at |-> clock, count |-> counts[d]]
<1>2. /\ links' = [l \in DOMAIN links \cup ({r} \X D) |->
                    IF l[1] = r /\ l[2] \in D THEN counts[l[2]] ELSE links[l]]
      /\ contributions' = old \cup {New(d) : d \in D}
  BY <1>1 DEF O!SyncContributors
<1>3. \A d \in D : New(d) \in Contribution /\ New(d).repo = r /\ New(d).dev = d /\ New(d).at = clock /\ New(d).count = counts[d]
  <2> TAKE d \in D
  <2>1. counts[d] \in Counter /\ d \in Contributor /\ clock \in Instant BY <1>1 DEF LogIInv, LogTyped
  <2>2. New(d) \in Contribution BY <2>1 DEF Contribution
  <2> QED BY <2>2
<1> HIDE DEF New
<1>4. \A c \in contributions : c \in old \/ (c.repo = r /\ c.dev \in D /\ c.at = clock) OBVIOUS
<1>5. \A c \in old : c \in contributions /\ ~(c.repo = r /\ c.dev \in D /\ c.at = clock) OBVIOUS
<1>6. \A c \in contributions' : c \in old \/ \E d \in D : c = New(d) BY <1>2
<1>7. \A c \in old : c \in contributions' BY <1>2
<1>8. \A d \in D : New(d) \in contributions' BY <1>2
<1> HIDE DEF old
<1>9. contributions \subseteq Contribution /\ DOMAIN links \subseteq Observed \X Contributor BY DEF LogIInv, LogTyped
<1>10. contributions' \subseteq Contribution BY <1>3, <1>5, <1>6, <1>9
<1>11. ASSUME NEW c \in contributions', NEW e \in contributions', c.repo = e.repo, c.dev = e.dev, c.at = e.at
       PROVE  c = e
  <2>1. CASE c \in old /\ e \in old BY <1>5, <1>11, <2>1 DEF LogIInv, O!TypeOK
  <2>2. CASE c \in old /\ e \notin old BY <1>3, <1>5, <1>6, <1>11, <2>2
  <2>3. CASE c \notin old /\ e \in old BY <1>3, <1>5, <1>6, <1>11, <2>3
  <2>4. CASE c \notin old /\ e \notin old BY <1>3, <1>6, <1>11, <2>4
  <2> QED BY <2>1, <2>2, <2>3, <2>4
<1>12. \A c \in contributions : c.at # clock => c \in contributions' BY <1>4, <1>7
<1>13. \A c \in contributions : \E d \in contributions' : d.at = c.at
  <2> SUFFICES ASSUME NEW c \in contributions PROVE \E d \in contributions' : d.at = c.at OBVIOUS
  <2>1. CASE c \in old BY <1>7, <2>1
  <2>2. CASE c \notin old
    <3>1. c.dev \in D /\ c.at = clock BY <1>4, <2>2
    <3> QED BY <1>3, <1>8, <3>1
  <2> QED BY <2>1, <2>2
<1>14. DOMAIN links' = DOMAIN links \cup ({r} \X D) BY <1>2
<1>15. DOMAIN links' \subseteq Observed \X Contributor BY <1>9, <1>14
<1>16. O!LinksObserved'
  <2> SUFFICES ASSUME NEW l \in DOMAIN links'
               PROVE  \E c \in contributions' : c.repo = l[1] /\ c.dev = l[2] /\ c.count = links'[l]
    BY DEF O!LinksObserved
  <2>1. links'[l] = IF l[1] = r /\ l[2] \in D THEN counts[l[2]] ELSE links[l] BY <1>2, <1>14
  <2>2. CASE l[1] = r /\ l[2] \in D BY <1>3, <1>8, <2>1, <2>2
  <2>3. CASE ~(l[1] = r /\ l[2] \in D)
    <3>1. l \in DOMAIN links /\ links'[l] = links[l] BY <1>14, <2>1, <2>3
    <3>2. PICK c \in contributions : c.repo = l[1] /\ c.dev = l[2] /\ c.count = links[l]
      BY <3>1 DEF LogIInv, O!LinksObserved
    <3>3. c \in old BY <1>4, <2>3, <3>2
    <3> QED BY <1>7, <3>1, <3>2, <3>3
  <2> QED BY <2>2, <2>3
<1> QED BY <1>10, <1>11, <1>12, <1>13, <1>15, <1>16 DEF Synced

LEMMA Unsynced ==
  ASSUME LogIInv, UNCHANGED <<contributions, links>>
  PROVE  Synced
BY DEF Synced, LogIInv, LogTyped, O!TypeOK, O!LinksObserved

(* A profile, likewise.                                                    *)
Profiled ==
  /\ profiles' \subseteq Profile
  /\ \A p, q \in profiles' : p.dev = q.dev /\ p.at = q.at => p = q
  /\ \A p \in profiles : p.at # clock => p \in profiles'
  /\ \A p \in profiles : \E q \in profiles' : q.at = p.at

LEMMA Profiling ==
  ASSUME LogIInv, NEW d \in Contributor, NEW v \in Counter, NEW force \in BOOLEAN, O!SyncProfile(d, v, force)
  PROVE  Profiled
<1> DEFINE new == [dev |-> d, at |-> clock, value |-> v]
<1>1. profiles' = {p \in profiles : ~(p.dev = d /\ p.at = clock)} \cup {new} BY DEF O!SyncProfile
<1>2. new \in Profile /\ new.dev = d /\ new.at = clock BY DEF LogIInv, LogTyped, Profile
<1> HIDE DEF new
<1>3. profiles \subseteq Profile /\ \A p, q \in profiles : p.dev = q.dev /\ p.at = q.at => p = q
  BY DEF LogIInv, LogTyped, O!TypeOK
<1> QED BY <1>1, <1>2, <1>3 DEF Profiled

LEMMA Unprofiled ==
  ASSUME LogIInv, UNCHANGED profiles
  PROVE  Profiled
BY DEF Profiled, LogIInv, LogTyped, O!TypeOK
---------------------------------------------------------------------------
(* Every step of the log writes at most one row, counts and a profile, or  *)
(* sets the clock.                                                         *)
Written ==
  /\ \E r : Wrote(r)
  /\ Synced /\ Profiled
  /\ clock' \in Instant

LEMMA Unwritten ==
  ASSUME LogIInv, UNCHANGED snapshots, NEW r
  PROVE  Wrote(r)
BY DEF Wrote, LogIInv, LogTyped

LEMMA LogSteps ==
  ASSUME LogIInv, O!Next \/ UNCHANGED log
  PROVE  Written
<1>0. clock \in Instant BY DEF LogIInv, LogTyped
<1>1. CASE O!SetClock
  <2>1. clock' \in Instant /\ UNCHANGED <<snapshots, contributions, profiles, links>> BY <1>1 DEF O!SetClock, Instant
  <2> QED BY <2>1, Unwritten, Unsynced, Unprofiled DEF Written
<1>2. ASSUME NEW r \in Observed, NEW v \in Counter, NEW T \in SUBSET Topic,
             O!StageLightweight(r, v, T) \/ O!StageObservation(r, v, T)
      PROVE  Written
  <2>1. O!RecordObservation(r, v) /\ UNCHANGED <<clock, contributions, profiles, links>>
    BY <1>2 DEF O!StageLightweight, O!StageObservation
  <2> QED BY <1>0, <2>1, Recording, Unsynced, Unprofiled DEF Written
<1>3. ASSUME NEW r \in Observed, NEW counts \in O!Counts, O!Enrich(r, counts)
      PROVE  Written
  <2>1. O!SyncContributors(r, counts) /\ UNCHANGED <<clock, snapshots, profiles>> BY <1>3 DEF O!Enrich
  <2> QED BY <1>0, <2>1, Unwritten, Syncing, Unprofiled DEF Written
<1>4. ASSUME NEW d \in Contributor, NEW v \in Counter, NEW force \in BOOLEAN, O!SyncProfile(d, v, force)
      PROVE  Written
  <2>1. UNCHANGED <<clock, snapshots, contributions, links>> BY <1>4 DEF O!SyncProfile
  <2>2. Profiled BY <1>4, Profiling
  <2> QED BY <1>0, <2>1, <2>2, Unwritten, Unsynced DEF Written
<1>5. ASSUME NEW r \in Observed, NEW v \in Counter, NEW T \in SUBSET Topic, NEW counts \in O!Counts,
             O!Update(r, v, T, counts)
      PROVE  Written
  <2>1. O!InsertIfChanged(r, v) /\ O!SyncContributors(r, counts) /\ UNCHANGED <<clock, profiles>> BY <1>5 DEF O!Update
  <2> QED BY <1>0, <2>1, Inserting, Syncing, Unprofiled DEF Written
<1>6. CASE UNCHANGED log
  <2>1. UNCHANGED <<clock, snapshots, contributions, profiles, links>> BY <1>6 DEF log
  <2> QED BY <1>0, <2>1, Unwritten, Unsynced, Unprofiled DEF Written
<1> QED BY <1>1, <1>2, <1>3, <1>4, <1>5, <1>6 DEF O!Next, O!Collect

LEMMA LogInductive ==
  ASSUME LogIInv, Written
  PROVE  LogIInv'
<1>1. PICK r : Wrote(r) BY DEF Written
<1>2. snapshots' \in Seq(Snapshot) BY <1>1 DEF Wrote
<1>3. OneEach BY DEF LogIInv, O!TypeOK, OneEach
<1>4. OneEach' BY <1>1, <1>3, WroteOneEach
<1>5. LogTyped' BY <1>2 DEF Written, Synced, Profiled, LogTyped
<1>6. O!TypeOK' BY <1>4, <1>5 DEF Written, Synced, Profiled, O!TypeOK, OneEach, LogTyped, Instant
<1> QED BY <1>5, <1>6 DEF LogIInv, Written, Synced

(* No instant is lost, so the newest one never goes back.                  *)
LEMMA Kept ==
  ASSUME LogIInv, Written
  PROVE  O!HistoryUntouched /\ O!AnchorCovers
<1>1. PICK r : Wrote(r) BY DEF Written
<1>2. O!HistoryUntouched BY <1>1 DEF O!HistoryUntouched, Wrote, Written, Synced, Profiled
<1> DEFINE I == O!Instants
           J == O!Instants'
<1>3. I \subseteq J
  <2>1. \A i \in DOMAIN snapshots : \E j \in DOMAIN snapshots' : snapshots'[j].at = snapshots[i].at BY <1>1 DEF Wrote
  <2>2. \A c \in contributions : \E d \in contributions' : d.at = c.at BY DEF Written, Synced
  <2>3. \A p \in profiles : \E q \in profiles' : q.at = p.at BY DEF Written, Profiled
  <2> QED BY <2>1, <2>2, <2>3 DEF O!Instants
<1>4. J \subseteq 0..LastInstant /\ LastInstant \in Nat
  <2>1. LogTyped' BY LogInductive DEF LogIInv
  <2>2. \A i \in DOMAIN snapshots' : snapshots'[i] \in Snapshot BY <2>1, ElementOfSeq DEF LogTyped
  <2>3. \A i \in DOMAIN snapshots' : snapshots'[i].at \in Instant BY <2>2 DEF Snapshot
  <2>4. \A c \in contributions' : c.at \in Instant BY <2>1 DEF LogTyped, Contribution
  <2>5. \A p \in profiles' : p.at \in Instant BY <2>1 DEF LogTyped, Profile
  <2> QED BY <2>3, <2>4, <2>5, RecordsParameters DEF O!Instants, Instant, O!Parameters
<1>5. \A c \in contributions' : c.at \in J BY DEF O!Instants
<1>6. \A p \in profiles' : p.at \in J BY DEF O!Instants
<1>7. /\ O!NewestObservationAt = IF I = {} THEN O!Never ELSE O!Max(I)
      /\ O!NewestObservationAt' = IF J = {} THEN O!Never ELSE O!Max(J)
  BY DEF O!NewestObservationAt
<1> HIDE DEF I, J
<1>8. J # {} => O!Max(J) \in J /\ \A x \in J : x <= O!Max(J) BY <1>4, GreatestIs
<1>9. I # {} => O!Max(I) \in I BY <1>3, <1>4, GreatestIs
<1>0. J \subseteq Nat BY <1>4
<1>10. O!NewestObservationAt' >= O!NewestObservationAt
  <2>1. CASE I = {} /\ J = {} BY <1>7, <2>1 DEF O!Never
  <2>2. CASE I = {} /\ J # {}
    <3>0. O!Max(J) \in J BY <1>8, <2>2
    <3>1. O!Max(J) \in Nat BY <1>0, <3>0
    <3> QED BY <1>7, <2>2, <3>1 DEF O!Never
  <2>3. CASE I # {}
    <3>1. O!Max(I) \in J /\ J # {} BY <1>3, <1>9, <2>3
    <3>0. O!Max(J) \in J /\ O!Max(I) <= O!Max(J) BY <1>8, <3>1
    <3>2. O!Max(I) <= O!Max(J) /\ O!Max(J) \in Nat /\ O!Max(I) \in Nat BY <1>0, <3>0, <3>1
    <3> QED BY <1>7, <2>3, <3>1, <3>2
  <2> QED BY <2>1, <2>2, <2>3
<1>11. \A c \in contributions' : c.at <= O!NewestObservationAt' BY <1>5, <1>7, <1>8
<1>12. \A p \in profiles' : p.at <= O!NewestObservationAt' BY <1>6, <1>7, <1>8
<1> QED BY <1>2, <1>10, <1>11, <1>12 DEF O!AnchorCovers
---------------------------------------------------------------------------
(* The collector alone keeps the rows of a repository in order: it refuses *)
(* a clock that stands before the newest of them.                          *)
LEMMA Refuses ==
  ASSUME LogIInv, NEW r \in O!Tracked, clock >= O!Max(O!Times(r)), NEW i \in DOMAIN snapshots, snapshots[i].repo = r
  PROVE  snapshots[i].at <= clock
<1>1. \A j \in DOMAIN snapshots : snapshots[j] \in Snapshot BY ElementOfSeq DEF LogIInv, LogTyped
<1>2. \A j \in DOMAIN snapshots : snapshots[j].at \in Instant BY <1>1 DEF Snapshot
<1>3. i \in O!Of(r) /\ O!Of(r) \subseteq DOMAIN snapshots BY DEF O!Of
<1> DEFINE T == O!Times(r)
<1>4. snapshots[i].at \in T /\ T \subseteq 0..LastInstant BY <1>2, <1>3 DEF O!Times, Instant
<1>5. LastInstant \in Nat BY RecordsParameters DEF O!Parameters
<1> HIDE DEF T
<1>6. O!Max(T) \in T /\ snapshots[i].at <= O!Max(T) BY <1>4, <1>5, GreatestIs
<1>0. T \subseteq Nat /\ clock \in Nat BY <1>4, <1>5 DEF LogIInv, LogTyped, Instant
<1>7. snapshots[i].at \in Nat /\ O!Max(T) \in Nat BY <1>0, <1>4, <1>6
<1>8. clock >= O!Max(T) BY DEF T
<1> QED BY <1>0, <1>6, <1>7, <1>8

LEMMA StaysInOrder ==
  ASSUME LogIInv, InOrder, O!Collect \/ UNCHANGED log
  PROVE  InOrder'
<1>0. clock \in Instant /\ snapshots \in Seq(Snapshot) BY DEF LogIInv, LogTyped
<1>1. CASE UNCHANGED snapshots BY <1>1 DEF InOrder
<1>2. ASSUME NEW r \in Observed, NEW v \in Counter, NEW T \in SUBSET Topic, O!StageLightweight(r, v, T)
      PROVE  InOrder'
  <2>1. O!RecordObservation(r, v) /\ O!Of(r) = {} BY <1>2 DEF O!StageLightweight, O!Tracked
  <2>2. \A i \in DOMAIN snapshots : snapshots[i].repo = r => snapshots[i].at <= clock BY <2>1 DEF O!Of
  <2>3. Wrote(r) BY <2>1, Recording
  <2> QED BY <1>0, <2>2, <2>3, WroteInOrder
<1>3. ASSUME NEW r \in Observed, NEW v \in Counter, NEW T \in SUBSET Topic, O!StageObservation(r, v, T)
      PROVE  InOrder'
  <2>1. O!RecordObservation(r, v) /\ r \in O!Tracked /\ clock >= O!Max(O!Times(r)) BY <1>3 DEF O!StageObservation
  <2>2. \A i \in DOMAIN snapshots : snapshots[i].repo = r => snapshots[i].at <= clock BY <2>1, Refuses
  <2>3. Wrote(r) BY <2>1, Recording
  <2> QED BY <1>0, <2>2, <2>3, WroteInOrder
<1>4. CASE O!SetClock BY <1>1, <1>4 DEF O!SetClock
<1>5. ASSUME NEW r \in Observed, NEW counts \in O!Counts, O!Enrich(r, counts) PROVE InOrder'
  BY <1>1, <1>5 DEF O!Enrich
<1>6. ASSUME NEW d \in Contributor, NEW v \in Counter, NEW force \in BOOLEAN, O!SyncProfile(d, v, force)
      PROVE  InOrder'
  BY <1>1, <1>6 DEF O!SyncProfile
<1>7. CASE UNCHANGED log BY <1>1, <1>7 DEF log
<1> QED BY <1>2, <1>3, <1>4, <1>5, <1>6, <1>7 DEF O!Collect

(* Then the row of the greatest ID is the one of the latest instant.       *)
LEMMA LatestIsOne ==
  ASSUME LogIInv, InOrder
  PROVE  O!LatestAgree
<1> SUFFICES ASSUME NEW r \in O!Tracked PROVE O!LatestByRepository(r) = O!LatestSnapshot(r) BY DEF O!LatestAgree
<1> DEFINE F == O!Of(r)
           T == O!Times(r)
           m == O!Max(F)
           t == O!Max(T)
<1>1. snapshots \in Seq(Snapshot) /\ Len(snapshots) \in Nat /\ DOMAIN snapshots = 1..Len(snapshots)
  BY DEF LogIInv, LogTyped
<1>2. \A j \in DOMAIN snapshots : snapshots[j].at \in Nat /\ snapshots[j].at \in 0..LastInstant
  <2>1. \A j \in DOMAIN snapshots : snapshots[j] \in Snapshot BY <1>1, ElementOfSeq
  <2> QED BY <2>1 DEF Snapshot, Instant
<1>3. F # {} /\ F \subseteq 0..Len(snapshots) BY <1>1 DEF O!Tracked, O!Of
<1>4. \A i \in F : i \in DOMAIN snapshots /\ snapshots[i].repo = r BY DEF O!Of
<1>5. \A x : x \in T <=> \E i \in F : x = snapshots[i].at BY DEF O!Times
<1>6. LastInstant \in Nat BY RecordsParameters DEF O!Parameters
<1>7. O!LatestByRepository(r) = m /\ O!LatestSnapshot(r) = CHOOSE i \in F : snapshots[i].at = t
  BY DEF O!LatestByRepository, O!LatestSnapshot
<1> HIDE DEF F, T
<1>8. m \in F /\ \A i \in F : i <= m BY <1>1, <1>3, GreatestIs
<1>9. T # {} /\ T \subseteq 0..LastInstant BY <1>2, <1>3, <1>4, <1>5
<1>10. t \in T /\ \A x \in T : x <= t BY <1>6, <1>9, GreatestIs
<1> HIDE DEF m, t
<1>11. \A i \in F : snapshots[i].at <= snapshots[m].at
  <2> SUFFICES ASSUME NEW i \in F PROVE snapshots[i].at <= snapshots[m].at OBVIOUS
  <2>1. i \in DOMAIN snapshots /\ m \in DOMAIN snapshots /\ i \in Nat /\ m \in Nat /\ snapshots[i].repo = snapshots[m].repo
    BY <1>1, <1>4, <1>8
  <2>2. snapshots[i].at \in Nat /\ snapshots[m].at \in Nat BY <1>2, <2>1
  <2>3. CASE i = m BY <2>2, <2>3
  <2>4. CASE i < m
    <3>1. snapshots[i].at < snapshots[m].at BY <2>1, <2>4 DEF InOrder
    <3> QED BY <2>2, <3>1
  <2>5. i = m \/ i < m BY <1>8, <2>1
  <2> QED BY <2>3, <2>4, <2>5
<1>12. snapshots[m].at = t
  <2>1. PICK i \in F : t = snapshots[i].at BY <1>5, <1>10
  <2>2. snapshots[i].at <= snapshots[m].at /\ snapshots[m].at <= t BY <1>5, <1>8, <1>10, <1>11
  <2>3. snapshots[i].at \in Nat /\ snapshots[m].at \in Nat BY <1>2, <1>4, <1>8
  <2> QED BY <2>1, <2>2, <2>3
<1>13. \A i \in F : snapshots[i].at = t => i = m BY <1>4, <1>8, <1>12 DEF LogIInv, O!TypeOK
<1> QED BY <1>7, <1>8, <1>12, <1>13

LEMMA LogInitially ==
  ASSUME RecordsInit
  PROVE  LogIInv /\ InOrder
<1>1. /\ clock \in 0..LastInstant /\ snapshots = <<>> /\ contributions = {} /\ profiles = {}
      /\ links = [l \in {} |-> 0]
  BY DEF RecordsInit, O!Init
<1>2. snapshots \in Seq(Snapshot) /\ DOMAIN snapshots = {} BY <1>1
<1>3. DOMAIN links = {} BY <1>1
<1> QED BY <1>1, <1>2, <1>3 DEF LogIInv, LogTyped, Instant, InOrder, O!TypeOK, O!LinksObserved

LEMMA LogMoves ==
  ASSUME [RecordsNext]_recordsVars
  PROVE  /\ UNCHANGED part
         /\ O!Next \/ UNCHANGED log
         /\ part = "collector" => O!Collect \/ UNCHANGED log
<1>1. CASE UNCHANGED recordsVars BY <1>1 DEF recordsVars
<1>2. CASE RecordsNext
  <2>1. UNCHANGED part BY <1>2 DEF RecordsNext
  <2>2. \/ UNCHANGED log
        \/ part = "collector" /\ O!Collect
        \/ part = "library" /\ O!Next
    BY <1>2 DEF RecordsNext
  <2>3. O!Collect => O!Next BY DEF O!Next
  <2> QED BY <2>1, <2>2, <2>3
<1> QED BY <1>1, <1>2

(* storage/repositories.py: no instant is observed twice, every count a    *)
(* link shows was observed for it, and with the collector alone all        *)
(* readers of the newest snapshot see the same one -- under any clock, for *)
(* any number of repositories, contributors and observations.              *)
THEOREM LogHolds == RecordsSpec => []LogIsSound
<1> DEFINE Inv == LogIInv /\ (part = "collector" => InOrder)
<1>1. RecordsInit => Inv BY LogInitially
<1>2. Inv /\ [RecordsNext]_recordsVars => Inv'
  <2> SUFFICES ASSUME Inv, [RecordsNext]_recordsVars PROVE Inv' OBVIOUS
  <2>1. LogIInv' BY LogMoves, LogSteps, LogInductive
  <2>2. part' = "collector" => InOrder' BY LogMoves, StaysInOrder
  <2> QED BY <2>1, <2>2
<1>3. Inv => LogIsSound BY LatestIsOne DEF LogIInv, LogIsSound
<1> HIDE DEF Inv
<1> QED BY <1>1, <1>2, <1>3, PTL DEF RecordsSpec

(* ... and what was observed stays observed: only rows of the present      *)
(* instant change, the anchor of the reports never goes back, and nothing  *)
(* is observed after it.                                                   *)
THEOREM HistoryStays == RecordsSpec => HistoryIsKept
<1>1. RecordsInit => LogIInv BY LogInitially
<1>2. LogIInv /\ [RecordsNext]_recordsVars => LogIInv' BY LogMoves, LogSteps, LogInductive
<1>3. LogIInv /\ [RecordsNext]_recordsVars => [O!HistoryUntouched /\ O!AnchorCovers]_log
  BY LogMoves, LogSteps, Kept
<1> QED BY <1>1, <1>2, <1>3, PTL DEF RecordsSpec, HistoryIsKept
(***************************************************************************)
(* Names, owners and rows.                                                 *)
(***************************************************************************)
Row == [name : Name, owner : Developer \cup {None}]

NamesTyped ==
  /\ name \in [Repo -> Name] /\ owner \in [Repo -> Developer]
  /\ row \in [Repo -> Row \cup {None}] /\ known \subseteq Developer
  /\ candidate = None \/ candidate \in [repo : Repo, name : Name]
  /\ recorded \in [Repo -> SUBSET Repo]

OneOfAName == \A r, q \in Tracked : row[r].name = row[q].name => r = q

NamesIInv == NamesTyped /\ OneOfAName /\ NoMixUp

LEMMA Linking ==
  ASSUME NamesIInv, NEW r \in Repo, NEW old \in Developer \cup {None}
  PROVE  OwnerLink(r, old) \in Developer \cup {None}
BY DEF NamesIInv, NamesTyped, OwnerLink

(* A row that takes a free name leaves the names of the rows apart.        *)
LEMMA TakesAName ==
  ASSUME NamesIInv, NEW r \in Repo, NEW n \in Name, NameIsFree(r, n), NEW x \in Row, x.name = n,
         row' = [row EXCEPT ![r] = x]
  PROVE  row' \in [Repo -> Row \cup {None}] /\ OneOfAName'
<1>1. row \in [Repo -> Row \cup {None}] BY DEF NamesIInv, NamesTyped
<1>2. /\ row' \in [Repo -> Row \cup {None}] /\ row'[r] = x
      /\ \A q \in Repo : q # r => row'[q] = row[q]
  BY <1>1
<1>3. ASSUME NEW p \in Repo, NEW q \in Repo, p # q, row'[p] # None, row'[q] # None
      PROVE  row'[p].name # row'[q].name
  <2>1. CASE p # r /\ q # r
    <3>1. row'[p] = row[p] /\ row'[q] = row[q] /\ p \in Tracked /\ q \in Tracked
      BY <1>2, <1>3, <2>1 DEF Tracked
    <3> QED BY <1>3, <3>1 DEF NamesIInv, OneOfAName
  <2>2. CASE p = r
    <3>1. row'[p].name = n /\ row'[q] = row[q] /\ q \in Tracked \ {r} BY <1>2, <1>3, <2>2 DEF Tracked
    <3> QED BY <3>1 DEF NameIsFree
  <2>3. CASE q = r
    <3>1. row'[q].name = n /\ row'[p] = row[p] /\ p \in Tracked \ {r} BY <1>2, <1>3, <2>3 DEF Tracked
    <3> QED BY <3>1 DEF NameIsFree
  <2> QED BY <2>1, <2>2, <2>3
<1> QED BY <1>2, <1>3 DEF OneOfAName, Tracked

LEMMA KeepsRows ==
  ASSUME NamesIInv, UNCHANGED rows, name' \in [Repo -> Name], owner' \in [Repo -> Developer],
         candidate' = None \/ candidate' \in [repo : Repo, name : Name]
  PROVE  NamesIInv'
BY DEF NamesIInv, NamesTyped, OneOfAName, NoMixUp, Tracked, rows

(* What is read under a name and has the row's ID is the row's.            *)
LEMMA Holding ==
  ASSUME NamesIInv, NEW r \in Repo, NEW n, At(n) = r, recorded' = [recorded EXCEPT ![r] = @ \cup {At(n)}]
  PROVE  recorded' \in [Repo -> SUBSET Repo] /\ NoMixUp'
BY DEF NamesIInv, NamesTyped, NoMixUp

LEMMA Staging ==
  ASSUME NamesIInv, Stage
  PROVE  NamesIInv'
<1> DEFINE r == candidate.repo
           n == candidate.name
<1>1. r \in Repo /\ n \in Name /\ candidate' = None /\ UNCHANGED github BY DEF NamesIInv, NamesTyped, Stage
<1>2. name' \in [Repo -> Name] /\ owner' \in [Repo -> Developer] BY <1>1 DEF NamesIInv, NamesTyped, github
<1>3. CASE Rejected BY <1>1, <1>2, <1>3, KeepsRows DEF Rejected
<1>4. CASE Follow
  <2> DEFINE x == [row[r] EXCEPT !.name = n]
  <2>1. r \in Tracked /\ NameIsFree(r, n) /\ row' = [row EXCEPT ![r] = x] /\ UNCHANGED <<known, recorded>>
    BY <1>4 DEF Follow
  <2>2. row[r] \in Row BY <1>1, <2>1 DEF NamesIInv, NamesTyped, Tracked
  <2>3. x \in Row /\ x.name = n BY <1>1, <2>2 DEF Row
  <2> HIDE DEF x, r, n
  <2>4. row' \in [Repo -> Row \cup {None}] /\ OneOfAName' BY <1>1, <2>1, <2>3, TakesAName
  <2> QED BY <1>1, <1>2, <2>1, <2>4 DEF NamesIInv, NamesTyped, NoMixUp
<1>5. CASE Add
  <2> DEFINE x == [name |-> n, owner |-> OwnerLink(r, None)]
  <2>1. /\ At(n) = r /\ NameIsFree(r, n) /\ row' = [row EXCEPT ![r] = x]
        /\ recorded' = [recorded EXCEPT ![r] = @ \cup {At(n)}] /\ UNCHANGED known
    BY <1>5 DEF Add
  <2>2. x \in Row /\ x.name = n BY <1>1, Linking DEF Row
  <2> HIDE DEF x, r, n
  <2>3. row' \in [Repo -> Row \cup {None}] /\ OneOfAName' BY <1>1, <2>1, <2>2, TakesAName
  <2>4. recorded' \in [Repo -> SUBSET Repo] /\ NoMixUp' BY <1>1, <2>1, Holding
  <2> QED BY <1>1, <1>2, <2>1, <2>3, <2>4 DEF NamesIInv, NamesTyped
<1> QED BY <1>3, <1>4, <1>5 DEF Stage

LEMMA Refreshing ==
  ASSUME NamesIInv, NEW r \in Repo, Refresh(r)
  PROVE  NamesIInv'
<1> DEFINE x == [row[r] EXCEPT !.owner = OwnerLink(r, @)]
<1>1. /\ r \in Tracked /\ At(row[r].name) = r /\ row' = [row EXCEPT ![r] = x]
      /\ recorded' = [recorded EXCEPT ![r] = @ \cup {At(row[r].name)}]
      /\ UNCHANGED <<name, owner, known, candidate>>
  BY DEF Refresh, github
<1>2. row[r] \in Row BY <1>1 DEF NamesIInv, NamesTyped, Tracked
<1>3. row[r].owner \in Developer \cup {None} /\ row[r].name \in Name BY <1>2 DEF Row
<1>4. OwnerLink(r, row[r].owner) \in Developer \cup {None} BY <1>3, Linking
<1>5. x \in Row /\ x.name = row[r].name BY <1>2, <1>4 DEF Row
<1>6. NameIsFree(r, row[r].name) BY <1>1 DEF NameIsFree, NamesIInv, OneOfAName, Tracked
<1> HIDE DEF x
<1>7. row' \in [Repo -> Row \cup {None}] /\ OneOfAName' BY <1>1, <1>3, <1>5, <1>6, TakesAName
<1>8. recorded' \in [Repo -> SUBSET Repo] /\ NoMixUp' BY <1>1, Holding
<1> QED BY <1>1, <1>7, <1>8 DEF NamesIInv, NamesTyped

LEMMA NamesInductive == NamesIInv /\ [Next]_vars => NamesIInv'
<1> SUFFICES ASSUME NamesIInv, [Next]_vars PROVE NamesIInv' OBVIOUS
<1>0. name \in [Repo -> Name] /\ owner \in [Repo -> Developer]
      /\ (candidate = None \/ candidate \in [repo : Repo, name : Name])
  BY DEF NamesIInv, NamesTyped
<1>1. ASSUME NEW r \in Repo, NEW n \in Name, Rename(r, n) PROVE NamesIInv'
  <2>1. name' = [name EXCEPT ![r] = n] /\ UNCHANGED <<owner, rows, candidate>> BY <1>1 DEF Rename
  <2> QED BY <1>0, <2>1, KeepsRows
<1>2. ASSUME NEW r \in Repo, NEW d \in Developer, Transfer(r, d) PROVE NamesIInv'
  <2>1. owner' = [owner EXCEPT ![r] = d] /\ UNCHANGED <<name, rows, candidate>> BY <1>2 DEF Transfer
  <2> QED BY <1>0, <2>1, KeepsRows
<1>3. ASSUME NEW r \in Repo, Search(r) PROVE NamesIInv'
  <2>1. candidate' = [repo |-> r, name |-> name[r]] /\ UNCHANGED <<name, owner, rows>> BY <1>3 DEF Search, github
  <2> QED BY <1>0, <2>1, KeepsRows
<1>4. ASSUME NEW r \in Repo, NEW d \in Developer, Enrich(r, d) PROVE NamesIInv'
  <2>1. known' = known \cup {d} /\ UNCHANGED <<name, owner, row, recorded, candidate>> BY <1>4 DEF Enrich, github
  <2> QED BY <2>1 DEF NamesIInv, NamesTyped, OneOfAName, NoMixUp, Tracked
<1>5. CASE UNCHANGED vars BY <1>0, <1>5, KeepsRows DEF vars, github
<1> QED BY <1>1, <1>2, <1>3, <1>4, <1>5, Staging, Refreshing DEF Next

(* Tracking: no two rows have one name, and none holds what was observed   *)
(* of another repository, however names move between a search, a detail    *)
(* request and a poll, for any number of repositories, names and changes.  *)
THEOREM RowsHold == RecordsSpec => []RowsAreTheirs
<1>1. RecordsInit => NamesIInv
  <2>1. Init => NamesIInv
    BY TrackingAssumption DEF Init, NamesIInv, NamesTyped, OneOfAName, NoMixUp, Tracked
  <2> QED BY <2>1 DEF RecordsInit
<1>2. NamesIInv /\ [RecordsNext]_recordsVars => NamesIInv'
  <2>1. [RecordsNext]_recordsVars => [Next]_vars BY DEF RecordsNext, recordsVars
  <2> QED BY <2>1, NamesInductive
<1>3. NamesIInv => RowsAreTheirs
  BY DEF NamesIInv, NamesTyped, OneOfAName, RowsAreTheirs, TypeOK, Row
<1> QED BY <1>1, <1>2, <1>3, PTL DEF RecordsSpec
(***************************************************************************)
(* Searches, page by page.                                                 *)
(***************************************************************************)
Least(a, b) == IF a < b THEN a ELSE b

PagesTyped ==
  /\ listing \in P!Listings /\ initial \in P!Listings \cup {Moved}
  /\ cohort \in 0..Len(Limit) /\ most \in 0..MaxCandidates
  /\ got \in Seq(Item) /\ Len(got) <= most
  /\ page \in Nat \ {0} /\ asked \in Nat /\ examined \in 0..MaxCandidates
  /\ pc \in {"next", "ask", "truncated", "refused", "done"}
  /\ cohort > 0 => most > 0 /\ most <= Limit[cohort]

(* While a cohort is read every page so far was a full one, and no more    *)
(* can be yielded than there are candidates left.                          *)
FullPages ==
  pc = "ask" =>
    /\ cohort > 0 /\ Len(got) = Least((page - 1) * P!PageSize, most)
    /\ examined + (most - Len(got)) <= MaxCandidates

(* The pages of the plan that were asked for, or are of a cohort that is   *)
(* over: there are at least as many as there were requests.                *)
Behind == {x \in P!PlannedPages : x[1] < cohort \/ (x[1] = cohort /\ (pc # "ask" \/ x[2] < page))}
Counted == page <= asked + 1 /\ asked <= Cardinality(Behind)

(* What was yielded of a listing that holds still is its beginning.        *)
Beginning ==
  initial # Moved =>
    /\ listing = initial
    /\ pc = "ask" => Len(got) <= Len(initial) /\ got = SubSeq(initial, 1, Len(got))

PagesIInv == PagesTyped /\ FullPages /\ Counted /\ Beginning /\ P!StillListingIsRead

LEMMA SameSize ==
  ASSUME NEW S
  PROVE  (P!IsFiniteSet(S) <=> IsFiniteSet(S)) /\ P!Cardinality(S) = Cardinality(S)
<1>1. P!IsFiniteSet(S) <=> IsFiniteSet(S) BY DEF IsFiniteSet, P!IsFiniteSet
<1>2. P!Cardinality(S) = Cardinality(S) BY DEF Cardinality, P!Cardinality
<1> QED BY <1>1, <1>2

LEMMA PlanIs ==
  /\ IsFiniteSet(Item) /\ Moved \notin P!Listings
  /\ Limit \in Seq(Nat \ {0}) /\ PerPage \in Nat \ {0} /\ MaxCandidates \in Nat /\ Len(Limit) \in Nat
  /\ \A c \in 1..Len(Limit) : Limit[c] \in Nat \ {0}
  /\ \A s \in P!Listings : s \in Seq(Item)
<1>1. P!Parameters BY RecordsParameters
<1>2. Limit \in Seq(Nat \ {0}) /\ IsFiniteSet(Item) BY <1>1, SameSize DEF P!Parameters
<1>5. P!Cardinality(Item) \in Nat BY <1>2, SameSize, FS_CardinalityType
<1>3. \A c \in 1..Len(Limit) : Limit[c] \in Nat \ {0} BY <1>2, ElementOfSeq
<1>4. ASSUME NEW s \in P!Listings PROVE s \in Seq(Item)
  <2>1. PICK m \in 0..P!Cardinality(Item) : s \in [1..m -> Item] BY <1>4 DEF P!Listings, P!BoundedSeq, P!SeqOf
  <2>2. m \in Nat BY <1>5, <2>1
  <2> QED BY <2>1, <2>2
<1> QED BY <1>1, <1>2, <1>3, <1>4 DEF P!Parameters

LEMMA Product == ASSUME NEW a \in Nat, NEW b \in Nat PROVE a * b \in Nat
OBVIOUS
LEMMA NextProduct == ASSUME NEW a \in Nat \ {0}, NEW b \in Nat PROVE a * b = (a - 1) * b + b /\ (a - 1) * b \in Nat
OBVIOUS
LEMMA NoPages == ASSUME NEW a \in Nat PROVE 0 * a = 0
OBVIOUS
LEMMA OnlyFirst == ASSUME NEW a \in Nat, NEW m \in Nat, a * m < m PROVE a = 0
OBVIOUS
LEMMA PagesCover == ASSUME NEW a \in Nat, NEW b \in Nat \ {0}, NEW l \in Nat, a * b < l PROVE a + 1 <= (l + b - 1) \div b
OBVIOUS

LEMMA PlanIsFinite == IsFiniteSet(P!PlannedPages)
<1> DEFINE C == DOMAIN Limit
           Row1(c) == {c} \X (1..P!PagesOf(Limit[c]))
           S == {Row1(c) : c \in C}
           f == [c \in C |-> Row1(c)]
<1>1. IsFiniteSet(C) BY PlanIs, FS_Interval
<1>2. ASSUME NEW T \in S PROVE IsFiniteSet(T)
  <2>1. PICK c \in C : T = Row1(c) OBVIOUS
  <2>2. Limit[c] \in Nat \ {0} /\ PerPage \in Nat \ {0} BY PlanIs
  <2>3. P!PagesOf(Limit[c]) \in Int BY <2>2 DEF P!PagesOf
  <2>4. IsFiniteSet(1..P!PagesOf(Limit[c])) BY <2>3, FS_Interval
  <2> QED BY <2>1, <2>4, FS_Singleton, FS_Product
<1>3. f \in Surjection(C, S) BY DEF Surjection
<1>4. IsFiniteSet(S) BY <1>1, <1>3, FS_Surjection
<1>5. P!PlannedPages = UNION S BY DEF P!PlannedPages
<1> HIDE DEF S
<1> QED BY <1>2, <1>4, <1>5, FS_UNION

LEMMA BehindIsCounted ==
  Cardinality(Behind) \in Nat /\ Cardinality(Behind) <= P!Planned /\ P!Planned \in Nat /\ IsFiniteSet(Behind)
<1>1. Behind \subseteq P!PlannedPages BY DEF Behind
<1>2. P!Planned = Cardinality(P!PlannedPages) BY SameSize DEF P!Planned
<1> QED BY <1>1, <1>2, PlanIsFinite, FS_Subset, FS_CardinalityType
LEMMA PlannedIs == \A x \in P!PlannedPages : x[1] \in 1..Len(Limit) /\ x[2] \in Nat
<1> SUFFICES ASSUME NEW x \in P!PlannedPages PROVE x[1] \in 1..Len(Limit) /\ x[2] \in Nat OBVIOUS
<1>1. PICK c \in DOMAIN Limit : x \in {c} \X (1..P!PagesOf(Limit[c])) BY DEF P!PlannedPages
<1>2. DOMAIN Limit = 1..Len(Limit) /\ Limit[c] \in Nat \ {0} /\ PerPage \in Nat \ {0} BY <1>1, PlanIs
<1>3. P!PagesOf(Limit[c]) \in Int BY <1>2 DEF P!PagesOf
<1> QED BY <1>1, <1>2, <1>3

(* A request is for a page of the plan that was not asked for before.      *)
LEMMA AskedFor ==
  ASSUME PagesIInv, P!Wanted
  PROVE  /\ Len(got) \in Nat /\ Len(got) < most /\ most \in Nat /\ cohort \in 1..Len(Limit)
         /\ P!PageSize \in Nat \ {0} /\ P!PageSize = Least(PerPage, most)
         /\ (page - 1) * P!PageSize = Len(got) /\ page * P!PageSize = Len(got) + P!PageSize
         /\ <<cohort, page>> \in P!PlannedPages
<1> DEFINE z == P!PageSize
<1>1. /\ got \in Seq(Item) /\ Len(got) \in Nat /\ Len(got) < most /\ most \in Nat /\ cohort \in 1..Len(Limit)
      /\ page \in Nat \ {0} /\ most <= Limit[cohort] /\ PerPage \in Nat \ {0}
  BY PlanIs DEF PagesIInv, PagesTyped, FullPages, P!Wanted
<1>2. z = Least(PerPage, most) BY <1>1 DEF P!PageSize, P!AtMost, Least
<1>3. z \in Nat \ {0} BY <1>1, <1>2 DEF Least
<1>4. Len(got) = Least((page - 1) * z, most) BY DEF PagesIInv, FullPages, P!Wanted
<1> HIDE DEF z
<1>5. page * z = (page - 1) * z + z /\ (page - 1) * z \in Nat BY <1>1, <1>3, NextProduct
<1>6. (page - 1) * z = Len(got) BY <1>1, <1>4, <1>5 DEF Least
<1>7. Limit[cohort] \in Nat \ {0} BY <1>1, PlanIs
<1>8. page <= P!PagesOf(Limit[cohort])
  <2>1. CASE PerPage < most
    <3> DEFINE a == page - 1
               l == Limit[cohort]
    <3>1. z = PerPage BY <1>2, <2>1 DEF Least
    <3>2. a * PerPage = Len(got) BY <1>6, <3>1
    <3>3. a \in Nat /\ l \in Nat /\ page = a + 1 /\ Len(got) < l BY <1>1, <1>7
    <3>4. (l + PerPage - 1) \div PerPage = P!PagesOf(Limit[cohort]) BY DEF P!PagesOf
    <3> HIDE DEF a, l
    <3>5. a * PerPage < l BY <3>2, <3>3
    <3>6. a + 1 <= (l + PerPage - 1) \div PerPage BY <1>1, <3>3, <3>5, PagesCover
    <3> QED BY <3>3, <3>4, <3>6
  <2>2. CASE ~(PerPage < most)
    <3>1. z = most BY <1>2, <2>2 DEF Least
    <3>2. (page - 1) * most < most BY <1>1, <1>6, <3>1
    <3>3. page - 1 = 0 BY <1>1, <3>2, OnlyFirst
    <3>4. 0 * PerPage < Limit[cohort] BY <1>1, <1>7
    <3>5. 0 + 1 <= (Limit[cohort] + PerPage - 1) \div PerPage BY <1>1, <1>7, <3>4, PagesCover
    <3>6. (Limit[cohort] + PerPage - 1) \div PerPage = P!PagesOf(Limit[cohort]) BY DEF P!PagesOf
    <3> QED BY <1>1, <3>3, <3>5, <3>6
  <2> QED BY <2>1, <2>2
<1>9. <<cohort, page>> \in {cohort} \X (1..P!PagesOf(Limit[cohort]))
  <2>1. P!PagesOf(Limit[cohort]) \in Int BY <1>1, <1>7 DEF P!PagesOf
  <2> QED BY <1>1, <1>8, <2>1
<1>10. <<cohort, page>> \in P!PlannedPages
  <2>1. cohort \in DOMAIN Limit BY <1>1, PlanIs
  <2> QED BY <1>9, <2>1 DEF P!PlannedPages
<1> QED BY <1>1, <1>2, <1>3, <1>5, <1>6, <1>10 DEF z

LEMMA Requested ==
  ASSUME PagesIInv, P!Wanted, asked' = P!AtMost(asked + 1, P!Planned + 1), page' \in {page, page + 1},
         Behind \subseteq Behind', <<cohort, page>> \in Behind'
  PROVE  asked' \in Nat /\ Counted'
<1> DEFINE x == <<cohort, page>>
<1>1. asked \in Nat /\ page \in Nat /\ page <= asked + 1 /\ asked <= Cardinality(Behind)
  BY DEF PagesIInv, PagesTyped, Counted
<1>2. x \notin Behind
  <2>1. cohort \in Nat /\ pc = "ask" BY <1>1, AskedFor DEF P!Wanted
  <2> QED BY <1>1, <2>1 DEF Behind
<1>3. Behind' \subseteq P!PlannedPages BY DEF Behind
<1>4. IsFiniteSet(Behind') /\ Cardinality(Behind') <= Cardinality(P!PlannedPages) /\ Cardinality(Behind') \in Nat
      /\ Cardinality(P!PlannedPages) \in Nat
  BY <1>3, PlanIsFinite, FS_Subset, FS_CardinalityType
<1>5. Cardinality(Behind \cup {x}) = Cardinality(Behind) + 1 /\ Cardinality(Behind) \in Nat
  BY <1>2, BehindIsCounted, FS_AddElement
<1>6. Behind \cup {x} \subseteq Behind' OBVIOUS
<1>7. Cardinality(Behind \cup {x}) <= Cardinality(Behind') BY <1>4, <1>6, FS_Subset
<1>8. P!Planned = Cardinality(P!PlannedPages) BY SameSize DEF P!Planned
<1> HIDE DEF x
<1>9. asked + 1 <= Cardinality(Behind') /\ asked + 1 < P!Planned + 1 BY <1>1, <1>4, <1>5, <1>7, <1>8
<1>10. asked' = asked + 1 BY <1>9 DEF P!AtMost
<1>11. page' <= asked' + 1 BY <1>1, <1>10
<1> QED BY <1>1, <1>9, <1>10, <1>11 DEF Counted

LEMMA Unrequested ==
  ASSUME PagesIInv, asked' = asked, page' \in {1, page}, Behind \subseteq Behind'
  PROVE  asked' \in Nat /\ Counted'
<1>1. asked \in Nat /\ page \in Nat /\ page <= asked + 1 /\ asked <= Cardinality(Behind)
  BY DEF PagesIInv, PagesTyped, Counted
<1>2. Behind' \subseteq P!PlannedPages BY DEF Behind
<1>3. IsFiniteSet(Behind') /\ Cardinality(Behind') \in Nat BY <1>2, PlanIsFinite, FS_Subset, FS_CardinalityType
<1>4. Cardinality(Behind) <= Cardinality(Behind') /\ Cardinality(Behind) \in Nat BY <1>3, FS_Subset, BehindIsCounted
<1>5. asked' <= Cardinality(Behind') BY <1>1, <1>3, <1>4
<1>6. page' <= asked' + 1 BY <1>1
<1> QED BY <1>1, <1>5, <1>6 DEF Counted

LEMMA Grows ==
  ASSUME PagesTyped,
         \/ cohort' = cohort /\ (pc' = "ask" => pc = "ask" /\ page' \in {page, page + 1})
         \/ cohort' = cohort + 1
  PROVE  Behind \subseteq Behind'
<1> SUFFICES ASSUME NEW x \in Behind PROVE x \in Behind' OBVIOUS
<1>1. x \in P!PlannedPages /\ x[1] \in Nat /\ x[2] \in Nat /\ cohort \in Nat /\ page \in Nat
  BY PlannedIs, PlanIs DEF Behind, PagesTyped
<1> QED BY <1>1 DEF Behind
---------------------------------------------------------------------------
(* A page as it is listed: no longer than a page, and the whole of it      *)
(* unless the listing ends on it.                                          *)
LEMMA Listed ==
  ASSUME PagesIInv, P!Wanted
  PROVE  /\ P!OnPage \in Seq(Item) /\ Len(P!OnPage) \in Nat /\ Len(P!OnPage) <= P!PageSize
         /\ P!OnPage = SubSeq(listing, Len(got) + 1, Least(Len(got) + P!PageSize, Len(listing)))
         /\ Len(got) <= Len(listing) => Len(P!OnPage) = Least(Len(got) + P!PageSize, Len(listing)) - Len(got)
         /\ P!MoreFollow <=> Len(listing) > Len(got) + P!PageSize
<1> DEFINE z == P!PageSize
           g == Len(got)
           e == Least(g + z, Len(listing))
<1>1. /\ g \in Nat /\ z \in Nat \ {0} /\ (page - 1) * z = g /\ page * z = g + z
      /\ listing \in Seq(Item) /\ Len(listing) \in Nat
  BY AskedFor, PlanIs DEF PagesIInv, PagesTyped
<1>2. P!OnPage = SubSeq(listing, g + 1, e) BY <1>1 DEF P!OnPage, P!AtMost, Least
<1>3. P!MoreFollow <=> Len(listing) > g + z BY <1>1 DEF P!MoreFollow
<1> HIDE DEF z, g
<1>4. e \in Nat /\ e <= Len(listing) /\ e <= g + z BY <1>1 DEF Least
<1> HIDE DEF e
<1>5. \A i \in (g + 1)..e : listing[i] \in Item
  <2> TAKE i \in (g + 1)..e
  <2>1. i \in 1..Len(listing) BY <1>1, <1>4
  <2> QED BY <1>1, <2>1, ElementOfSeq
<1>6. /\ SubSeq(listing, g + 1, e) \in Seq(Item)
      /\ Len(SubSeq(listing, g + 1, e)) = IF g + 1 <= e THEN e - (g + 1) + 1 ELSE 0
  BY <1>1, <1>4, <1>5, SubSeqProperties
<1>7. Len(P!OnPage) \in Nat /\ Len(P!OnPage) <= z BY <1>1, <1>2, <1>4, <1>6
<1>8. g <= Len(listing) => Len(P!OnPage) = e - g
  <2>1. g <= Len(listing) => g <= e BY <1>1 DEF e, Least
  <2> QED BY <1>1, <1>2, <1>4, <1>6, <2>1
<1> QED BY <1>2, <1>3, <1>6, <1>7, <1>8 DEF z, g, e

(* What GitHub answers with: the page, or one with an item withheld.       *)
LEMMA Answered ==
  ASSUME PagesIInv, P!Wanted,
         NEW items \in {P!OnPage} \cup {P!RemoveAt(P!OnPage, i) : i \in DOMAIN P!OnPage}
  PROVE  items \in Seq(Item) /\ Len(items) \in Nat /\ Len(items) <= P!PageSize
         /\ (items = P!OnPage \/ Len(items) < Len(P!OnPage))
<1> DEFINE o == P!OnPage
           z == P!PageSize
<1>1. o \in Seq(Item) /\ Len(o) \in Nat /\ Len(o) <= z /\ z \in Nat BY Listed, AskedFor
<1> HIDE DEF o, z
<1>2. CASE items = o BY <1>1, <1>2 DEF o, z
<1>3. CASE \E i \in DOMAIN o : items = P!RemoveAt(o, i)
  <2>0. PICK i \in DOMAIN o : items = P!RemoveAt(o, i) BY <1>3
  <2>01. i \in 1..Len(o) BY <1>1
  <2>1. items = SubSeq(o, 1, i - 1) \o SubSeq(o, i + 1, Len(o)) BY <2>0 DEF P!RemoveAt
  <2>2. \A j \in 1..(i - 1) : o[j] \in Item BY <1>1, <2>01, ElementOfSeq
  <2>3. \A j \in (i + 1)..Len(o) : o[j] \in Item BY <1>1, <2>01, ElementOfSeq
  <2>4. SubSeq(o, 1, i - 1) \in Seq(Item) /\ Len(SubSeq(o, 1, i - 1)) = i - 1
    BY <1>1, <2>01, <2>2, SubSeqProperties
  <2>5. SubSeq(o, i + 1, Len(o)) \in Seq(Item) /\ Len(SubSeq(o, i + 1, Len(o))) = Len(o) - i
    BY <1>1, <2>01, <2>3, SubSeqProperties
  <2>6. items \in Seq(Item) /\ Len(items) = Len(SubSeq(o, 1, i - 1)) + Len(SubSeq(o, i + 1, Len(o)))
    BY <2>1, <2>4, <2>5, ConcatProperties
  <2>7. Len(items) = Len(o) - 1
    <3> DEFINE a == Len(SubSeq(o, 1, i - 1))
               b == Len(SubSeq(o, i + 1, Len(o)))
    <3>1. a = i - 1 /\ b = Len(o) - i /\ Len(items) = a + b BY <2>4, <2>5, <2>6
    <3> HIDE DEF a, b
    <3> QED BY <1>1, <2>01, <3>1
  <2> QED BY <1>1, <2>6, <2>7 DEF o, z
<1> QED BY <1>2, <1>3 DEF o

(* What is taken of an answer, no more than is still wanted.               *)
LEMMA Taken ==
  ASSUME PagesIInv, P!Wanted, NEW items \in Seq(Item), Len(items) \in Nat
  PROVE  /\ P!Yielded(items) = SubSeq(items, 1, Least(Len(items), most - Len(got)))
         /\ P!Yielded(items) \in Seq(Item)
         /\ Len(P!Yielded(items)) = Least(Len(items), most - Len(got))
         /\ Least(Len(items), most - Len(got)) \in Nat
         /\ got \o P!Yielded(items) \in Seq(Item)
         /\ Len(got \o P!Yielded(items)) = Len(got) + Least(Len(items), most - Len(got))
<1> DEFINE k == Least(Len(items), most - Len(got))
<1>1. Len(got) \in Nat /\ most \in Nat /\ Len(got) < most BY AskedFor
<1>2. k \in Nat /\ k <= Len(items) BY <1>1 DEF Least
<1>3. P!Yielded(items) = SubSeq(items, 1, k) BY DEF P!Yielded, P!AtMost, Least
<1> HIDE DEF k
<1>4. \A j \in 1..k : items[j] \in Item BY <1>2, ElementOfSeq
<1>5. SubSeq(items, 1, k) \in Seq(Item) /\ Len(SubSeq(items, 1, k)) = IF 1 <= k THEN k - 1 + 1 ELSE 0
  BY <1>2, <1>4, SubSeqProperties
<1>6. Len(SubSeq(items, 1, k)) = k BY <1>2, <1>5
<1>7. got \in Seq(Item) BY DEF PagesIInv, PagesTyped
<1>8. got \o SubSeq(items, 1, k) \in Seq(Item) /\ Len(got \o SubSeq(items, 1, k)) = Len(got) + k
  BY <1>5, <1>6, <1>7, ConcatProperties
<1> QED BY <1>2, <1>3, <1>5, <1>6, <1>8 DEF k

(* Of a listing that holds still the next page continues what there is.    *)
LEMMA Continues ==
  ASSUME PagesIInv, P!Wanted, initial # Moved
  PROVE  /\ listing = initial /\ initial \in Seq(Item) /\ Len(initial) \in Nat /\ Len(got) <= Len(initial)
         /\ Len(got) + Least(Len(P!OnPage), most - Len(got))
              = Least(Least(Len(got) + P!PageSize, Len(initial)), most)
         /\ got \o P!Yielded(P!OnPage) = SubSeq(initial, 1, Len(got) + Least(Len(P!OnPage), most - Len(got)))
<1> DEFINE o == P!OnPage
           z == P!PageSize
           g == Len(got)
           e == Least(g + z, Len(listing))
           k == Least(Len(o), most - g)
<1>1. /\ listing = initial /\ g <= Len(initial) /\ got = SubSeq(initial, 1, g)
      /\ initial \in Seq(Item) /\ Len(initial) \in Nat
  BY PlanIs DEF PagesIInv, PagesTyped, Beginning, P!Wanted
<1>2. g \in Nat /\ g < most /\ most \in Nat /\ z \in Nat \ {0} BY AskedFor
<1>3. o \in Seq(Item) /\ o = SubSeq(listing, g + 1, e) /\ Len(o) = e - g /\ Len(o) \in Nat BY <1>1, Listed
<1>4. P!Yielded(o) = SubSeq(o, 1, k) BY <1>3, Taken
<1> HIDE DEF z, g, o
<1>5. e \in Nat /\ e <= Len(initial) /\ g <= e BY <1>1, <1>2 DEF Least
<1> HIDE DEF e
<1>6. k \in Nat /\ k <= e - g BY <1>2, <1>3, <1>5 DEF Least
<1>7. g + k = Least(e, most) BY <1>2, <1>3, <1>5 DEF Least
<1> HIDE DEF k
<1>8. SubSeq(o, 1, k) = SubSeq(initial, g + 1, g + k)
  <2>1. CASE k = 0
    <3>1. SubSeq(o, 1, k) = <<>> BY <2>1, SubSeqEmpty
    <3>2. SubSeq(initial, g + 1, g + k) = <<>> BY <1>2, <2>1, SubSeqEmpty
    <3> QED BY <3>1, <3>2
  <2>2. CASE k # 0
    <3>1. k \in 1..(e - (g + 1) + 1) /\ 1 \in 1..(e - (g + 1) + 1) BY <1>2, <1>5, <1>6, <2>2
    <3>2. g + 1 \in 1..Len(initial) /\ e \in 1..Len(initial) BY <1>1, <1>2, <1>5, <1>6, <2>2
    <3> DEFINE i == g + 1
    <3> HIDE DEF i
    <3>3. i \in 1..Len(initial) /\ k \in 1..(e - i + 1) /\ 1 \in 1..(e - i + 1) BY <3>1, <3>2 DEF i
    <3>4. SubSeq(SubSeq(initial, i, e), 1, k) = SubSeq(initial, i + 1 - 1, i + k - 1)
      BY <1>1, <3>2, <3>3, SubSeqOfSubSeq
    <3>5. i + 1 - 1 = g + 1 /\ i + k - 1 = g + k BY <1>2, <1>6 DEF i
    <3>6. o = SubSeq(initial, i, e) BY <1>1, <1>3 DEF i
    <3> QED BY <3>4, <3>5, <3>6
  <2> QED BY <2>1, <2>2
<1>9. SubSeq(initial, 1, g) \o SubSeq(initial, g + 1, g + k) = SubSeq(initial, 1, g + k)
  <2>1. 1 \in 1..(Len(initial) + 1) /\ g \in (1 - 1)..Len(initial) /\ g + k \in g..Len(initial)
    BY <1>1, <1>2, <1>5, <1>6
  <2> QED BY <1>1, <2>1, ConcatAdjacentSubSeq
<1>10. got \o P!Yielded(o) = SubSeq(initial, 1, g + k) BY <1>1, <1>4, <1>8, <1>9
<1> QED BY <1>1, <1>7, <1>10 DEF o, z, g, e, k
---------------------------------------------------------------------------
LEMMA Asking == ASSUME PagesIInv, P!Ask PROVE PagesIInv'
<1> DEFINE z == P!PageSize
           g == Len(got)
           o == P!OnPage
<1>1. PICK items \in {o} \cup {P!RemoveAt(o, i) : i \in DOMAIN o}, linked \in {P!MoreFollow, FALSE} :
        /\ got' = got \o P!Yielded(items)
        /\ examined' = examined + Len(P!Yielded(items))
        /\ initial' = IF Len(items) < Len(o) \/ linked # P!MoreFollow THEN Moved ELSE initial
        /\ P!Proceed(items, linked)
  BY DEF P!Ask
<1>2. P!Wanted /\ asked' = P!AtMost(asked + 1, P!Planned + 1) /\ UNCHANGED <<listing, cohort, most>> BY DEF P!Ask
<1>3. items \in Seq(Item) /\ Len(items) \in Nat /\ Len(items) <= z /\ (items = o \/ Len(items) < Len(o))
  BY <1>2, Answered
<1> DEFINE k == Least(Len(items), most - g)
<1>4. got' \in Seq(Item) /\ Len(got') = g + k /\ examined' = examined + k /\ k \in Nat
  BY <1>1, <1>2, <1>3, Taken
<1>5. /\ g \in Nat /\ g < most /\ most \in Nat /\ cohort \in 1..Len(Limit) /\ z \in Nat \ {0}
      /\ page * z = g + z /\ page \in Nat \ {0} /\ <<cohort, page>> \in P!PlannedPages
  BY <1>2, AskedFor DEF PagesIInv, PagesTyped
<1>6. z' = z BY <1>2 DEF P!PageSize
<1>7. pc = "ask" /\ examined + (most - g) <= MaxCandidates /\ examined \in Nat /\ MaxCandidates \in Nat
  BY <1>2, PlanIs DEF P!Wanted, PagesIInv, PagesTyped, FullPages
<1>8. \/ linked /\ Len(items) = z /\ page' = page + 1 /\ pc' = "ask"
      \/ ~(linked /\ Len(items) = z) /\ page' = page /\ pc' \in {"truncated", "next"}
  BY <1>1, <1>7 DEF P!Proceed, P!EndCohort
<1> HIDE DEF z, g, o
<1>9. g + k <= most /\ k <= Len(items) /\ k <= most - g BY <1>3, <1>4, <1>5 DEF Least
<1>10. asked' \in Nat /\ Counted'
  <2>1. page' \in {page, page + 1} BY <1>8
  <2>2. Behind \subseteq Behind' BY <1>2, <1>7, <2>1, Grows DEF PagesIInv
  <2>3. pc' # "ask" \/ page < page' BY <1>5, <1>8
  <2>4. <<cohort, page>> \in Behind' BY <1>2, <1>5, <2>3 DEF Behind
  <2> QED BY <1>2, <2>1, <2>2, <2>4, Requested
<1>11. PagesTyped'
  <2>1. page' \in Nat \ {0} /\ pc' \in {"next", "ask", "truncated", "refused", "done"} BY <1>5, <1>8
  <2>2. examined' \in 0..MaxCandidates
    <3>1. k \in Nat /\ k <= most - g /\ examined' = examined + k BY <1>4, <1>9
    <3> HIDE DEF k
    <3> QED BY <1>5, <1>7, <3>1
  <2>3. initial' \in P!Listings \cup {Moved} BY <1>1 DEF PagesIInv, PagesTyped
  <2>4. Len(got') <= most BY <1>4, <1>9
  <2> QED BY <1>2, <1>4, <1>10, <2>1, <2>2, <2>3, <2>4 DEF PagesIInv, PagesTyped
<1>12. FullPages'
  <2> SUFFICES ASSUME pc' = "ask" PROVE cohort' > 0 /\ Len(got') = Least((page' - 1) * z', most')
                                        /\ examined' + (most' - Len(got')) <= MaxCandidates
    BY DEF FullPages, z
  <2>1. Len(items) = z /\ page' - 1 = page BY <1>5, <1>8
  <2>2. (page' - 1) * z' = g + z BY <1>5, <1>6, <2>1
  <2>3. Len(got') = Least((page' - 1) * z', most') BY <1>2, <1>4, <1>5, <2>1, <2>2 DEF Least
  <2>4. cohort' > 0 BY <1>2, <1>5, PlanIs
  <2>5. examined' + (most' - Len(got')) <= MaxCandidates
    <3>1. examined' = examined + k /\ most' = most /\ Len(got') = g + k BY <1>2, <1>4
    <3>2. examined \in Nat /\ g \in Nat /\ most \in Nat /\ k \in Nat BY <1>4, <1>5, <1>7
    <3> HIDE DEF k
    <3>3. examined + k + (most - (g + k)) = examined + (most - g) BY <3>2
    <3> QED BY <1>7, <3>1, <3>3
  <2> QED BY <2>3, <2>4, <2>5
<1>13. ASSUME initial' # Moved
       PROVE  /\ initial' = initial /\ listing = initial /\ Len(initial) \in Nat
              /\ got' = SubSeq(initial, 1, g + k) /\ g + k <= Len(initial)
              /\ pc' # "ask" => g + k = Least(most, Len(initial))
  <2>1. initial' = initial /\ initial # Moved /\ items = o /\ linked = P!MoreFollow
    BY <1>1, <1>3, <1>13
  <2>2. /\ listing = initial /\ Len(initial) \in Nat /\ g <= Len(initial)
        /\ g + k = Least(Least(g + z, Len(initial)), most)
        /\ got \o P!Yielded(o) = SubSeq(initial, 1, g + k)
    BY <1>2, <2>1, Continues DEF g, z, o
  <2>3. got' = SubSeq(initial, 1, g + k) BY <1>1, <2>1, <2>2
  <2>4. g + k <= Len(initial)
    <3> DEFINE w == g + k
               l == Len(initial)
    <3>1. w = Least(Least(g + z, l), most) /\ l \in Nat BY <2>2
    <3> HIDE DEF w, l
    <3>2. w <= l BY <1>5, <3>1 DEF Least
    <3> QED BY <3>2 DEF w, l
  <2>5. Len(o) = Least(g + z, Len(initial)) - g /\ (P!MoreFollow <=> Len(initial) > g + z)
    BY <1>2, <2>2, Listed DEF g, z, o
  <2>6. ASSUME pc' # "ask" PROVE g + k = Least(most, Len(initial))
    <3>1. ~(Len(initial) > g + z /\ Len(o) = z) BY <1>8, <2>1, <2>5, <2>6
    <3>2. Len(initial) <= g + z BY <1>5, <2>2, <2>5, <3>1 DEF Least
    <3> QED BY <1>5, <2>2, <3>2 DEF Least
  <2> QED BY <2>1, <2>2, <2>3, <2>4, <2>6
<1>14. Beginning' BY <1>2, <1>4, <1>13 DEF Beginning
<1>15. P!StillListingIsRead'
  <2> SUFFICES ASSUME pc' \in {"next", "truncated", "done"}, initial' # Moved
               PROVE  got' = SubSeq(initial', 1, P!AtMost(most', Len(initial')))
    BY DEF P!StillListingIsRead
  <2>1. g + k = Least(most, Len(initial)) BY <1>13
  <2>2. Least(most, Len(initial)) = P!AtMost(most', Len(initial')) BY <1>2, <1>13 DEF Least, P!AtMost
  <2> QED BY <1>13, <2>1, <2>2
<1> QED BY <1>10, <1>11, <1>12, <1>14, <1>15 DEF PagesIInv

(* What leaves the listings and what was yielded alone.                    *)
LEMMA Ending ==
  ASSUME PagesIInv, P!Enough
  PROVE  PagesIInv'
<1>1. /\ pc = "ask" /\ Len(got) = most /\ page' = page /\ pc' \in {"truncated", "next"}
      /\ UNCHANGED <<listing, initial, cohort, most, got, asked, examined>>
  BY DEF P!Enough, P!EndCohort, P!github
<1>2. Behind \subseteq Behind' BY <1>1, Grows DEF PagesIInv
<1>3. asked' \in Nat /\ Counted' BY <1>1, <1>2, Unrequested
<1>4. PagesTyped' BY <1>1, <1>3 DEF PagesIInv, PagesTyped
<1>5. FullPages' BY <1>1 DEF FullPages
<1>6. Beginning' BY <1>1 DEF PagesIInv, Beginning
<1>7. P!StillListingIsRead'
  <2> SUFFICES ASSUME initial' # Moved PROVE got' = SubSeq(initial', 1, P!AtMost(most', Len(initial')))
    BY DEF P!StillListingIsRead
  <2>1. Len(got) <= Len(initial) /\ got = SubSeq(initial, 1, Len(got)) BY <1>1 DEF PagesIInv, Beginning
  <2>2. initial \in Seq(Item) /\ Len(initial) \in Nat BY <1>1, PlanIs DEF PagesIInv, PagesTyped
  <2>3. most \in Nat BY PlanIs DEF PagesIInv, PagesTyped
  <2>4. P!AtMost(most', Len(initial')) = most BY <1>1, <2>1, <2>2, <2>3 DEF P!AtMost
  <2> QED BY <1>1, <2>1, <2>4
<1> QED BY <1>3, <1>4, <1>5, <1>6, <1>7 DEF PagesIInv

LEMMA Refusing ==
  ASSUME PagesIInv, P!Refuse
  PROVE  PagesIInv'
<1>1. /\ P!Wanted /\ pc = "ask" /\ pc' = "refused" /\ asked' = P!AtMost(asked + 1, P!Planned + 1)
      /\ UNCHANGED <<listing, initial, cohort, most, page, got, examined>>
  BY DEF P!Refuse, P!Wanted, P!github
<1>2. Behind \subseteq Behind' BY <1>1, Grows DEF PagesIInv
<1>3. <<cohort, page>> \in Behind' BY <1>1, AskedFor DEF Behind
<1>4. asked' \in Nat /\ Counted' BY <1>1, <1>2, <1>3, Requested
<1>5. PagesTyped' BY <1>1, <1>4 DEF PagesIInv, PagesTyped
<1>6. FullPages' /\ P!StillListingIsRead' BY <1>1 DEF FullPages, P!StillListingIsRead
<1>7. Beginning' BY <1>1 DEF PagesIInv, Beginning
<1> QED BY <1>4, <1>5, <1>6, <1>7 DEF PagesIInv

LEMMA Shifting ==
  ASSUME PagesIInv, P!Shift
  PROVE  PagesIInv'
<1>1. /\ pc = "ask" /\ listing' \in P!Listings /\ initial' = Moved
      /\ UNCHANGED <<cohort, most, page, got, pc, asked, examined>>
  BY DEF P!Shift
<1>2. Behind' = Behind BY <1>1 DEF Behind
<1>3. Counted' BY <1>1, <1>2 DEF PagesIInv, Counted
<1>4. PagesTyped' BY <1>1 DEF PagesIInv, PagesTyped
<1>5. P!PageSize' = P!PageSize BY <1>1 DEF P!PageSize
<1>6. FullPages' BY <1>1, <1>5 DEF PagesIInv, FullPages
<1>7. Beginning' /\ P!StillListingIsRead' BY <1>1 DEF Beginning, P!StillListingIsRead
<1> QED BY <1>3, <1>4, <1>6, <1>7 DEF PagesIInv

LEMMA Starting ==
  ASSUME PagesIInv, P!NextCohort
  PROVE  PagesIInv'
<1>1. /\ pc = "next" /\ cohort < Len(Limit) /\ examined < MaxCandidates
      /\ cohort' = cohort + 1 /\ most' = P!AtMost(Limit[cohort'], MaxCandidates - examined)
      /\ listing' \in P!Listings /\ initial' = listing'
      /\ page' = 1 /\ got' = <<>> /\ pc' = "ask" /\ asked' = asked /\ examined' = examined
  BY DEF P!NextCohort
<1>2. cohort \in Nat /\ examined \in Nat /\ MaxCandidates \in Nat /\ PerPage \in Nat \ {0} /\ Len(Limit) \in Nat
  BY PlanIs DEF PagesIInv, PagesTyped
<1>3. cohort' \in 1..Len(Limit) BY <1>1, <1>2
<1>4. Limit[cohort'] \in Nat \ {0} BY <1>3, PlanIs
<1>5. /\ most' \in Nat \ {0} /\ most' <= Limit[cohort'] /\ most' <= MaxCandidates - examined
  BY <1>1, <1>2, <1>4 DEF P!AtMost
<1>6. P!PageSize' \in Nat BY <1>2, <1>5 DEF P!PageSize, P!AtMost
<1>7. Len(got') = 0 /\ got' \in Seq(Item) BY <1>1
<1>8. Behind \subseteq Behind' BY <1>1, Grows DEF PagesIInv
<1>9. asked' \in Nat /\ Counted' BY <1>1, <1>8, Unrequested
<1>10. PagesTyped'
  <2>1. most' \in 0..MaxCandidates /\ Len(got') <= most' /\ examined' \in 0..MaxCandidates
    BY <1>1, <1>2, <1>5, <1>7
  <2>2. cohort' \in 0..Len(Limit) /\ most' > 0 BY <1>2, <1>3, <1>5
  <2>3. page' \in Nat \ {0} /\ pc' \in {"next", "ask", "truncated", "refused", "done"} BY <1>1
  <2> QED BY <1>1, <1>5, <1>7, <1>9, <2>1, <2>2, <2>3 DEF PagesTyped
<1>11. FullPages'
  <2>1. (page' - 1) * P!PageSize' = 0
    <3>1. page' - 1 = 0 BY <1>1
    <3> QED BY <1>6, <3>1, NoPages
  <2>2. Len(got') = Least((page' - 1) * P!PageSize', most') BY <1>5, <1>7, <2>1 DEF Least
  <2>3. examined' + (most' - Len(got')) <= MaxCandidates BY <1>1, <1>2, <1>5, <1>7
  <2>4. cohort' > 0 BY <1>2, <1>3
  <2> QED BY <2>2, <2>3, <2>4 DEF FullPages
<1>12. Beginning'
  <2>1. SubSeq(initial', 1, 0) = <<>> BY SubSeqEmpty
  <2>2. Len(initial') \in Nat BY <1>1, PlanIs
  <2> QED BY <1>1, <1>7, <2>1, <2>2 DEF Beginning
<1>13. P!StillListingIsRead' BY <1>1 DEF P!StillListingIsRead
<1> QED BY <1>9, <1>10, <1>11, <1>12, <1>13 DEF PagesIInv

LEMMA Stopping ==
  ASSUME PagesIInv, P!NoCandidatesLeft \/ P!AllRead
  PROVE  PagesIInv'
<1>1. /\ pc = "next" /\ pc' \in {"truncated", "done"}
      /\ UNCHANGED <<listing, initial, cohort, most, page, got, asked, examined>>
  BY DEF P!NoCandidatesLeft, P!AllRead, P!github
<1>2. Behind \subseteq Behind' BY <1>1, Grows DEF PagesIInv
<1>3. asked' \in Nat /\ Counted' BY <1>1, <1>2, Unrequested
<1>4. PagesTyped' BY <1>1, <1>3 DEF PagesIInv, PagesTyped
<1>5. FullPages' BY <1>1 DEF FullPages
<1>6. Beginning' BY <1>1 DEF PagesIInv, Beginning
<1>7. P!StillListingIsRead' BY <1>1 DEF PagesIInv, P!StillListingIsRead
<1> QED BY <1>3, <1>4, <1>5, <1>6, <1>7 DEF PagesIInv

LEMMA PagesInductive == PagesIInv /\ [P!Next]_reading => PagesIInv'
<1> SUFFICES ASSUME PagesIInv, [P!Next]_reading PROVE PagesIInv' OBVIOUS
<1>1. CASE UNCHANGED reading
  <2>1. UNCHANGED <<listing, initial, cohort, most, page, got, pc, asked, examined>> BY <1>1 DEF reading
  <2>2. Behind' = Behind /\ P!PageSize' = P!PageSize BY <2>1 DEF Behind, P!PageSize
  <2>3. PagesTyped' /\ Beginning' BY <2>1 DEF PagesIInv, PagesTyped, Beginning
  <2>4. FullPages' /\ Counted' BY <2>1, <2>2 DEF PagesIInv, FullPages, Counted
  <2>5. P!StillListingIsRead' BY <2>1 DEF PagesIInv, P!StillListingIsRead
  <2> QED BY <2>3, <2>4, <2>5 DEF PagesIInv
<1>2. CASE P!Read BY <1>2, Asking, Ending, Starting, Stopping DEF P!Read
<1> QED BY <1>1, <1>2, Refusing, Shifting DEF P!Next

LEMMA PagesInit == P!Init => PagesIInv
<1> SUFFICES ASSUME P!Init PROVE PagesIInv OBVIOUS
<1>1. /\ listing = <<>> /\ initial = <<>> /\ cohort = 0 /\ most = 0 /\ page = 1 /\ got = <<>> /\ pc = "next"
      /\ asked = 0 /\ examined = 0
  BY DEF P!Init
<1>2. P!Cardinality(Item) \in Nat BY PlanIs, SameSize, FS_CardinalityType
<1>3. <<>> \in P!Listings
  <2>1. 0 \in 0..P!Cardinality(Item) /\ <<>> \in [1..0 -> Item] BY <1>2
  <2>2. <<>> \in P!BoundedSeq(Item, P!Cardinality(Item)) BY <2>1 DEF P!BoundedSeq, P!SeqOf
  <2>3. P!IsInjective(<<>>) BY DEF P!IsInjective
  <2> QED BY <2>2, <2>3 DEF P!Listings
<1>4. PagesTyped BY <1>1, <1>3, PlanIs DEF PagesTyped
<1>5. FullPages /\ Beginning /\ P!StillListingIsRead BY <1>1 DEF FullPages, Beginning, P!StillListingIsRead
<1>6. Counted BY <1>1, BehindIsCounted DEF Counted
<1> QED BY <1>4, <1>5, <1>6 DEF PagesIInv

LEMMA PagesRead == PagesIInv => P!SearchIsRead
<1> SUFFICES ASSUME PagesIInv PROVE P!SearchIsRead OBVIOUS
<1>1. /\ Cardinality(Behind) \in Nat /\ Cardinality(Behind) <= P!Planned /\ P!Planned \in Nat
      /\ asked \in Nat /\ page \in Nat \ {0} /\ page <= asked + 1 /\ asked <= Cardinality(Behind)
  BY BehindIsCounted DEF PagesIInv, PagesTyped, Counted
<1>2. asked <= P!Planned /\ asked \in 0..P!Planned + 1 /\ page \in 1..P!Planned + 1 BY <1>1
<1>3. P!TypeOK BY <1>2, PlanIs DEF PagesIInv, PagesTyped, P!TypeOK
<1>4. got \in Seq(Item) /\ Len(got) <= most /\ (cohort > 0 => most <= Limit[cohort]) /\ most \in 0..MaxCandidates
      /\ examined \in 0..MaxCandidates /\ cohort \in 0..Len(Limit)
  BY DEF PagesIInv, PagesTyped
<1>5. cohort > 0 => Limit[cohort] \in Nat BY <1>4, PlanIs
<1>6. examined <= MaxCandidates /\ (cohort > 0 => Len(got) <= Limit[cohort]) BY <1>4, <1>5, PlanIs
<1> QED BY <1>2, <1>3, <1>6 DEF P!SearchIsRead, P!WithinPlan, PagesIInv

(* Pagination: a search asks for no more pages than were planned, takes no *)
(* more than its limit, and reads a listing that holds still from its      *)
(* beginning without a gap, for every plan, page size and listing.         *)
THEOREM SearchesRead == RecordsSpec => []SearchIsRead
<1>1. RecordsInit => PagesIInv BY PagesInit DEF RecordsInit
<1>2. PagesIInv /\ [RecordsNext]_recordsVars => PagesIInv'
  <2>1. [RecordsNext]_recordsVars => [P!Next]_reading BY DEF RecordsNext, recordsVars
  <2> QED BY <2>1, PagesInductive
<1>3. PagesIInv => SearchIsRead BY PagesRead DEF SearchIsRead
<1> QED BY <1>1, <1>2, <1>3, PTL DEF RecordsSpec
(***************************************************************************)
(* Refreshes, day after day.                                               *)
(***************************************************************************)
Precedes(o, r, s) == \E i, j \in 1..Len(o) : i < j /\ o[i] = r /\ o[j] = s
NoTwice(o) == \A i, j \in 1..Len(o) : o[i] = o[j] => i = j

(* What is due before the next target has been tried, or is itself a       *)
(* target that comes first.                                                *)
NonePassedOver ==
  \A i \in 1..Len(targets), q \in R!Tracked :
    age[q] = MinAge /\ Precedes(order, q, targets[i])
      => q \in tried \/ \E j \in 1..Len(targets) : j < i /\ targets[j] = q

(* What is to be polled is due, once each, and in the order of all: the    *)
(* rest of a run is behind the repository that is polled now.              *)
RotationIInv ==
  /\ order \in Seq(Refreshed) /\ NoTwice(order) /\ R!ToSet(Known) \subseteq R!Tracked
  /\ age \in [Refreshed -> 0..MinAge] /\ broken \subseteq Fragile
  /\ targets \in Seq(Refreshed) /\ Len(targets) <= MaxTargets
  /\ running \in BOOLEAN /\ (~running => targets = <<>>)
  /\ \A i \in 1..Len(targets) : targets[i] \in R!Tracked /\ age[targets[i]] = MinAge
  /\ \A i, j \in 1..Len(targets) : i < j => Precedes(order, targets[i], targets[j])
  /\ tried \subseteq R!Tracked /\ (~running => tried = {}) /\ NonePassedOver
  /\ gap \in [Refreshed -> 0..MinAge] /\ \A r \in Refreshed : gap[r] = MinAge

LEMMA RotationIs ==
  /\ Known \in Seq(Refreshed) /\ NoTwice(Known) /\ MinAge \in Nat \ {0} /\ MaxTargets \in Nat
  /\ \A o \in Seq(Refreshed) : /\ DOMAIN o = 1..Len(o) /\ Len(o) \in Nat
                               /\ R!ToSet(o) = {o[i] : i \in 1..Len(o)}
                               /\ R!IsInjective(o) <=> NoTwice(o)
                               /\ \A i \in 1..Len(o) : o[i] \in Refreshed
<1>1. R!Parameters BY RecordsParameters
<1>2. ASSUME NEW o \in Seq(Refreshed)
      PROVE  /\ DOMAIN o = 1..Len(o) /\ Len(o) \in Nat /\ R!ToSet(o) = {o[i] : i \in 1..Len(o)}
             /\ R!IsInjective(o) <=> NoTwice(o)
             /\ \A i \in 1..Len(o) : o[i] \in Refreshed
  <2>1. DOMAIN o = 1..Len(o) /\ Len(o) \in Nat BY LenProperties
  <2>2. R!IsInjective(o) <=> NoTwice(o) BY <2>1 DEF R!IsInjective, NoTwice
  <2>3. R!ToSet(o) = {o[i] : i \in 1..Len(o)} BY <2>1 DEF R!ToSet
  <2>4. \A i \in 1..Len(o) : o[i] \in Refreshed BY ElementOfSeq
  <2> QED BY <2>1, <2>2, <2>3, <2>4
<1> QED BY <1>1, <1>2 DEF R!Parameters

LEMMA SameNumber ==
  ASSUME NEW S
  PROVE  R!Cardinality(S) = Cardinality(S)
BY DEF Cardinality, R!Cardinality, IsFiniteSet, R!IsFiniteSet

(* Of those that are due, each number up to how many they are is the turn  *)
(* of one, and turns follow the order.                                     *)
TurnIn(D, i) == Cardinality({j \in 1..i : j \in D})

LEMMA NextTurn ==
  ASSUME NEW D, NEW i \in Nat
  PROVE  /\ TurnIn(D, i) \in Nat /\ TurnIn(D, 0) = 0
         /\ i + 1 \in D => TurnIn(D, i + 1) = TurnIn(D, i) + 1
         /\ i + 1 \notin D => TurnIn(D, i + 1) = TurnIn(D, i)
<1> DEFINE S == {j \in 1..i : j \in D}
           S1 == {j \in 1..(i + 1) : j \in D}
<1>1. IsFiniteSet(S)
  <2>1. S \subseteq 1..i /\ IsFiniteSet(1..i) BY FS_Interval
  <2> QED BY <2>1, FS_Subset
<1>2. Cardinality(S) \in Nat BY <1>1, FS_CardinalityType
<1>3. {j \in 1..0 : j \in D} = {} OBVIOUS
<1>4. Cardinality({j \in 1..0 : j \in D}) = 0 BY <1>3, FS_EmptySet
<1>5. ASSUME i + 1 \in D PROVE Cardinality(S1) = Cardinality(S) + 1
  <2>1. S1 = S \cup {i + 1} /\ i + 1 \notin S BY <1>5
  <2> HIDE DEF S, S1
  <2> QED BY <1>1, <2>1, FS_AddElement
<1>6. ASSUME i + 1 \notin D PROVE S1 = S BY <1>6
<1> QED BY <1>2, <1>4, <1>5, <1>6 DEF TurnIn

LEMMA LaterTurn ==
  ASSUME NEW D, NEW i \in Nat, NEW j \in Nat, i <= j
  PROVE  TurnIn(D, i) <= TurnIn(D, j)
<1> DEFINE S == {n \in 1..i : n \in D}
           T == {n \in 1..j : n \in D}
<1>1. T \subseteq 1..j /\ IsFiniteSet(1..j) BY FS_Interval
<1>2. IsFiniteSet(T) BY <1>1, FS_Subset
<1>3. S \subseteq T OBVIOUS
<1> HIDE DEF S, T
<1>4. Cardinality(S) <= Cardinality(T) BY <1>2, <1>3, FS_Subset
<1> QED BY <1>4 DEF TurnIn, S, T

LEMMA EachHasATurn ==
  ASSUME NEW D, NEW m \in Nat, NEW k \in Nat \ {0}, k <= TurnIn(D, m)
  PROVE  \E i \in 1..m : i \in D /\ TurnIn(D, i) = k
<1> DEFINE U == {u \in Nat : k <= TurnIn(D, u)}
<1>1. m \in U /\ U \subseteq Nat OBVIOUS
<1>2. \E u \in U : \A v \in U : <<v, u>> \notin OpToRel(<, Nat)
  <2> HIDE DEF U
  <2> QED BY <1>1, WFMin, NatLessThanWellFounded, Zenon
<1>3. PICK u \in U : \A v \in U : ~(v < u) BY <1>1, <1>2, Zenon DEF OpToRel
<1>4. u \in Nat /\ k <= TurnIn(D, u) /\ u <= m BY <1>1, <1>3
<1>5. TurnIn(D, 0) = 0 BY NextTurn
<1>6. u # 0 BY <1>4, <1>5
<1>7. u - 1 \in Nat /\ u - 1 + 1 = u BY <1>4, <1>6
<1>8. u - 1 \notin U BY <1>3, <1>7
<1>9. TurnIn(D, u - 1) \in Nat /\ TurnIn(D, u - 1) < k BY <1>7, <1>8, NextTurn
<1>10. /\ u \in D => TurnIn(D, u) = TurnIn(D, u - 1) + 1
       /\ u \notin D => TurnIn(D, u) = TurnIn(D, u - 1)
  BY <1>7, NextTurn
<1>11. u \in D /\ TurnIn(D, u) = k BY <1>4, <1>9, <1>10
<1> QED BY <1>4, <1>6, <1>11

LEMMA Selected ==
  ASSUME RotationIInv
  PROVE  LET t == R!StaleRepositories
         IN /\ t \in Seq(Refreshed) /\ Len(t) <= MaxTargets
            /\ \A k \in 1..Len(t) : t[k] \in R!Tracked /\ age[t[k]] = MinAge
            /\ \A k, l \in 1..Len(t) : k < l => Precedes(order, t[k], t[l])
            /\ \A k \in 1..Len(t), q \in R!Tracked :
                 age[q] = MinAge /\ Precedes(order, q, t[k]) => \E l \in 1..Len(t) : l < k /\ t[l] = q
<1> DEFINE m == Len(order)
           D == {j \in 1..m : R!Due(order[j])}
           due == TurnIn(D, m)
           n == IF due < MaxTargets THEN due ELSE MaxTargets
           N(k) == R!NthDue(k)
           t == R!StaleRepositories
<1>1. /\ order \in Seq(Refreshed) /\ m \in Nat /\ DOMAIN order = 1..m /\ R!Tracked = {order[i] : i \in 1..m}
      /\ \A i \in 1..m : order[i] \in Refreshed
  BY RotationIs DEF RotationIInv, R!Tracked
<1>2. MaxTargets \in Nat /\ MinAge \in Nat /\ \A r \in Refreshed : age[r] \in 0..MinAge BY RotationIs DEF RotationIInv
<1>3. ASSUME NEW i \in 0..m PROVE R!Turn(i) = TurnIn(D, i)
  <2>1. {j \in 1..i : R!Due(R!Stalest[j])} = {j \in 1..i : j \in D} BY <1>1 DEF R!Stalest
  <2> HIDE DEF D
  <2> QED BY <2>1, SameNumber DEF R!Turn, TurnIn
<1>4. t = [k \in 1..n |-> order[N(k)]] BY <1>1, <1>3 DEF R!StaleRepositories, R!Stalest
<1>5. due \in Nat /\ n \in Nat /\ n <= due /\ n <= MaxTargets BY <1>1, <1>2, NextTurn
<1>6. ASSUME NEW k \in 1..n PROVE N(k) \in 1..m /\ N(k) \in D /\ TurnIn(D, N(k)) = k
  <2>1. k \in Nat \ {0} /\ k <= due BY <1>5
  <2>2. PICK i \in 1..m : i \in D /\ TurnIn(D, i) = k
    <3> HIDE DEF D, m
    <3> QED BY <1>1, <2>1, EachHasATurn DEF due
  <2>3. \A j \in 1..m : R!Due(R!Stalest[j]) /\ R!Turn(j) = k <=> j \in D /\ TurnIn(D, j) = k
    <3> TAKE j \in 1..m
    <3>1. R!Turn(j) = TurnIn(D, j) BY <1>1, <1>3
    <3> QED BY <3>1 DEF R!Stalest
  <2>4. N(k) = CHOOSE j \in 1..m : R!Due(R!Stalest[j]) /\ R!Turn(j) = k BY <1>1 DEF R!NthDue, R!Stalest
  <2> HIDE DEF D, N, m
  <2>5. N(k) \in 1..m /\ R!Due(R!Stalest[N(k)]) /\ R!Turn(N(k)) = k BY <2>2, <2>3, <2>4
  <2> QED BY <2>3, <2>5
<1> HIDE DEF t, n, N
<1>7. t \in Seq(Refreshed) /\ Len(t) = n /\ DOMAIN t = 1..n
  <2>1. \A k \in 1..n : order[N(k)] \in Refreshed BY <1>1, <1>6
  <2> QED BY <1>4, <1>5, <2>1
<1>8. ASSUME NEW k \in 1..n PROVE t[k] = order[N(k)] /\ t[k] \in R!Tracked /\ age[t[k]] = MinAge
  <2>1. t[k] = order[N(k)] BY <1>4
  <2>2. R!Due(order[N(k)]) /\ order[N(k)] \in Refreshed BY <1>1, <1>6
  <2>3. age[order[N(k)]] = MinAge BY <1>2, <2>2 DEF R!Due
  <2> QED BY <1>1, <1>6, <2>1, <2>3
<1>9. ASSUME NEW k \in 1..n, NEW l \in 1..n, k < l PROVE Precedes(order, t[k], t[l])
  <2>1. N(k) \in 1..m /\ N(l) \in 1..m /\ TurnIn(D, N(k)) = k /\ TurnIn(D, N(l)) = l BY <1>6
  <2> HIDE DEF D, m
  <2>2. N(k) \in Nat /\ N(l) \in Nat BY <1>1, <2>1
  <2>3. N(l) <= N(k) => l <= k BY <2>1, <2>2, LaterTurn
  <2>4. N(k) < N(l) BY <1>5, <1>9, <2>2, <2>3
  <2> QED BY <1>8, <2>1, <2>4 DEF Precedes, m
<1>10. ASSUME NEW k \in 1..n, NEW q \in R!Tracked, age[q] = MinAge, Precedes(order, q, t[k])
       PROVE  \E l \in 1..n : l < k /\ t[l] = q
  <2>1. PICK a \in 1..m, b \in 1..m : a < b /\ order[a] = q /\ order[b] = t[k] BY <1>10 DEF Precedes
  <2>2. N(k) \in 1..m /\ TurnIn(D, N(k)) = k /\ order[b] = order[N(k)] BY <1>6, <1>8, <2>1
  <2>3. b = N(k) BY <2>1, <2>2 DEF RotationIInv, NoTwice, m
  <2>4. a \in D BY <1>2, <1>10, <2>1 DEF R!Due
  <2> HIDE DEF D, m
  <2>5. a \in Nat /\ b \in Nat /\ a - 1 \in Nat /\ b - 1 \in Nat /\ a <= b - 1 BY <1>1, <2>1
  <2>6. TurnIn(D, a) = TurnIn(D, a - 1) + 1 /\ TurnIn(D, a - 1) \in Nat
    <3>1. (a - 1) + 1 = a BY <2>5
    <3> QED BY <2>4, <2>5, <3>1, NextTurn
  <2>7. TurnIn(D, b) = TurnIn(D, b - 1) + 1 /\ TurnIn(D, b - 1) \in Nat
    <3>1. (b - 1) + 1 = b BY <2>5
    <3>2. b \in D BY <1>6, <2>3
    <3> QED BY <2>5, <3>1, <3>2, NextTurn
  <2>8. TurnIn(D, a) <= TurnIn(D, b - 1) BY <2>5, LaterTurn
  <2> DEFINE l == TurnIn(D, a)
  <2>9. l \in 1..n /\ l < k BY <1>5, <2>2, <2>3, <2>6, <2>7, <2>8
  <2>10. N(l) \in 1..m /\ N(l) \in D /\ TurnIn(D, N(l)) = l BY <1>6, <2>9
  <2>11. N(l) = a
    <3>1. ASSUME NEW x \in 1..m, NEW y \in 1..m, y \in D, x < y PROVE TurnIn(D, x) < TurnIn(D, y)
      <4>1. x \in Nat /\ y - 1 \in Nat /\ (y - 1) + 1 = y /\ x <= y - 1 BY <1>1, <3>1
      <4>2. TurnIn(D, y) = TurnIn(D, y - 1) + 1 /\ TurnIn(D, y - 1) \in Nat BY <3>1, <4>1, NextTurn
      <4>3. TurnIn(D, x) <= TurnIn(D, y - 1) /\ TurnIn(D, x) \in Nat BY <4>1, LaterTurn, NextTurn
      <4> QED BY <4>2, <4>3
    <3>2. N(l) \in Nat /\ l \in Nat BY <1>1, <2>6, <2>10
    <3>3. ~(N(l) < a) BY <2>1, <2>4, <2>10, <3>1, <3>2
    <3>4. ~(a < N(l)) BY <2>1, <2>10, <3>1, <3>2
    <3> QED BY <2>5, <3>2, <3>3, <3>4
  <2> QED BY <1>8, <2>1, <2>9, <2>11
<1> QED BY <1>5, <1>7, <1>8, <1>9, <1>10 DEF t

(* The order with one repository moved to its end.                         *)
LEMMA MovedLast ==
  ASSUME NEW o \in Seq(Refreshed), NoTwice(o), NEW p \in 1..Len(o), NEW n, n = Append(R!RemoveAt(o, p), o[p])
  PROVE  /\ n \in Seq(Refreshed) /\ NoTwice(n) /\ R!ToSet(n) = R!ToSet(o)
         /\ \A a, b \in Refreshed : a # o[p] /\ b # o[p] => (Precedes(o, a, b) <=> Precedes(n, a, b))
<1> DEFINE a == SubSeq(o, 1, p - 1)
           b == SubSeq(o, p + 1, Len(o))
           L == Len(o)
<1>1. L \in Nat /\ p \in 1..L /\ \A i \in 1..L : o[i] \in Refreshed BY RotationIs
<1>2. a \in Seq(Refreshed) /\ Len(a) = p - 1 /\ \A i \in 1..(p - 1) : a[i] = o[i]
  <2>1. \A i \in 1..(p - 1) : o[i] \in Refreshed BY <1>1
  <2>2. /\ a \in Seq(Refreshed) /\ Len(a) = IF 1 <= p - 1 THEN p - 1 - 1 + 1 ELSE 0
        /\ \A i \in 1..(p - 1 - 1 + 1) : a[i] = o[1 + i - 1]
    BY <1>1, <2>1, SubSeqProperties
  <2> HIDE DEF a
  <2> QED BY <1>1, <2>2
<1>3. b \in Seq(Refreshed) /\ Len(b) = L - p /\ \A i \in 1..(L - p) : b[i] = o[p + i]
  <2>1. \A i \in (p + 1)..L : o[i] \in Refreshed BY <1>1
  <2>2. /\ b \in Seq(Refreshed) /\ Len(b) = IF p + 1 <= L THEN L - (p + 1) + 1 ELSE 0
        /\ \A i \in 1..(L - (p + 1) + 1) : b[i] = o[p + 1 + i - 1]
    BY <1>1, <2>1, SubSeqProperties
  <2> HIDE DEF b
  <2> QED BY <1>1, <2>2
<1> DEFINE c == a \o b
<1>4. n = Append(c, o[p]) BY DEF R!RemoveAt
<1> HIDE DEF a, b, L
<1>5. c \in Seq(Refreshed) /\ Len(c) = L - 1 /\ \A i \in 1..(L - 1) : c[i] = IF i < p THEN o[i] ELSE o[i + 1]
  <2>1. /\ c \in Seq(Refreshed) /\ Len(c) = Len(a) + Len(b)
        /\ \A i \in 1..(Len(a) + Len(b)) : c[i] = IF i <= Len(a) THEN a[i] ELSE b[i - Len(a)]
    BY <1>2, <1>3, ConcatProperties
  <2>2. Len(a) + Len(b) = L - 1 BY <1>1, <1>2, <1>3
  <2> HIDE DEF c
  <2>3. ASSUME NEW i \in 1..(L - 1) PROVE c[i] = IF i < p THEN o[i] ELSE o[i + 1]
    <3>1. CASE i < p
      <4>1. i \in 1..(p - 1) /\ i <= Len(a) BY <1>1, <1>2, <3>1
      <4> QED BY <1>2, <2>1, <2>2, <3>1, <4>1
    <3>2. CASE ~(i < p)
      <4>0. i - (p - 1) \in 1..(L - p) /\ ~(i <= p - 1) /\ p + (i - (p - 1)) = i + 1 BY <1>1, <3>2
      <4>1. i - (p - 1) \in 1..(L - p) /\ ~(i <= Len(a)) /\ p + (i - (p - 1)) = i + 1 BY <1>2, <4>0
      <4>2. c[i] = b[i - (p - 1)] BY <1>2, <2>1, <2>2, <4>1
      <4>3. b[i - (p - 1)] = o[p + (i - (p - 1))] BY <1>3, <4>1
      <4> QED BY <3>2, <4>1, <4>2, <4>3
    <3> QED BY <3>1, <3>2
  <2> QED BY <2>1, <2>2, <2>3
<1> HIDE DEF c
<1>6. /\ n \in Seq(Refreshed) /\ Len(n) = L
      /\ \A i \in 1..L : n[i] = IF i < p THEN o[i] ELSE IF i < L THEN o[i + 1] ELSE o[p]
  <2>1. /\ n \in Seq(Refreshed) /\ Len(n) = Len(c) + 1 /\ n[Len(c) + 1] = o[p]
        /\ \A i \in 1..Len(c) : n[i] = c[i]
    BY <1>1, <1>4, <1>5, AppendProperties
  <2>2. Len(n) = L /\ n[L] = o[p] /\ \A i \in 1..(L - 1) : n[i] = IF i < p THEN o[i] ELSE o[i + 1]
    BY <1>1, <1>5, <2>1
  <2>3. ASSUME NEW i \in 1..L PROVE n[i] = IF i < p THEN o[i] ELSE IF i < L THEN o[i + 1] ELSE o[p]
    BY <1>1, <2>2
  <2> QED BY <2>1, <2>2, <2>3
(* where each place of the new order was, and where each of the old went *)
<1> DEFINE old(i) == IF i < p THEN i ELSE IF i < L THEN i + 1 ELSE p
           new(i) == IF i < p THEN i ELSE IF i = p THEN L ELSE i - 1
<1>7. \A i \in 1..L : old(i) \in 1..L /\ n[i] = o[old(i)] /\ new(i) \in 1..L /\ n[new(i)] = o[i]
  <2> TAKE i \in 1..L
  <2>1. old(i) \in 1..L /\ n[i] = o[old(i)] BY <1>1, <1>6
  <2>2. new(i) \in 1..L /\ n[new(i)] = o[i] BY <1>1, <1>6
  <2> QED BY <2>1, <2>2
<1>8. \A i, j \in 1..L : old(i) = old(j) => i = j BY <1>1
<1>9. \A i, j \in 1..L : i # p /\ j # p /\ i < j => new(i) < new(j) BY <1>1
<1>13. \A i, j \in 1..L : old(i) # p /\ old(j) # p /\ i < j => old(i) < old(j) BY <1>1
<1> HIDE DEF old, new
<1>10. NoTwice(n)
  <2>1. ASSUME NEW i \in 1..L, NEW j \in 1..L, n[i] = n[j] PROVE i = j
    <3>1. old(i) \in 1..L /\ old(j) \in 1..L /\ o[old(i)] = o[old(j)] BY <1>7, <2>1
    <3>2. old(i) = old(j) BY <3>1 DEF NoTwice, L
    <3> QED BY <1>8, <3>2
  <2> QED BY <1>6, <2>1 DEF NoTwice
<1>11. R!ToSet(n) = R!ToSet(o)
  <2>1. R!ToSet(n) = {n[i] : i \in 1..L} /\ R!ToSet(o) = {o[i] : i \in 1..L} BY <1>6, RotationIs DEF L
  <2>2. ASSUME NEW i \in 1..L PROVE n[i] \in {o[j] : j \in 1..L} /\ o[i] \in {n[j] : j \in 1..L}
    <3>1. old(i) \in 1..L /\ n[i] = o[old(i)] /\ new(i) \in 1..L /\ n[new(i)] = o[i] BY <1>7
    <3> QED BY <3>1
  <2>3. {n[i] : i \in 1..L} \subseteq {o[i] : i \in 1..L} BY <2>2
  <2>4. {o[i] : i \in 1..L} \subseteq {n[i] : i \in 1..L} BY <2>2
  <2> QED BY <2>1, <2>3, <2>4
<1>12. ASSUME NEW x \in Refreshed, NEW y \in Refreshed, x # o[p], y # o[p], Precedes(o, x, y)
       PROVE  Precedes(n, x, y)
  <2>1. PICK i \in 1..L, j \in 1..L : i < j /\ o[i] = x /\ o[j] = y BY <1>12 DEF Precedes, L
  <2>2. new(i) \in 1..L /\ new(j) \in 1..L /\ new(i) < new(j) /\ n[new(i)] = x /\ n[new(j)] = y
    BY <1>7, <1>9, <1>12, <2>1
  <2> QED BY <1>6, <2>2 DEF Precedes
<1>14. ASSUME NEW x \in Refreshed, NEW y \in Refreshed, x # o[p], y # o[p], Precedes(n, x, y)
       PROVE  Precedes(o, x, y)
  <2>1. PICK i \in 1..L, j \in 1..L : i < j /\ n[i] = x /\ n[j] = y BY <1>6, <1>14 DEF Precedes
  <2>2. old(i) \in 1..L /\ old(j) \in 1..L /\ old(i) < old(j) /\ o[old(i)] = x /\ o[old(j)] = y
    BY <1>7, <1>13, <1>14, <2>1
  <2> QED BY <2>2 DEF Precedes, L
<1> QED BY <1>6, <1>10, <1>11, <1>12, <1>14

LEMMA TheTracked ==
  ASSUME RotationIInv
  PROVE  /\ order \in Seq(Refreshed) /\ NoTwice(order) /\ R!IsInjective(order)
         /\ DOMAIN order = 1..Len(order) /\ Len(order) \in Nat
         /\ R!Tracked = {order[i] : i \in 1..Len(order)} /\ R!Tracked \subseteq Refreshed
<1>1. order \in Seq(Refreshed) /\ NoTwice(order) BY DEF RotationIInv
<1>2. R!Tracked = {order[i] : i \in 1..Len(order)} BY <1>1, RotationIs DEF R!Tracked
<1>3. \A i \in 1..Len(order) : order[i] \in Refreshed BY <1>1, RotationIs
<1>4. R!IsInjective(order) /\ DOMAIN order = 1..Len(order) /\ Len(order) \in Nat BY <1>1, RotationIs
<1>5. R!Tracked \subseteq Refreshed BY <1>2, <1>3
<1> QED BY <1>1, <1>2, <1>4, <1>5

LEMMA RotationInit == R!Init => RotationIInv
<1> SUFFICES ASSUME R!Init PROVE RotationIInv OBVIOUS
<1>1. /\ order = Known /\ age = [r \in Refreshed |-> MinAge] /\ targets = <<>> /\ running = FALSE /\ broken = {}
      /\ gap = age /\ tried = {}
  BY DEF R!Init
<1>2. targets \in Seq(Refreshed) /\ Len(targets) = 0 BY <1>1
<1>3. Known \in Seq(Refreshed) /\ NoTwice(Known) /\ MinAge \in Nat /\ MaxTargets \in Nat BY RotationIs
<1>4. age \in [Refreshed -> 0..MinAge] BY <1>1, <1>3
<1>5. R!ToSet(Known) \subseteq R!Tracked BY <1>1 DEF R!Tracked
<1>6. Len(targets) <= MaxTargets /\ 1..Len(targets) = {} BY <1>2, <1>3
<1>7. running \in BOOLEAN /\ broken \subseteq Fragile BY <1>1
<1>8. order \in Seq(Refreshed) /\ NoTwice(order) BY <1>1, <1>3
<1>9. R!Tracked \subseteq Refreshed BY <1>8, RotationIs DEF R!Tracked
<1>10. gap \in [Refreshed -> 0..MinAge] /\ \A r \in Refreshed : gap[r] = MinAge BY <1>1, <1>4, <1>9
<1>11. NonePassedOver BY <1>6 DEF NonePassedOver
<1> QED BY <1>1, <1>2, <1>4, <1>5, <1>6, <1>7, <1>8, <1>10, <1>11 DEF RotationIInv

(* What is not the run's own: the rest of the targets stays in order.      *)
LEMMA RestOfTargets ==
  ASSUME RotationIInv, targets # <<>>, targets' = Tail(targets)
  PROVE  /\ targets' \in Seq(Refreshed) /\ Len(targets') <= MaxTargets /\ Head(targets) = targets[1] /\ targets[1] \in Refreshed
         /\ targets[1] \in R!Tracked /\ age[targets[1]] = MinAge
         /\ \A i \in 1..Len(targets') :
              /\ i + 1 \in 1..Len(targets) /\ targets'[i] = targets[i + 1] /\ targets'[i] # targets[1]
              /\ Precedes(order, targets[1], targets'[i])
         /\ \A q \in R!Tracked : age[q] = MinAge /\ Precedes(order, q, targets[1]) => q \in tried
<1>1. targets \in Seq(Refreshed) /\ Len(targets) <= MaxTargets /\ Len(targets) \in Nat /\ Len(targets) # 0 /\ MaxTargets \in Nat
  BY EmptySeq, RotationIs DEF RotationIInv
<1>2. /\ targets' \in Seq(Refreshed) /\ Len(targets') = Len(targets) - 1
      /\ \A i \in 1..Len(targets') : targets'[i] = targets[i + 1]
  BY <1>1, HeadTailProperties
<1>3. Head(targets) = targets[1] OBVIOUS
<1>4. 1 \in 1..Len(targets) /\ \A i \in 1..Len(targets') : i + 1 \in 1..Len(targets) /\ 1 < i + 1 BY <1>1, <1>2
<1>5. \A i \in 1..Len(targets') : Precedes(order, targets[1], targets'[i]) BY <1>2, <1>4 DEF RotationIInv
<1>6. \A a \in Refreshed : ~Precedes(order, a, a)
  <2>1. NoTwice(order) BY DEF RotationIInv
  <2>2. ASSUME NEW i \in 1..Len(order), NEW j \in 1..Len(order), i < j PROVE order[i] # order[j]
    <3>1. i # j BY <2>2
    <3> QED BY <2>1, <3>1 DEF NoTwice
  <2> QED BY <2>2 DEF Precedes
<1>7. targets[1] \in Refreshed BY <1>1, <1>4, RotationIs
<1>8. targets[1] \in R!Tracked /\ age[targets[1]] = MinAge BY <1>4 DEF RotationIInv
<1>9. \A q \in R!Tracked : age[q] = MinAge /\ Precedes(order, q, targets[1]) => q \in tried
  BY <1>4 DEF RotationIInv, NonePassedOver
<1> QED BY <1>1, <1>2, <1>3, <1>4, <1>5, <1>6, <1>7, <1>8, <1>9

(* The one that is polled, or fails to be, passes over nobody.             *)
LEMMA PassingOver ==
  ASSUME RotationIInv, NEW r \in Refreshed, targets # <<>>, r = Head(targets), targets' = Tail(targets),
         tried' = tried \cup {r}
  PROVE  R!NoOvertaking /\ r \in R!Tracked /\ tried' \subseteq R!Tracked
<1>1. r = targets[1] /\ r \in R!Tracked /\ \A q \in R!Tracked : age[q] = MinAge /\ Precedes(order, q, r) => q \in tried
  BY RestOfTargets
<1>2. tried' \subseteq R!Tracked BY <1>1 DEF RotationIInv
<1>3. /\ DOMAIN order = 1..Len(order) /\ R!Tracked = {order[i] : i \in 1..Len(order)} /\ R!Tracked \subseteq Refreshed
      /\ age \in [Refreshed -> 0..MinAge] /\ MinAge \in Nat
  BY TheTracked, RotationIs DEF RotationIInv
<1>4. ASSUME NEW i \in DOMAIN order, NEW j \in DOMAIN order, i < j, order[j] = r, R!Due(order[i])
      PROVE  order[i] \in tried
  <2>1. order[i] \in R!Tracked /\ Precedes(order, order[i], r) BY <1>3, <1>4 DEF Precedes
  <2>2. age[order[i]] = MinAge BY <1>3, <1>4, <2>1 DEF R!Due
  <2> QED BY <1>1, <2>1, <2>2
<1>5. R!NoOvertaking BY <1>4 DEF R!NoOvertaking
<1> QED BY <1>1, <1>2, <1>5

LEMMA Polling ==
  ASSUME RotationIInv, NEW r \in Refreshed, R!Poll(r)
  PROVE  RotationIInv' /\ R!NoOvertaking
<1>1. /\ targets # <<>> /\ r = Head(targets) /\ targets' = Tail(targets) /\ age' = [age EXCEPT ![r] = 0]
      /\ gap' = [gap EXCEPT ![r] = age[r]] /\ tried' = tried \cup {r} /\ UNCHANGED <<running, broken>>
  BY DEF R!Poll
<1>2. PICK p \in DOMAIN order : order[p] = r /\ order' = Append(R!RemoveAt(order, p), r) BY DEF R!Poll
<1>3. order \in Seq(Refreshed) /\ NoTwice(order) /\ p \in 1..Len(order) BY <1>2, RotationIs DEF RotationIInv
<1>4. /\ order' \in Seq(Refreshed) /\ NoTwice(order') /\ R!ToSet(order') = R!ToSet(order)
      /\ \A a, b \in Refreshed : a # r /\ b # r => (Precedes(order, a, b) <=> Precedes(order', a, b))
  BY <1>2, <1>3, MovedLast
<1>5. /\ targets' \in Seq(Refreshed) /\ Len(targets') <= MaxTargets /\ r = targets[1]
      /\ r \in R!Tracked /\ age[r] = MinAge
      /\ \A i \in 1..Len(targets') :
           /\ i + 1 \in 1..Len(targets) /\ targets'[i] = targets[i + 1] /\ targets'[i] # r
           /\ Precedes(order, r, targets'[i])
  BY <1>1, RestOfTargets
<1>6. \A i \in 1..Len(targets') : targets'[i] \in Refreshed BY <1>5, RotationIs
<1>7. age \in [Refreshed -> 0..MinAge] /\ MinAge \in Nat \ {0} BY RotationIs DEF RotationIInv
<1>8. age' \in [Refreshed -> 0..MinAge] /\ age'[r] = 0 /\ \A q \in Refreshed : q # r => age'[q] = age[q] BY <1>1, <1>7
<1>9. R!Tracked' = R!Tracked BY <1>4 DEF R!Tracked
<1>10. \A i \in 1..Len(targets') : targets'[i] \in R!Tracked' /\ age'[targets'[i]] = MinAge
  <2> TAKE i \in 1..Len(targets')
  <2>1. targets[i + 1] \in R!Tracked /\ age[targets[i + 1]] = MinAge BY <1>5 DEF RotationIInv
  <2>2. targets'[i] \in Refreshed /\ targets'[i] = targets[i + 1] /\ targets'[i] # r BY <1>5, <1>6
  <2>3. age'[targets'[i]] = age[targets'[i]] BY <1>8, <2>2
  <2> QED BY <1>9, <2>1, <2>2, <2>3
<1>11. \A i, j \in 1..Len(targets') : i < j => Precedes(order', targets'[i], targets'[j])
  <2> SUFFICES ASSUME NEW i \in 1..Len(targets'), NEW j \in 1..Len(targets'), i < j
               PROVE  Precedes(order', targets'[i], targets'[j])
    OBVIOUS
  <2>1. Precedes(order, targets[i + 1], targets[j + 1]) BY <1>5 DEF RotationIInv
  <2> QED BY <1>4, <1>5, <1>6, <2>1
<1>12. running' \in BOOLEAN /\ (~running' => targets' = <<>>)
  <2>1. running BY <1>1 DEF RotationIInv
  <2> QED BY <1>1, <2>1
<1>13. R!NoOvertaking /\ tried' \subseteq R!Tracked' BY <1>1, <1>9, PassingOver
<1>14. R!Tracked \subseteq Refreshed BY TheTracked
<1>15. gap' \in [Refreshed -> 0..MinAge] /\ \A q \in Refreshed : gap'[q] = MinAge
  <2>1. gap \in [Refreshed -> 0..MinAge] /\ \A q \in Refreshed : gap[q] = MinAge BY DEF RotationIInv
  <2> QED BY <1>1, <1>5, <1>7, <1>9, <1>14, <2>1
<1>16. NonePassedOver'
  <2> SUFFICES ASSUME NEW i \in 1..Len(targets'), NEW q \in R!Tracked, age'[q] = MinAge, Precedes(order', q, targets'[i])
               PROVE  q \in tried' \/ \E j \in 1..Len(targets') : j < i /\ targets'[j] = q
    BY <1>9 DEF NonePassedOver
  <2>1. q \in Refreshed /\ q # r /\ age[q] = MinAge BY <1>7, <1>8, <1>14
  <2>2. Precedes(order, q, targets[i + 1]) /\ i + 1 \in 1..Len(targets) BY <1>4, <1>5, <1>6, <2>1
  <2>3. q \in tried \/ \E j \in 1..Len(targets) : j < i + 1 /\ targets[j] = q
    BY <2>1, <2>2 DEF RotationIInv, NonePassedOver
  <2>4. ASSUME NEW j \in 1..Len(targets), j < i + 1, targets[j] = q
        PROVE  j - 1 \in 1..Len(targets') /\ j - 1 < i /\ targets'[j - 1] = q
    <3>1. j # 1 BY <1>5, <2>1, <2>4
    <3>2. Len(targets') \in Nat /\ i \in 1..Len(targets') BY <1>5, RotationIs
    <3>3. j - 1 \in 1..Len(targets') /\ j - 1 < i /\ (j - 1) + 1 = j BY <2>4, <3>1, <3>2
    <3> QED BY <1>5, <2>4, <3>3
  <2> QED BY <1>1, <2>3, <2>4
<1>17. RotationIInv' BY <1>1, <1>4, <1>5, <1>8, <1>9, <1>10, <1>11, <1>12, <1>13, <1>15, <1>16 DEF RotationIInv
<1> QED BY <1>13, <1>17

LEMMA Failing ==
  ASSUME RotationIInv, NEW r \in Refreshed, R!Fail(r)
  PROVE  RotationIInv' /\ R!NoOvertaking
<1>1. /\ targets # <<>> /\ r = Head(targets) /\ targets' = Tail(targets) /\ tried' = tried \cup {r}
      /\ UNCHANGED <<order, age, running, broken, gap>>
  BY DEF R!Fail
<1>2. /\ targets' \in Seq(Refreshed) /\ Len(targets') <= MaxTargets
      /\ \A i \in 1..Len(targets') : i + 1 \in 1..Len(targets) /\ targets'[i] = targets[i + 1]
      /\ r = targets[1]
  BY <1>1, RestOfTargets
<1>3. R!Tracked' = R!Tracked BY <1>1 DEF R!Tracked
<1>4. \A i \in 1..Len(targets') : targets'[i] \in R!Tracked' /\ age'[targets'[i]] = MinAge BY <1>1, <1>2, <1>3 DEF RotationIInv
<1>5. \A i, j \in 1..Len(targets') : i < j => Precedes(order', targets'[i], targets'[j])
  <2> SUFFICES ASSUME NEW i \in 1..Len(targets'), NEW j \in 1..Len(targets'), i < j
               PROVE  Precedes(order', targets'[i], targets'[j])
    OBVIOUS
  <2>1. i + 1 < j + 1 OBVIOUS
  <2>2. Precedes(order, targets[i + 1], targets[j + 1]) BY <1>2, <2>1 DEF RotationIInv
  <2> QED BY <1>1, <1>2, <2>2
<1>6. running BY <1>1 DEF RotationIInv
<1>7. R!NoOvertaking /\ tried' \subseteq R!Tracked' BY <1>1, <1>3, PassingOver
<1>8. NonePassedOver'
  <2> SUFFICES ASSUME NEW i \in 1..Len(targets'), NEW q \in R!Tracked, age[q] = MinAge, Precedes(order, q, targets'[i])
               PROVE  q \in tried' \/ \E j \in 1..Len(targets') : j < i /\ targets'[j] = q
    BY <1>1, <1>3 DEF NonePassedOver
  <2>1. q \in tried \/ \E j \in 1..Len(targets) : j < i + 1 /\ targets[j] = q
    BY <1>2 DEF RotationIInv, NonePassedOver
  <2>2. ASSUME NEW j \in 1..Len(targets), j < i + 1, targets[j] = q, q # r
        PROVE  j - 1 \in 1..Len(targets') /\ j - 1 < i /\ targets'[j - 1] = q
    <3>1. j # 1 BY <1>2, <2>2
    <3>2. Len(targets') \in Nat /\ i \in 1..Len(targets') BY <1>2, RotationIs
    <3>3. j - 1 \in 1..Len(targets') /\ j - 1 < i /\ (j - 1) + 1 = j BY <2>2, <3>1, <3>2
    <3> QED BY <1>2, <2>2, <3>3
  <2> QED BY <1>1, <2>1, <2>2
<1>9. gap' \in [Refreshed -> 0..MinAge] /\ \A q \in Refreshed : gap'[q] = MinAge BY <1>1, <1>3 DEF RotationIInv
<1>10. RotationIInv' BY <1>1, <1>2, <1>3, <1>4, <1>5, <1>6, <1>7, <1>8, <1>9 DEF RotationIInv
<1> QED BY <1>7, <1>10

LEMMA Selecting ==
  ASSUME RotationIInv, R!Start
  PROVE  RotationIInv'
<1>1. running' = TRUE /\ targets' = R!StaleRepositories /\ UNCHANGED <<order, age, broken, gap, tried>> BY DEF R!Start, R!history
<1>2. R!Tracked' = R!Tracked BY <1>1 DEF R!Tracked
<1>3. /\ targets' \in Seq(Refreshed) /\ Len(targets') <= MaxTargets
      /\ \A k \in 1..Len(targets') : targets'[k] \in R!Tracked /\ age[targets'[k]] = MinAge
      /\ \A k, l \in 1..Len(targets') : k < l => Precedes(order, targets'[k], targets'[l])
      /\ \A k \in 1..Len(targets'), q \in R!Tracked :
           age[q] = MinAge /\ Precedes(order, q, targets'[k]) => \E l \in 1..Len(targets') : l < k /\ targets'[l] = q
  BY <1>1, Selected
<1>4. \A k, l \in 1..Len(targets') : k < l => Precedes(order', targets'[k], targets'[l]) BY <1>1, <1>3
<1>5. NonePassedOver' BY <1>1, <1>2, <1>3 DEF NonePassedOver
<1>6. /\ tried' \subseteq R!Tracked' /\ gap' \in [Refreshed -> 0..MinAge]
      /\ \A r \in Refreshed : gap'[r] = MinAge
  BY <1>1, <1>2 DEF RotationIInv
<1> QED BY <1>1, <1>2, <1>3, <1>4, <1>5, <1>6 DEF RotationIInv

LEMMA Finding ==
  ASSUME RotationIInv, NEW r \in Refreshed, R!Discover(r)
  PROVE  RotationIInv' /\ tried' = tried
<1>1. /\ ~running /\ r \notin R!Tracked /\ order' = Append(order, r) /\ age' = [age EXCEPT ![r] = 0]
      /\ UNCHANGED <<targets, running, broken, gap, tried>>
  BY DEF R!Discover, R!history
<1>2. /\ order \in Seq(Refreshed) /\ NoTwice(order) /\ Len(order) \in Nat /\ R!Tracked = {order[i] : i \in 1..Len(order)}
      /\ R!Tracked \subseteq Refreshed
  BY TheTracked
<1>3. /\ order' \in Seq(Refreshed) /\ Len(order') = Len(order) + 1 /\ order'[Len(order) + 1] = r
      /\ \A i \in 1..Len(order) : order'[i] = order[i]
  BY <1>1, <1>2, AppendProperties
<1>4. NoTwice(order')
  <2> SUFFICES ASSUME NEW i \in 1..Len(order'), NEW j \in 1..Len(order'), order'[i] = order'[j] PROVE i = j
    BY DEF NoTwice
  <2>1. CASE i \in 1..Len(order) /\ j \in 1..Len(order) BY <1>2, <1>3, <2>1 DEF NoTwice
  <2>2. CASE i = Len(order) + 1 /\ j \in 1..Len(order) BY <1>1, <1>2, <1>3, <2>2
  <2>3. CASE i \in 1..Len(order) /\ j = Len(order) + 1 BY <1>1, <1>2, <1>3, <2>3
  <2>4. CASE i = Len(order) + 1 /\ j = Len(order) + 1 BY <2>4
  <2> QED BY <1>2, <1>3, <2>1, <2>2, <2>3, <2>4
<1>5. R!Tracked \subseteq R!Tracked'
  <2>1. R!Tracked' = {order'[i] : i \in 1..Len(order')} BY <1>3, RotationIs DEF R!Tracked
  <2>2. ASSUME NEW i \in 1..Len(order) PROVE order[i] \in {order'[j] : j \in 1..Len(order')}
    <3>1. i \in 1..Len(order') /\ order'[i] = order[i] BY <1>2, <1>3
    <3> QED BY <3>1
  <2> QED BY <1>2, <2>1, <2>2
<1>6. age' \in [Refreshed -> 0..MinAge] BY <1>1, RotationIs DEF RotationIInv
<1>7. targets' = <<>> /\ Len(targets') = 0 /\ targets' \in Seq(Refreshed) BY <1>1 DEF RotationIInv
<1>8. NonePassedOver' BY <1>7 DEF NonePassedOver
<1>9. tried' \subseteq R!Tracked' /\ (~running' => tried' = {}) BY <1>1, <1>5 DEF RotationIInv
<1>11. gap' \in [Refreshed -> 0..MinAge] /\ \A q \in Refreshed : gap'[q] = MinAge BY <1>1 DEF RotationIInv
<1> QED BY <1>1, <1>3, <1>4, <1>5, <1>6, <1>7, <1>8, <1>9, <1>11, RotationIs DEF RotationIInv

LEMMA Ageing ==
  ASSUME RotationIInv, R!NextDay
  PROVE  RotationIInv' /\ tried' = tried
<1>1. /\ ~running /\ age' = [r \in Refreshed |-> IF age[r] < MinAge THEN age[r] + 1 ELSE age[r]]
      /\ UNCHANGED <<order, targets, running, broken, gap, tried>>
  BY DEF R!NextDay, R!history
<1>2. age \in [Refreshed -> 0..MinAge] /\ MinAge \in Nat BY RotationIs DEF RotationIInv
<1>3. age' \in [Refreshed -> 0..MinAge] BY <1>1, <1>2
<1>4. targets' = <<>> /\ Len(targets') = 0 BY <1>1 DEF RotationIInv
<1>5. R!Tracked' = R!Tracked BY <1>1 DEF R!Tracked
<1>6. NonePassedOver' BY <1>4 DEF NonePassedOver
<1> QED BY <1>1, <1>3, <1>4, <1>5, <1>6 DEF RotationIInv

LEMMA RotationStep ==
  ASSUME RotationIInv, [R!Next]_rotating
  PROVE  RotationIInv' /\ [R!NoOvertaking]_rotating
<1>1. ASSUME tried' = tried PROVE R!NoOvertaking BY <1>1 DEF R!NoOvertaking
<1>2. CASE UNCHANGED rotating
  <2>1. UNCHANGED <<order, age, targets, running, broken, gap, tried>> BY <1>2 DEF rotating
  <2>2. RotationIInv' BY <2>1 DEF RotationIInv, NonePassedOver, R!Tracked
  <2> QED BY <1>2, <2>2
<1>3. CASE R!Start
  <2>1. tried' = tried BY <1>3 DEF R!Start, R!history
  <2> QED BY <1>1, <1>3, <2>1, Selecting
<1>4. CASE R!Stop
  <2>1. /\ targets' = <<>> /\ Len(targets') = 0 /\ running' = FALSE /\ tried' = {}
        /\ UNCHANGED <<order, age, broken, gap>>
    BY <1>4 DEF R!Stop
  <2>2. targets' \in Seq(Refreshed) BY <2>1
  <2>3. R!Tracked' = R!Tracked BY <2>1 DEF R!Tracked
  <2>4. Len(targets') <= MaxTargets /\ 1..Len(targets') = {} BY <2>1, RotationIs
  <2>5. NonePassedOver' BY <2>4 DEF NonePassedOver
  <2>6. RotationIInv' BY <2>1, <2>2, <2>3, <2>4, <2>5 DEF RotationIInv
  <2>7. R!NoOvertaking BY <2>1 DEF R!NoOvertaking
  <2> QED BY <2>6, <2>7
<1>5. CASE R!NextDay BY <1>1, <1>5, Ageing
<1>6. ASSUME NEW r \in Refreshed, R!Poll(r) PROVE RotationIInv' /\ R!NoOvertaking BY <1>6, Polling
<1>7. ASSUME NEW r \in Refreshed, R!Fail(r) PROVE RotationIInv' /\ R!NoOvertaking BY <1>7, Failing
<1>8. ASSUME NEW r \in Refreshed, R!Discover(r) PROVE RotationIInv' /\ R!NoOvertaking BY <1>1, <1>8, Finding
<1>9. ASSUME NEW r \in Refreshed, R!Break(r) \/ R!Mend(r) PROVE RotationIInv' /\ R!NoOvertaking
  <2>1. broken' \subseteq Fragile /\ UNCHANGED <<order, age, targets, running, gap, tried>>
    BY <1>9 DEF R!Break, R!Mend, R!history, RotationIInv
  <2>2. RotationIInv' BY <2>1 DEF RotationIInv, NonePassedOver, R!Tracked
  <2> QED BY <1>1, <2>1, <2>2
<1> QED BY <1>2, <1>3, <1>4, <1>5, <1>6, <1>7, <1>8, <1>9 DEF R!Next

LEMMA RotationTyped == RotationIInv => R!TypeOK
<1> SUFFICES ASSUME RotationIInv PROVE R!TypeOK OBVIOUS
<1>1. order \in Seq(Refreshed) /\ NoTwice(order) /\ R!IsInjective(order) /\ R!Tracked \subseteq Refreshed
      /\ Len(order) \in Nat
  BY TheTracked
<1>2. \A a, b \in Refreshed : Precedes(order, a, b) => a # b BY <1>1 DEF Precedes, NoTwice
<1>3. targets \in Seq(Refreshed) /\ Len(targets) \in Nat /\ \A i \in 1..Len(targets) : targets[i] \in Refreshed
  BY RotationIs DEF RotationIInv
<1>4. NoTwice(targets)
  <2> SUFFICES ASSUME NEW i \in 1..Len(targets), NEW j \in 1..Len(targets), i < j PROVE targets[i] # targets[j]
    BY DEF NoTwice
  <2> QED BY <1>2, <1>3 DEF RotationIInv
<1>5. R!IsInjective(targets) /\ R!ToSet(targets) = {targets[i] : i \in 1..Len(targets)} BY <1>3, <1>4, RotationIs
<1>6. R!ToSet(targets) \subseteq R!Tracked BY <1>5 DEF RotationIInv
<1> QED BY <1>1, <1>5, <1>6 DEF RotationIInv, R!TypeOK

(* RefreshRotation: nobody is polled twice within the minimum age, and no  *)
(* poll, failed or not, passes over a due repository that was observed     *)
(* before and not tried in this run, for any number of repositories,       *)
(* targets and days.                                                       *)
THEOREM PolledInTurn == RecordsSpec => TakenInTurn
<1>1. RecordsInit => RotationIInv BY RotationInit DEF RecordsInit
<1>2. [RecordsNext]_recordsVars => [R!Next]_rotating BY DEF RecordsNext, recordsVars
<1>3. RotationIInv /\ [RecordsNext]_recordsVars => RotationIInv' BY <1>2, RotationStep
<1>4. RotationIInv /\ [RecordsNext]_recordsVars => [R!NoOvertaking]_rotating BY <1>2, RotationStep
<1>5. RotationIInv => R!TypeOK /\ R!NoHurry
  <2>1. RotationIInv => R!NoHurry BY TheTracked DEF RotationIInv, R!NoHurry
  <2> QED BY <2>1, RotationTyped
<1> QED BY <1>1, <1>3, <1>4, <1>5, PTL DEF RecordsSpec, TakenInTurn
=============================================================================
