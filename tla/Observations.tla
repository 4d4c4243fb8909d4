---------------------------- MODULE Observations ----------------------------
(***************************************************************************)
(* The observation log (storage/repositories.py): snapshots of repository  *)
(* counters, of contribution counts and of profiles, written by the        *)
(* collector and by the older library entry points discover() and update() *)
(* under a wall clock that may stand still or be set back, and the readers *)
(* that every analysis starts from.                                        *)
(***************************************************************************)
EXTENDS Integers, Sequences, FiniteSets, SequencesExt, FiniteSetsExt

CONSTANTS
  Repo, Developer, Topic,
  Counter,      \* values of the counters of a repository (one stands for all)
  LastInstant,  \* bound: clock readings are in 0..LastInstant
  MaxRows,      \* bound: snapshots of repositories
  RefreshDays   \* age at which a profile is fetched again

Never == -1

Parameters == LastInstant \in Nat /\ MaxRows \in Nat /\ RefreshDays \in Nat

VARIABLES
  clock,
  snapshots,     \* repository_snapshots in the order of their IDs
  contributions, \* repository_contributor_snapshots
  profiles,      \* developer_snapshots
  links,         \* repository_contributors: <<repository, developer>> -> count
  tags,          \* repository -> its topics, or the empty set
  fetched        \* developer -> profile_fetched_at, or Never

vars == <<clock, snapshots, contributions, profiles, links, tags, fetched>>

Init ==
  /\ clock \in 0..LastInstant
  /\ snapshots = <<>> /\ contributions = {} /\ profiles = {}
  /\ links = [l \in {} |-> 0]
  /\ tags = [r \in Repo |-> {}]
  /\ fetched = [d \in Developer |-> Never]

SetClock ==
  /\ clock' \in 0..LastInstant \ {clock}
  /\ UNCHANGED <<snapshots, contributions, profiles, links, tags, fetched>>

---------------------------------------------------------------------------
(* Readers.                                                                *)
Of(r) == {i \in DOMAIN snapshots : snapshots[i].repo = r}
Times(r) == {snapshots[i].at : i \in Of(r)}
Tracked == {r \in Repo : Of(r) # {}}

(* latest_snapshot(): ORDER BY captured_at DESC                            *)
LatestSnapshot(r) == CHOOSE i \in Of(r) : snapshots[i].at = Max(Times(r))

(* latest_snapshots_by_repository(): max(id)                               *)
LatestByRepository(r) == Max(Of(r))

Instants ==
  {snapshots[i].at : i \in DOMAIN snapshots} \cup {c.at : c \in contributions}
    \cup {p.at : p \in profiles}
NewestObservationAt == IF Instants = {} THEN Never ELSE Max(Instants)

---------------------------------------------------------------------------
RecordInPlace(r, v) ==   \* mutant: the newest row is updated
  snapshots' = IF r \notin Tracked THEN Append(snapshots, [repo |-> r, at |-> clock, value |-> v])
               ELSE [snapshots EXCEPT ![LatestSnapshot(r)] = [repo |-> r, at |-> clock, value |-> v]]

(* Writers: an observation at an instant that has one replaces it.         *)
RecordObservation(r, v) ==
  LET same == {i \in Of(r) : snapshots[i].at = clock}
      new == [repo |-> r, at |-> clock, value |-> v]
  IN snapshots' = IF same = {} THEN Append(snapshots, new)
                  ELSE [snapshots EXCEPT ![Max(same)] = new]

InsertIfChanged(r, v) ==
  IF r \in Tracked /\ snapshots[LatestSnapshot(r)].value = v
  THEN UNCHANGED snapshots
  ELSE RecordObservation(r, v)

SyncLinksOnly(r, counts) ==   \* mutant: an instant that has observations gets no new ones
  LET D == DOMAIN counts IN
  /\ links' = [l \in DOMAIN links \cup ({r} \X D) |->
                 IF l[1] = r /\ l[2] \in D THEN counts[l[2]] ELSE links[l]]
  /\ contributions' = contributions \cup
       {[repo |-> r, dev |-> d, at |-> clock, count |-> counts[d]] :
          d \in {d \in D : \A c \in contributions : c.dev = d => c.at # clock}}

(* sync_contributors(): the links and one observation of each.             *)
SyncContributors(r, counts) ==
  LET D == DOMAIN counts IN
  /\ links' = [l \in DOMAIN links \cup ({r} \X D) |->
                 IF l[1] = r /\ l[2] \in D THEN counts[l[2]] ELSE links[l]]
  /\ contributions' =
       {c \in contributions : ~(c.repo = r /\ c.dev \in D /\ c.at = clock)}
         \cup {[repo |-> r, dev |-> d, at |-> clock, count |-> counts[d]] : d \in D}

Counts == UNION {[D -> Counter] : D \in SUBSET Developer}

---------------------------------------------------------------------------
(* The collector: discovery stores a new repository with one observation,  *)
(* a refresh refuses a clock before the newest one, and an enrichment that *)
(* asks for more contributors than the last does not look at the clock.    *)
StageLightweight(r, v, T) ==
  /\ r \notin Tracked /\ Len(snapshots) < MaxRows
  /\ RecordObservation(r, v)
  /\ tags' = [tags EXCEPT ![r] = T]
  /\ UNCHANGED <<clock, contributions, profiles, links, fetched>>

StageObservation(r, v, T) ==
  /\ r \in Tracked /\ Len(snapshots) < MaxRows
  /\ clock >= Max(Times(r))
  /\ RecordObservation(r, v)
  /\ tags' = [tags EXCEPT ![r] = T]
  /\ UNCHANGED <<clock, contributions, profiles, links, fetched>>

Enrich(r, counts) ==
  /\ r \in Tracked
  /\ SyncContributors(r, counts)
  /\ UNCHANGED <<clock, snapshots, profiles, tags, fetched>>

(* _needs_refresh() and sync_profile(); a force fetches in any case.       *)
NeedsRefresh(d) == fetched[d] = Never \/ fetched[d] <= clock - RefreshDays

SyncProfile(d, v, force) ==
  /\ force \/ NeedsRefresh(d)
  /\ \E l \in DOMAIN links : l[2] = d
  /\ profiles' = {p \in profiles : ~(p.dev = d /\ p.at = clock)}
                   \cup {[dev |-> d, at |-> clock, value |-> v]}
  /\ fetched' = [fetched EXCEPT ![d] = clock]
  /\ UNCHANGED <<clock, snapshots, contributions, links, tags>>

---------------------------------------------------------------------------
(* discover() for a repository without a row, with enrich, and update():   *)
(* one transaction per repository, under no check of the clock.            *)
Update(r, v, T, counts) ==
  /\ Len(snapshots) < MaxRows
  /\ InsertIfChanged(r, v)
  /\ tags' = [tags EXCEPT ![r] = T]
  /\ SyncContributors(r, counts)
  /\ UNCHANGED <<clock, profiles, fetched>>

---------------------------------------------------------------------------
Collect ==
  \/ SetClock
  \/ \E r \in Repo :
       \/ \E v \in Counter, T \in SUBSET Topic :
            StageLightweight(r, v, T) \/ StageObservation(r, v, T)
       \/ \E counts \in Counts : Enrich(r, counts)
  \/ \E d \in Developer, v \in Counter, force \in BOOLEAN : SyncProfile(d, v, force)

(* Where discover() and update() are used as well.                         *)
Next ==
  \/ Collect
  \/ \E r \in Repo, v \in Counter, T \in SUBSET Topic, counts \in Counts : Update(r, v, T, counts)

Spec == Init /\ [][Next]_vars

---------------------------------------------------------------------------
(* Properties.                                                             *)

TypeOK ==
  /\ clock \in 0..LastInstant
  /\ \A i, j \in DOMAIN snapshots :
       snapshots[i].repo = snapshots[j].repo /\ snapshots[i].at = snapshots[j].at => i = j
  /\ \A c, d \in contributions : c.repo = d.repo /\ c.dev = d.dev /\ c.at = d.at => c = d
  /\ \A p, q \in profiles : p.dev = q.dev /\ p.at = q.at => p = q

(* With the collector alone, readers that take the newest snapshot by its  *)
(* ID (the lists, the graph, the analyses) and those that take it by its   *)
(* instant (a repository's page, the next refresh) see the same one, also  *)
(* when the clock is set back between two runs.                            *)
LatestAgree == \A r \in Tracked : LatestByRepository(r) = LatestSnapshot(r)

(* Every observed instant that is not the present one stays as it was      *)
(* observed: a re-observation corrects its own instant only.               *)
HistoryUntouched ==
  /\ \A i \in DOMAIN snapshots :
       snapshots[i].at # clock => i \in DOMAIN snapshots' /\ snapshots'[i] = snapshots[i]
  /\ {c \in contributions : c.at # clock} \subseteq contributions'
  /\ {p \in profiles : p.at # clock} \subseteq profiles'

(* The reference instant of all reports never goes back, and no source     *)
(* (repositories, contributors, profiles) has anything after it.           *)
AnchorCovers ==
  /\ NewestObservationAt' >= NewestObservationAt
  /\ \A c \in contributions' : c.at <= NewestObservationAt'
  /\ \A p \in profiles' : p.at <= NewestObservationAt'

(* The count a link shows is one that was observed for it.                 *)
LinksObserved ==
  \A l \in DOMAIN links :
    \E c \in contributions : c.repo = l[1] /\ c.dev = l[2] /\ c.count = links[l]
=============================================================================
