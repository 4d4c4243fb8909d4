-------------------------- MODULE DeveloperScores --------------------------
(***************************************************************************)
(* What the pages say of the developers (analytics/intelligence.py and     *)
(* services/intelligence.py): contribution links observed over time give   *)
(* shares, topic relevance, activity, an ecosystem score and a label.      *)
(*                                                                         *)
(* Scores are in thousandths, roots in hundredths, rounded down.  The      *)
(* momentum of a repository (RepositoryScores) and its trend are inputs.   *)
(***************************************************************************)
EXTENDS Series, Functions, TLC

CONSTANTS
  Developer, Repo,
  Owner,            \* repository -> the developer it is linked to, or None
  TopicsOf,         \* repository -> its topics
  Digests,          \* what a repository may have: momentum and rising
  Day,              \* days on which something is observed, in order of time
  Counts,           \* cumulative contributions GitHub may report
  Followers,        \* follower counts it may report
  MaxObservations,  \* bound: contribution and profile observations
  MaxLinks          \* bound: developers and repositories that are linked

VARIABLES
  now,        \* day of the newest observation
  digest,     \* repository -> momentum and trend
  links,      \* developer, repository -> cumulative contributions, None: no link
  seen,       \* developer, repository -> observations of the link
  profile,    \* developer -> observations of the public profile
  since       \* developer -> the day the row was created, or None

vars == <<now, digest, links, seen, profile, since>>

Pair == Developer \X Repo
Observations == FoldFunction(LAMBDA s, n : n + Cardinality(DOMAIN s), 0, seen)
                + FoldFunction(LAMBDA s, n : n + Cardinality(DOMAIN s), 0, profile)

TypeOK ==
  /\ now \in Day
  /\ \A p \in Pair : DOMAIN seen[p] \subseteq Day /\ links[p] \in Counts \cup {None}
  /\ \A d \in Developer : DOMAIN profile[d] \subseteq Day /\ since[d] \in {None} \cup {day \in Day : day <= now}

Init ==
  /\ now = Min(Day)
  /\ digest \in [Repo -> Digests]
  /\ links = [p \in Pair |-> None]
  /\ seen = [p \in Pair |-> <<>>]
  /\ profile = [d \in Developer |-> <<>>]
  /\ since = [d \in Developer |-> None]

Known(d) == since' = [since EXCEPT ![d] = IF @ = None THEN now ELSE @]

(* Enrichment stores the link and its observation; a link written before   *)
(* observations were kept has none.                                        *)
Linkable(d, r) == links[d, r] # None \/ Cardinality({p \in Pair : links[p] # None}) < MaxLinks

ObserveLink(d, r) ==
  /\ Linkable(d, r)
  /\ Observations < MaxObservations /\ now \notin DOMAIN seen[d, r]
  /\ \E n \in Counts :
       /\ links' = [links EXCEPT ![d, r] = n]
       /\ seen' = [seen EXCEPT ![d, r] = (now :> [n |-> n]) @@ @]
  /\ Known(d)
  /\ UNCHANGED <<now, digest, profile>>

LegacyLink(d, r) ==
  /\ now = Min(Day) /\ links[d, r] = None /\ Linkable(d, r)
  /\ \E n \in Counts : links' = [links EXCEPT ![d, r] = n]
  /\ Known(d)
  /\ UNCHANGED <<now, digest, seen, profile>>

ObserveProfile(d) ==
  /\ Observations < MaxObservations /\ now \notin DOMAIN profile[d]
  /\ \E n \in Followers : profile' = [profile EXCEPT ![d] = (now :> [n |-> n]) @@ @]
  /\ Known(d)
  /\ UNCHANGED <<now, digest, links, seen>>

Later ==
  /\ \E day \in Day : day > now /\ now' = Min({e \in Day : e > now})
  /\ UNCHANGED <<digest, links, seen, profile, since>>

Next ==
  \/ \E d \in Developer, r \in Repo : ObserveLink(d, r) \/ LegacyLink(d, r)
  \/ \E d \in Developer : ObserveProfile(d)
  \/ Later

Spec == Init /\ [][Next]_vars
---------------------------------------------------------------------------
LinkedBy(d) == {r \in Repo : links[d, r] # None}
OwnedBy(d) == {r \in Repo : Owner[r] = d}
Associated(d) == LinkedBy(d) \cup OwnedBy(d)

ShareOf(d, r) ==
  Share(links[d, r], Total({e \in Developer : links[e, r] # None}, LAMBDA e : links[e, r]))

Delta(d, r) == WindowDelta(seen[d, r], "n", now, WindowDays)
Measured(change) == IF change = None THEN FALSE ELSE change.delta # None
RisenNet(change) == IF Measured(change) THEN change.delta ELSE 0   \* mutant: falls are subtracted
Risen(change) == IF Measured(change) THEN Max({0, change.delta}) ELSE 0
Rise(d, r) == Risen(Delta(d, r))
Span(d, r) == IF Cardinality(DOMAIN seen[d, r]) < 2 THEN 0
              ELSE Latest(seen[d, r]) - Oldest(seen[d, r])
LongestSpan(d) == Max({0} \cup {Span(d, r) : r \in LinkedBy(d)})

(* compute_topic_relevance                                                 *)
Relevant(d, topic) == {r \in Associated(d) : topic \in TopicsOf[r]}

MeanMomentum(repos) ==
  (1000 * Mean({r \in repos : digest[r].momentum # None}, LAMBDA r : digest[r].momentum)) \div MaxScore

RelevanceFrom(d, repos, linked) ==
  Min({1000,
    (25 * Ratio(Cardinality(repos), 5)
     + 30 * 4 * Mean(linked, LAMBDA r : Min({ShareOf(d, r), 250}))
     + 20 * Ratio(Cardinality(repos \cap OwnedBy(d)), 3)
     + 15 * Dampen(Total(linked, LAMBDA r : Rise(d, r)))
     + 10 * MeanMomentum(repos)) \div 100})

RelevanceScore(d, topic) ==
  RelevanceFrom(d, Relevant(d, topic), Relevant(d, topic) \cap LinkedBy(d))

(* compute_activity: None without a history, unavailable without a window. *)
HasHistory(d) == \E r \in LinkedBy(d) : DOMAIN seen[d, r] # {}
Changes(d) == [r \in LinkedBy(d) |-> Delta(d, r)]

ActivityReport(measured, active, complete, rise, span) ==
  [available |-> measured > 0, rise |-> rise, active |-> active,
   score |-> IF measured = 0 THEN 0
             ELSE (5 * Dampen(rise) + 3 * Ratio(active, measured) + 2 * Ratio(complete, measured)) \div 10,
   confidence |-> (4 * Ratio(active, 3) + 3 * Ratio(span, 30)
                   + (IF measured = 0 THEN 0 ELSE 3 * Ratio(complete, measured))) \div 10]

ActivityFrom(d, change, measured) ==
  ActivityReport(
    Cardinality(measured),
    Cardinality({r \in measured : change[r].delta > 0}),
    Cardinality({r \in measured : change[r].complete}),
    Total(measured, LAMBDA r : Risen(change[r])), LongestSpan(d))

Activity(d) ==
  IF HasHistory(d)
  THEN ActivityFrom(d, Changes(d), {r \in LinkedBy(d) : Measured(Delta(d, r))}) ELSE None

(* compute_ecosystem_score                                                 *)
ActivityPoints(a) == IF a = None THEN 0 ELSE 20 * a.score

EcosystemScore(d) ==
  IF Associated(d) = {} THEN None
  ELSE Min({1000,
    (25 * Mean(UNION {TopicsOf[r] : r \in Associated(d)}, LAMBDA t : RelevanceScore(d, t))
     + 25 * MeanMomentum(Associated(d))
     + ActivityPoints(Activity(d))
     + 15 * Ratio(Cardinality(OwnedBy(d)), 3)
     + 15 * Ratio(Cardinality(Associated(d)), 5)) \div 100})
---------------------------------------------------------------------------
(* compute_emerging: the signals, the score and the label, from the        *)
(* activity a and the change w of the followers.                           *)
Followed(d) == WindowDelta(profile[d], "n", now, WindowDays)
FollowerGrowth(w) ==
  IF ~Measured(w) THEN None ELSE IF w.base <= 0 THEN None ELSE (1000 * w.delta) \div w.base

Grew(growth) == IF growth = None THEN FALSE ELSE growth > 0
Newcomer(d) == now - since[d] <= 30
Growing(d) == {r \in Associated(d) : digest[r].rising \/
                 (IF digest[r].momentum = None THEN FALSE ELSE digest[r].momentum >= 3000)}

EmergingScore(d, a, growth) ==
  Min({1000,
    (35 * Dampen(a.rise)
     + 25 * Ratio(Cardinality(Growing(d)), Cardinality(Associated(d)))
     + (IF Newcomer(d) THEN 20 * 1000 ELSE 0)
     + (IF Grew(growth) THEN 100 * Root(10 * growth) ELSE 0)
     + 10 * Ratio(a.active, 2)) \div 100})

Evidence(d, a, growth) ==
  a.active + (IF Newcomer(d) THEN 1 ELSE 0) + (IF Grew(growth) THEN 1 ELSE 0)

LabelFrom(d, a, score, evidence) ==
  IF a.confidence < 300 THEN "INSUFFICIENT_HISTORY"
  ELSE IF score >= 300 /\ evidence >= 2 THEN (IF a.rise > 0 THEN "EMERGING" ELSE "ACTIVE")
  ELSE IF a.available /\ score >= 150 THEN "ACTIVE"
  ELSE IF LongestSpan(d) >= 90 \/ Total(LinkedBy(d), LAMBDA r : links[d, r]) >= 200 THEN "ESTABLISHED"
  ELSE "QUIET"

Emerging(d, a, growth) ==
  LabelFrom(d, a, EmergingScore(d, a, growth), Evidence(d, a, growth))

Label(d) ==
  IF HasHistory(d) THEN Emerging(d, Activity(d), FollowerGrowth(Followed(d)))
  ELSE "INSUFFICIENT_HISTORY"

(* services/intelligence.py: a report for every developer with a link.     *)
Reported == {d \in Developer : LinkedBy(d) # {}}
---------------------------------------------------------------------------
(* EMERGING is only said of somebody who was observed contributing more    *)
(* than before, within the window, wherever the rest of the score is from. *)
EmergingIsObserved ==
  \A d \in Reported : Label(d) = "EMERGING" =>
    \E r \in Repo : \E a, b \in DOMAIN seen[d, r] :
      /\ a <= now - WindowDays /\ b > a
      /\ seen[d, r][a].n < seen[d, r][b].n

(* Counts fall when GitHub rewrites history: a fall in one repository      *)
(* never hides a rise in another.                                          *)
FallsHideNothing ==
  \A d \in Reported : HasHistory(d) => \A r \in LinkedBy(d) : Activity(d).rise >= Rise(d, r)

(* The shares of the contributors of a repository add up to all of it, up  *)
(* to rounding, also after a count has been replaced.                      *)
SharesAddUp ==
  \A r \in Repo :
    LET by == {d \in Developer : links[d, r] # None}
        all == Total(by, LAMBDA d : ShareOf(d, r))
    IN all <= 1000 /\ (all > 0 => all > 1000 - Cardinality(by))

(* Who owns a repository of a topic is relevant to it without a link, and  *)
(* whoever has a report has a place in the ecosystem.                      *)
OwnersAreRelevant ==
  \A d \in Reported :
    /\ EcosystemScore(d) \in 1..1000
    /\ \A r \in OwnedBy(d) : \A t \in TopicsOf[r] :
         Relevant(d, t) # {} /\ RelevanceScore(d, t) > 0

(* Being known is worth nothing: followers that never rose are no evidence *)
(* and, without contributions that rose and with a row that is not new,    *)
(* the score is that of the growing repositories alone.                    *)
FameIsNothing ==
  \A d \in Reported :
    (HasHistory(d) /\ \A a, b \in DOMAIN profile[d] : a < b => profile[d][a].n >= profile[d][b].n)
      => \A a \in {Activity(d)}, growth \in {FollowerGrowth(Followed(d))} :
           /\ Evidence(d, a, growth) <= a.active + 1
           /\ (a.rise = 0 /\ ~Newcomer(d)) =>
                Evidence(d, a, growth) = 0 /\ EmergingScore(d, a, growth) <= 250

(* What is said of developers is said of something observed.               *)
ReportsAreEarned ==
  /\ TypeOK /\ EmergingIsObserved /\ FallsHideNothing /\ SharesAddUp
  /\ OwnersAreRelevant /\ FameIsNothing
=============================================================================
