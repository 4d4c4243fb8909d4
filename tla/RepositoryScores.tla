-------------------------- MODULE RepositoryScores --------------------------
(***************************************************************************)
(* What the pages say of the tracked repositories as observations come in: *)
(* reports, ranking, topics (analytics/trends.py, topics.py, api/dataset)  *)
(* and the filtered, sorted list of api/routes/repositories.py.            *)
(*                                                                         *)
(* Observations arrive in any order of their days: a collection that       *)
(* started earlier may be committed later, and imports bring older ones.   *)
(***************************************************************************)
EXTENDS Series, SequencesExt

CONSTANTS
  Repo,             \* tracked repositories, numbered by name
  TopicsOf,         \* the topics of each
  Day, Reading,     \* days observed, and what an observation may say
  MaxObservations,  \* bound: observations of all repositories
  TopicFloor        \* topics smaller than this are never HIGH

VARIABLES
  rows,       \* repository -> its observations in the order they were stored
  others      \* the newest observation of a developer or of contributors, or None

vars == <<rows, others>>

TypeOK ==
  /\ \A r \in Repo : \A i \in DOMAIN rows[r] : rows[r][i].at \in Day
  /\ others \in Day \cup {None}

Init == rows = [r \in Repo |-> <<>>] /\ others = None

Observe(r) ==
  /\ FoldSet(LAMBDA q, n : n + Len(rows[q]), 0, Repo) < MaxObservations
  /\ UNCHANGED others
  /\ \E day \in Day \ DOMAIN SeriesOf(rows[r]), said \in Reading :
       rows' = [rows EXCEPT ![r] = Append(@,
         [at |-> day, stars |-> said.stars, forks |-> said.forks,
          pushed |-> IF said.pushed = None THEN None ELSE day - said.pushed])]

ObserveOther ==
  /\ \E day \in Day : (IF others = None THEN TRUE ELSE others < day) /\ others' = day
  /\ UNCHANGED rows

Next == (\E r \in Repo : Observe(r)) \/ ObserveOther

Spec == Init /\ [][Next]_vars
---------------------------------------------------------------------------
Of(r) == SeriesOf(rows[r])
Seen == {r \in Repo : rows[r] # <<>>}
Newest == Max({Latest(Of(r)) : r \in Seen} \cup ({others} \ {None}))   \* the dataset's reference

(* The digest of one repository.  Lists, rankings and topics date its      *)
(* momentum by the observation stored last, which need not be the newest   *)
(* (latest_snapshots_by_repository), the detail page by the newest; a      *)
(* repository without observations has no momentum, "new" for a trend in   *)
(* lists and none in its detail page.                                      *)
LastStored(r) == rows[r][Len(rows[r])].at

MomentumOf(r) == IF r \in Seen THEN Momentum(Of(r), LastStored(r)) ELSE None
TrendOf(r) == IF r \in Seen THEN Trend(Of(r), LastStored(r), Newest) ELSE "new"
DetailMomentum(r) == IF r \in Seen THEN Momentum(Of(r), Latest(Of(r))) ELSE None
DetailTrend(r) == IF r \in Seen THEN Trend(Of(r), Latest(Of(r)), Latest(Of(r))) ELSE None
Stars7d(r) == IF r \in Seen THEN RepositoryDelta(Of(r), "stars", WindowDays) ELSE None

(* Stable sorts, highest first.                                            *)
Ranking ==
  LET ranked == SetToSortSeq({r \in Repo : MomentumOf(r) # None}, <)
  IN SortSeq(ranked, LAMBDA a, b : MomentumOf(a) > MomentumOf(b) \/
                                   (MomentumOf(a) = MomentumOf(b) /\ a < b))

Topic == UNION {TopicsOf[r] : r \in Repo}
In(t) == {r \in Repo : t \in TopicsOf[r]}

Aggregate(t) ==
  LET scored == {r \in In(t) : MomentumOf(r) # None}
      total == FoldSet(LAMBDA r, n : n + MomentumOf(r), 0, scored)
      complete == {r \in In(t) : Stars7d(r) # None /\ Stars7d(r).complete}
  IN [count |-> Cardinality(In(t)), total |-> total,
      average |-> IF In(t) = {} THEN 0 ELSE total \div Cardinality(In(t)),
      confidence |-> TopicConfidence(Cardinality(In(t)), Cardinality(scored),
                                     Cardinality(complete), TopicFloor)]

---------------------------------------------------------------------------
(* The list of api/routes/repositories.py: what it keeps, the key it sorts *)
(* by -- a value that is missing sorts below every value -- and its order, *)
(* reversed as a whole when descending.                                    *)
Orders == {"asc", "desc"}
Sorts == {"stars", "momentum", "stars_7d", "trend"}

KeyOf(r, sort) ==
  CASE sort = "stars" -> IF r \in Seen THEN Of(r)[Latest(Of(r))].stars ELSE None
    [] sort = "momentum" -> MomentumOf(r)
    [] sort = "stars_7d" -> IF Stars7d(r) = None THEN None ELSE Stars7d(r).delta
    [] sort = "trend" -> CHOOSE i \in 1..5 :
         <<"inactive", "new", "declining", "steady", "rising">>[i] = TrendOf(r)

Below(key, r, q) ==
  IF key[r] = key[q] THEN r < q ELSE key[r] = None \/ (key[q] # None /\ key[r] < key[q])

Passes(r, trend, low) ==
  /\ trend \in {None, TrendOf(r)}
  /\ low = None \/ (KeyOf(r, "stars") # None /\ KeyOf(r, "stars") >= low)

Sorted(kept, key, order) ==
  SetToSortSeq(kept, LAMBDA r, q : IF order = "asc" THEN Below(key, r, q) ELSE Below(key, q, r))

Listed(trend, low, sort, order) ==
  Sorted({r \in Repo : Passes(r, trend, low)}, [r \in Repo |-> KeyOf(r, sort)], order)

(* Averages and counts over all tracked repositories.                      *)
SummaryTrends ==
  [trend \in {TrendOf(r) : r \in Repo} |-> Cardinality({r \in Repo : TrendOf(r) = trend})]
---------------------------------------------------------------------------
(* A measured change is the same whether it is read the repository way or  *)
(* the developer way, at the newest observation and where there is a base. *)
WindowsAgree ==
  \A r \in Seen :
    LET w == WindowDelta(Of(r), "stars", Latest(Of(r)), WindowDays)
        d == Stars7d(r)
    IN w.delta # None => d # None /\ d.delta = w.delta /\ d.complete = w.complete

(* An observation that arrives late and lies inside the window changes no  *)
(* growth and nothing of the detail page, since only the ends of a window  *)
(* are read.  The momentum of lists moves with the day it is dated by: by  *)
(* its recency and by nothing else.                                        *)
InsideWindow(day, d, latest) ==
  d # None /\ day \in (d.since + 1)..(latest - 1) /\ day > latest - WindowDays

Week(s) == RepositoryDelta(s, "stars", WindowDays)
GrowthPoints(s, day) ==
  IF Momentum(s, day) = None THEN None ELSE Momentum(s, day) - RecencyScore(s[Latest(s)].pushed, day)

LateIsHarmless ==
  \A r \in {q \in Repo : Len(rows[q]) > 1} :
    LET earlier == Front(rows[r])
        before == SeriesOf(earlier)
    IN InsideWindow(LastStored(r), Week(before), Latest(before))
         => /\ Week(Of(r)) = Week(before)
            /\ GrowthPoints(Of(r), LastStored(r)) = GrowthPoints(before, Last(earlier).at)
            /\ DetailMomentum(r) = Momentum(before, Latest(before))
            /\ DetailTrend(r) = Trend(before, Latest(before), Latest(before))

(* A repository with momentum has two observations and a score within the  *)
(* documented bounds, whatever was corrected downwards meanwhile.          *)
MomentumIsEarned ==
  \A r \in Seen : MomentumOf(r) # None => MomentumOf(r) \in 0..MaxScore /\ TrendOf(r) # "new"

(* High confidence is only given to a change over the whole window.        *)
HighMeansComplete ==
  \A r \in Seen : Level(WindowConfidence(Of(r), WindowDays)) = "HIGH" =>
    Stars7d(r) # None /\ Stars7d(r).complete

(* The base of a window never drifts forward on a tie.                     *)
NearestIsNearest ==
  \A r \in Seen : \A day \in Day :
    LET n == NearestTo(Of(r), day)  far(d) == IF d > day THEN d - day ELSE day - d
    IN /\ n \in DOMAIN Of(r)
       /\ \A d \in DOMAIN Of(r) : far(n) < far(d) \/ (far(n) = far(d) /\ n <= d)

(* What the topics page says of a topic never exceeds what its             *)
(* repositories say: no topic averages more than its best repository, the  *)
(* total is spread over all of them, and a small topic is never HIGH.      *)
TopicsAddUp ==
  \A t \in Topic :
    LET a == Aggregate(t)
    IN /\ a.total >= a.average * Cardinality(In(t))
       /\ a.average > 0 => \E r \in In(t) : MomentumOf(r) # None /\ MomentumOf(r) >= a.average
       /\ Cardinality(In(t)) < TopicFloor => a.confidence.level # "HIGH"

(* Both directions of a list hold the same repositories, each the other's  *)
(* mirror image: those whose value is missing come first ascending and     *)
(* last descending.  No filter lets in a count nobody observed.            *)
ListsMirror ==
  \A sort \in Sorts, low \in {None, 100} :
    LET up == Listed(None, low, sort, "asc")
        missing == {i \in DOMAIN up : KeyOf(up[i], sort) = None}
    IN /\ Listed(None, low, sort, "desc") = Reverse(up)
       /\ missing = 1..Cardinality(missing)
       /\ (low # None => \A r \in Range(up) : KeyOf(r, "stars") # None)

(* Every tracked repository is counted in exactly one trend class, and the *)
(* list filtered by that class shows exactly those counted.                *)
TrendsPartition ==
  /\ FoldFunction(+, 0, SummaryTrends) = Cardinality(Repo)
  /\ \A trend \in DOMAIN SummaryTrends :
       Len(Listed(trend, None, "trend", "asc")) = SummaryTrends[trend]

(* A list and the detail page disagree about a trend in three ways only: a *)
(* repository nobody observed is "new" in lists; without a momentum, what  *)
(* was steady at its own newest observation is inactive at the newest of   *)
(* all; with one, a list that dates it by an observation that came late    *)
(* still calls it steady.                                                  *)
PagesDisagreeOnlyOnAge ==
  \A r \in Repo : TrendOf(r) # DetailTrend(r) =>
    \/ r \notin Seen
    \/ MomentumOf(r) = None /\ DetailTrend(r) = "steady" /\ TrendOf(r) = "inactive"
    \/ /\ MomentumOf(r) # None /\ LastStored(r) < Latest(Of(r))
       /\ DetailTrend(r) = "inactive" /\ TrendOf(r) = "steady"

(* The ranking, and the list sorted by momentum without those that have    *)
(* none, differ in the order of equals only.                               *)
RankingIsListed ==
  LET listed == SelectSeq(Listed(None, None, "momentum", "desc"), LAMBDA r : MomentumOf(r) # None)
      Scores(s) == [i \in DOMAIN s |-> MomentumOf(s[i])]
  IN Scores(Ranking) = Scores(listed) /\ Range(Ranking) = Range(listed)

(* The pages agree with themselves and with each other.                    *)
PagesAgree == PagesDisagreeOnlyOnAge /\ RankingIsListed /\ TopicsAddUp /\ ListsMirror /\ TrendsPartition

(* Growth, momentum and confidence follow from the ends of windows that    *)
(* were observed, in whichever order the observations arrived.             *)
ScoresAreEarned ==
  /\ TypeOK /\ WindowsAgree /\ MomentumIsEarned /\ HighMeansComplete
  /\ NearestIsNearest /\ LateIsHarmless
=============================================================================
