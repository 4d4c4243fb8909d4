------------------------------- MODULE Series -------------------------------
(***************************************************************************)
(* Observation histories and what is measured on them (analytics/): the    *)
(* look-ups of a series, the change over a window for repositories         *)
(* (metrics.py) and for developers (history.py), recency, momentum, trend  *)
(* and confidence.                                                         *)
(*                                                                         *)
(* A series is a function from the days on which something was observed to *)
(* what was observed.  Scores are in thousandths, rounded down; growth is  *)
(* in thousandths of a percent.                                            *)
(***************************************************************************)
EXTENDS Integers, Sequences, FiniteSets, FiniteSetsExt

CONSTANT None   \* no value, no observation

Clamp(x, low, high) == Max({low, Min({high, x})})

Total(S, f(_)) == FoldSet(LAMBDA x, n : n + f(x), 0, S)
Mean(S, f(_)) == IF S = {} THEN 0 ELSE Total(S, f) \div Cardinality(S)
Root(n) == CHOOSE k \in 0..200 : k * k <= n /\ (k + 1) * (k + 1) > n
Ratio(n, floor) == Min({1000, (1000 * n) \div floor})
Dampen(x) == 10 * Root(100 * Clamp(x, 0, 100))      \* square root of x of 100

(* Observations in the order they were read: the last of one day wins.     *)
SeriesOf(observations) ==
  [day \in {observations[i].at : i \in DOMAIN observations} |->
     observations[Max({i \in DOMAIN observations : observations[i].at = day})]]

Oldest(s) == Min(DOMAIN s)
Latest(s) == Max(DOMAIN s)

LastOf(days) == IF days = {} THEN None ELSE Max(days)
FirstOf(days) == IF days = {} THEN None ELSE Min(days)
AtOrBefore(s, target) == LastOf({day \in DOMAIN s : day <= target})
AtOrAfter(s, target) == FirstOf({day \in DOMAIN s : day >= target})

(* Of the two neighbours the nearer, of equally near ones the older.       *)
Nearer(older, newer, target) ==
  IF older = None \/ (newer # None /\ newer - target < target - older) THEN newer ELSE older
NearestTo(s, target) == Nearer(AtOrBefore(s, target - 1), AtOrAfter(s, target), target)

---------------------------------------------------------------------------
(* The change of a count since a base that lies gap days before the window;*)
(* a gap of more than half a window makes it incomplete.                   *)
ChangeSince(s, field, base, gap, complete) ==
  IF None \in {s[base][field], s[Latest(s)][field]} THEN None
  ELSE [base |-> s[base][field], delta |-> s[Latest(s)][field] - s[base][field],
        since |-> base, gap |-> gap, complete |-> complete]

DeltaFrom(s, field, base, target, days, found) ==
  ChangeSince(s, field, base, Max({target - base, 0}), found /\ 2 * Max({target - base, 0}) <= days)

RepositoryDeltaNearest(s, field, days) ==   \* mutant: the base may lie inside the window
  IF Cardinality(DOMAIN s) < 2 \/ NearestTo(s, Latest(s) - days) = Latest(s) THEN None
  ELSE DeltaFrom(s, field, NearestTo(s, Latest(s) - days), Latest(s) - days, days, TRUE)

(* metrics.py: from the newest observation back; a history too short for   *)
(* the window falls back to its first observation and is incomplete.       *)
RepositoryDelta(s, field, days) ==
  IF Cardinality(DOMAIN s) < 2 THEN None
  ELSE IF AtOrBefore(s, Latest(s) - days) = None
  THEN DeltaFrom(s, field, Oldest(s), Latest(s) - days, days, FALSE)
  ELSE DeltaFrom(s, field, AtOrBefore(s, Latest(s) - days), Latest(s) - days, days, TRUE)

(* history.py: up to a reference instant; without a base there is no       *)
(* change, never a zero.                                                   *)
WindowChange(s, field, current, base, start, days) ==
  LET known == base # None /\ base # current
  IN [current |-> s[current][field],
      delta |-> IF known /\ None \notin {s[base][field], s[current][field]}
                THEN s[current][field] - s[base][field] ELSE None,
      base |-> IF known THEN s[base][field] ELSE None,
      since |-> IF known THEN base ELSE None,
      complete |-> known /\ 2 * (start - base) <= days]

WindowDelta(s, field, reference, days) ==
  IF DOMAIN s = {} THEN None
  ELSE WindowChange(s, field,
         IF AtOrBefore(s, reference) = None THEN Oldest(s) ELSE AtOrBefore(s, reference),
         AtOrBefore(s, reference - days), reference - days, days)

---------------------------------------------------------------------------
(* Recency falls to nothing over 90 days.                                  *)
RecencyScore(pushed, reference) ==
  IF pushed = None THEN 0
  ELSE Clamp(1000 - (1000 * Max({0, reference - pushed})) \div 90, 0, 1000)

Growth(d) == IF d = None \/ d.base = 0 THEN None ELSE (d.delta * 100000) \div d.base

(* momentum.py: growth of stars and forks over seven days, each worth at   *)
(* most 100 percent, and recency.                                          *)
WindowDays == 7
MaxScore == 5000 + 3000 + 1000

Usable(d) == d # None /\ d.base > 0

MomentumFrom(stars, forks, recency) ==
  IF ~Usable(stars) \/ ~Usable(forks) THEN None
  ELSE (5 * Clamp(Growth(stars), 0, 100000)) \div 100
       + (3 * Clamp(Growth(forks), 0, 100000)) \div 100 + recency

Momentum(s, reference) ==
  IF DOMAIN s = {} THEN None
  ELSE MomentumFrom(RepositoryDelta(s, "stars", WindowDays), RepositoryDelta(s, "forks", WindowDays),
                    RecencyScore(s[Latest(s)].pushed, reference))


(* trends.py: too little history first, then growth, then recency -- that  *)
(* of the momentum where there is one, else at the reference.              *)
TrendRecency(s, momentumAt, reference) ==
  RecencyScore(s[Latest(s)].pushed, IF Momentum(s, momentumAt) # None THEN momentumAt ELSE reference)

TrendFrom(growth, recency) ==
  CASE growth # None /\ growth >= 5000 -> "rising"
    [] growth # None /\ growth <= -5000 -> "declining"
    [] OTHER -> IF recency < 50 THEN "inactive" ELSE "steady"

Trend(s, momentumAt, reference) ==
  IF Cardinality(DOMAIN s) < 2 THEN "new"
  ELSE TrendFrom(Growth(RepositoryDelta(s, "stars", WindowDays)), TrendRecency(s, momentumAt, reference))

---------------------------------------------------------------------------
(* confidence.py: how much data a score rests on.                          *)
Level(score) == IF score >= 750 THEN "HIGH" ELSE IF score >= 450 THEN "MEDIUM" ELSE "LOW"

CountTerm(n) == (340 * Min({n, 5})) \div 5
SpanTerm(span, days) == (330 * Min({span, days})) \div days
GapTerm(gap, days) == (330 * Max({0, days - 2 * gap})) \div days

ConfidenceFrom(count, base, latest, days) ==
  IF count < 2 \/ base = None THEN 0
  ELSE CountTerm(count) + SpanTerm(latest - base, days) + GapTerm(latest - days - base, days)

WindowConfidence(s, days) ==
  ConfidenceFrom(Cardinality(DOMAIN s), AtOrBefore(s, Latest(s) - days), Latest(s), days)

(* A topic: how many repositories, how many with momentum, how many with   *)
(* a complete window; a small topic is never HIGH.                         *)
Share(n, all) == IF all = 0 THEN 0 ELSE (1000 * n) \div all

TopicConfidence(count, withMomentum, complete, floor) ==
  LET score == (500 * Min({count, floor})) \div floor
               + (3 * Share(withMomentum, count)) \div 10 + (2 * Share(complete, count)) \div 10
  IN IF count = 0 THEN [score |-> 0, level |-> "LOW"]
     ELSE [score |-> score,
           level |-> IF count < floor /\ Level(score) = "HIGH" THEN "MEDIUM" ELSE Level(score)]
=============================================================================
