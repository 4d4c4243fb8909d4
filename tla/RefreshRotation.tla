-------------------------- MODULE RefreshRotation --------------------------
(***************************************************************************)
(* Refreshes day after day.  Each takes the repositories that have waited  *)
(* longest, polls them in turn and leaves a failed one where it was, so    *)
(* that it comes first again tomorrow.  RefreshRun models one run in       *)
(* detail; here a poll is one step and instants are an order and an age.   *)
(***************************************************************************)
EXTENDS Naturals, FiniteSets, Sequences, SequencesExt

CONSTANTS
  Repo,        \* repository IDs
  Known,       \* those tracked from the start, by ID; the others are discovered
  Fragile,     \* those that may be gone, renamed or private, fewer than MaxTargets
  MinAge,      \* min_refresh_hours, in days: a day for the workflow
  MaxTargets   \* limits.max_repositories

VARIABLES
  order,    \* the tracked repositories, the stalest first
  age,      \* days since the newest observation, at most MinAge
  targets,  \* what the present run has yet to poll
  running,
  broken,   \* the repositories that cannot be polled at present
  gap,      \* days from the observation before to the newest, at most MinAge
  tried     \* those the present run polled, or failed to poll

history == <<gap, tried>>
vars == <<order, age, targets, running, broken, history>>

Parameters ==
  /\ Known \in Seq(Repo) /\ IsInjective(Known)
  /\ MinAge \in Nat \ {0} /\ MaxTargets \in Nat

Tracked == ToSet(order)

TypeOK ==
  /\ IsInjective(order) /\ ToSet(Known) \subseteq Tracked /\ Tracked \subseteq Repo
  /\ age \in [Repo -> 0..MinAge] /\ broken \subseteq Fragile
  /\ IsInjective(targets) /\ ToSet(targets) \subseteq Tracked
  /\ Len(targets) <= MaxTargets /\ (~running => targets = <<>> /\ tried = {})
  /\ gap \in [Repo -> 0..MinAge] /\ tried \subseteq Tracked

Init ==
  /\ order = Known /\ age = [r \in Repo |-> MinAge]   \* never observed
  /\ targets = <<>> /\ running = FALSE /\ broken = {}
  /\ gap = age /\ tried = {}

Due(r) == age[r] >= MinAge

NewestFirst == Reverse(order)   \* mutant: the order of list_repositories

Stalest == order

Turn(i) == Cardinality({j \in 1..i : Due(Stalest[j])})
NthDue(k) == CHOOSE i \in DOMAIN Stalest : Due(Stalest[i]) /\ Turn(i) = k

StaleRepositories ==
  LET due == Turn(Len(Stalest))
  IN [k \in 1..(IF due < MaxTargets THEN due ELSE MaxTargets) |-> Stalest[NthDue(k)]]

Start ==   \* the stalest first, at most MaxTargets of them
  /\ ~running /\ running' = TRUE
  /\ targets' = StaleRepositories
  /\ UNCHANGED <<order, age, broken, history>>

PollInPlace(r) ==   \* mutant: an unchanged observation is not recorded
  /\ targets # <<>> /\ r = Head(targets) /\ r \notin broken
  /\ targets' = Tail(targets) /\ tried' = tried \cup {r}
  /\ UNCHANGED <<order, age, running, broken, gap>>

Poll(r) ==   \* stage_observation, committed
  /\ targets # <<>> /\ r = Head(targets) /\ r \notin broken
  /\ targets' = Tail(targets)
  /\ \E i \in DOMAIN order : order[i] = r /\ order' = Append(RemoveAt(order, i), r)
  /\ age' = [age EXCEPT ![r] = 0] /\ gap' = [gap EXCEPT ![r] = age[r]]
  /\ tried' = tried \cup {r}
  /\ UNCHANGED <<running, broken>>

Fail(r) ==   \* it cannot be polled, or this attempt was lost
  /\ targets # <<>> /\ r = Head(targets)
  /\ targets' = Tail(targets) /\ tried' = tried \cup {r}
  /\ UNCHANGED <<order, age, running, broken, gap>>

Stop ==   \* nothing is left, or the budget, the quota or the time is
  /\ running /\ running' = FALSE /\ targets' = <<>> /\ tried' = {}
  /\ UNCHANGED <<order, age, broken, gap>>

NextDay ==
  /\ ~running /\ \E r \in Tracked : age[r] < MinAge
  /\ age' = [r \in Repo |-> IF age[r] < MinAge THEN age[r] + 1 ELSE age[r]]
  /\ UNCHANGED <<order, targets, running, broken, history>>

Discover(r) ==   \* a discovery run stores it with its first observation
  /\ ~running /\ r \notin Tracked
  /\ order' = Append(order, r) /\ age' = [age EXCEPT ![r] = 0]
  /\ UNCHANGED <<targets, running, broken, history>>

Break(r) ==
  /\ r \in Fragile \ broken /\ broken' = broken \cup {r}
  /\ UNCHANGED <<order, age, targets, running, history>>

Mend(r) ==
  /\ r \in broken /\ broken' = broken \ {r}
  /\ UNCHANGED <<order, age, targets, running, history>>

Next ==
  \/ Start \/ Stop \/ NextDay
  \/ \E r \in Repo : Poll(r) \/ Fail(r) \/ Discover(r) \/ Break(r) \/ Mend(r)

Spec == Init /\ [][Next]_vars

(* The workflow runs daily, and no repository is for ever the one at which *)
(* runs are stopped, or whose polls are lost although it always answers.   *)
Fairness ==
  /\ WF_vars(Start) /\ SF_vars(NextDay) /\ WF_vars(Stop)
  /\ \A r \in Repo \ Fragile : SF_vars(Poll(r))
  /\ \A r \in Fragile : SF_vars(Poll(r) \/ Fail(r))
---------------------------------------------------------------------------
(* Whatever fails, and however often it is mended and fails again: a       *)
(* tracked repository that answers is observed again and again.            *)
NobodyStarves == \A r \in Repo \ Fragile : []<>(r \in Tracked => age[r] = 0)

(* No repository is observed twice within the minimum age: not in one run, *)
(* not by the run of the next day, however runs are stopped and resumed.   *)
NoHurry == \A r \in Tracked : gap[r] = MinAge

(* Whoever is polled, or fails to be, passes over nobody: every due        *)
(* repository observed before it was tried in this run already, also when  *)
(* there are more of them than a run may poll.                             *)
NoOvertaking ==
  \A r \in tried' \ tried : \A i, j \in DOMAIN order :
    i < j /\ order[j] = r /\ Due(order[i]) => order[i] \in tried
=============================================================================
