------------------------------ MODULE Evidence ------------------------------
(***************************************************************************)
(* What of the measured facts reaches a model (ai/evidence.py,             *)
(* ai/models.py, ai/prompts.py, ai/confidence.py): the items of evidence   *)
(* about a repository, topic, developer, the ecosystem or a pair of        *)
(* topics, their ids and fingerprint, the prompt cut to its size, and the  *)
(* confidence that labels the answer.  Scores are thousandths.             *)
(***************************************************************************)
EXTENDS Naturals, Sequences, SequencesExt, FiniteSets

CONSTANTS
  Name,             \* developers and repositories, as rows are listed
  Domain,           \* entity type -> field of its report -> values
  MaxContributors, MaxTopicRepos, MaxHubs, MaxBridges, MaxRelated,
  BridgeLimit,      \* bridges a pair of topics is reported with, before the cut
  Size,             \* kind of item -> length of its payload
  Caps,             \* values of AI_MAX_EVIDENCE_CHARS
  MaxMeasures,      \* bound on collections
  None

VARIABLES
  kind,     \* entity type
  facts,    \* the report the evidence is built from
  order,    \* order of rows where a query leaves it open or goes by last_seen_at
  forward,  \* whether a builder lists its items as the source does
  bundle,   \* the items as numbered: the fingerprint is taken of their ids, kinds, payloads and meta
  cap,
  measures  \* collections so far

vars == <<kind, facts, order, forward, bundle, cap, measures>>
---------------------------------------------------------------------------
(* Rendering: two decimals of a score, the day of an instant, the first of *)
(* a list.                                                                 *)
Exact(x) == x   \* mutant: scores are rendered in full
Fmt2(x) == IF x = None THEN None ELSE (x + 5) \div 10
Day(t) == IF t = None THEN None ELSE t \div 2
First(s, n) == SubSeq(s, 1, IF Len(s) < n THEN Len(s) ELSE n)
ByScore(s) == SortSeq(s, >)

Item(k, payload) == [kind |-> k, payload |-> payload, meta |-> None]

DeltaLine(d) ==
  IF d = None THEN None
  ELSE IF d.delta = None THEN None
  ELSE <<d.delta, d.complete, IF d.gap = None THEN None ELSE d.base, d.growth>>

(* contributors_for_repository orders by contributions alone.              *)
Before(rows, a, b) == \E i, j \in DOMAIN rows : i < j /\ rows[i] = a /\ rows[j] = b
Contributors(f, rows) ==
  SortSeq(rows, LAMBDA a, b : f.links[a] > f.links[b] \/ (f.links[a] = f.links[b] /\ Before(rows, a, b)))

RepositoryEvidence(f, rows) ==
  LET h == f.history
      shown == First(Contributors(f, rows), MaxContributors)
  IN { Item("identity", <<f.identity, f.flags, Day(f.pushed)>>),
       [Item("state", <<h.counters, h.polled>>) EXCEPT !.meta = h.count],
       Item("window-deltas", DeltaLine(h.delta)),
       Item("momentum", Fmt2(h.momentum)), Item("trend", h.trend),
       Item("confidence", <<h.level, h.count>>), Item("topics", f.topics),
       Item("contributors", [i \in DOMAIN shown |-> <<shown[i], f.links[shown[i]]>>]),
       Item("history", <<h.count, Day(h.first), Day(h.polled)>>) }
     \cup {Item(k, f.texts[k]) : k \in {t \in DOMAIN f.texts : f.texts[t] # ""}}

TopicEvidence(f, rows) ==   \* as list_repositories lists them
  { Item("aggregate", <<f.aggregate, Fmt2(f.total), f.level>>),
    Item("repositories", [i \in DOMAIN First(rows, MaxTopicRepos) |->
                            <<rows[i], f.repos[rows[i]].stars, Fmt2(f.repos[rows[i]].momentum)>>]) }
  \cup (IF f.graph = None THEN {}
        ELSE {Item("graph-footprint", <<f.graph.reach, f.graph.centrality, First(f.graph.related, 3)>>)})

DeveloperLevels(f) ==
  {f.emerging.level} \cup
  (IF f.activity = None THEN {} ELSE IF f.activity.available THEN {f.activity.level} ELSE {})

DeveloperEvidence(f) ==
  { Item("identity", <<f.identity, Day(f.firstSeen), First(f.repositories, 8)>>),
    Item("activity", IF f.activity = None THEN None
                     ELSE IF ~f.activity.available THEN None
                     ELSE <<Fmt2(f.activity.score), f.activity.level>>),
    Item("ecosystem", Fmt2(f.ecosystem)),
    Item("emerging", <<f.emerging.label, f.emerging.level>>) }
  \cup (IF f.relevances = <<>> THEN {} ELSE {Item("topic-relevance", First(ByScore(f.relevances), MaxRelated))})
  \cup (IF f.graph = None THEN {}
        ELSE {Item("graph-footprint", <<f.graph.reach, f.graph.centrality, First(f.graph.related, 3)>>)})

TopBridges(bridges) == First(bridges, IF kind = "ecosystem" THEN MaxBridges ELSE BridgeLimit)

EcosystemEvidence(f) ==
  {Item("scale", <<f.developers, f.tagged, f.largest>>)}
  \cup {Item(k, First(f.hubs[k], MaxHubs)) :
          k \in {j \in {"developer-hubs", "repository-hubs", "topic-hubs"} : f.hubs[j] # <<>>}}
  \cup (IF f.bridges = <<>> THEN {} ELSE {Item("bridges", First(TopBridges(f.bridges), MaxBridges))})

BridgeEvidence(f) ==
  {Item("bridge-aggregate", <<f.aggregate, f.shared>>)}
  \cup (IF f.bridges = <<>> THEN {} ELSE {Item("bridges", First(TopBridges(f.bridges), MaxBridges))})

Items(f, rows) ==
  CASE kind = "repository" -> RepositoryEvidence(f, rows)
    [] kind = "topic" -> TopicEvidence(f, rows)
    [] kind = "developer" -> DeveloperEvidence(f)
    [] kind = "ecosystem" -> EcosystemEvidence(f)
    [] kind = "bridge" -> BridgeEvidence(f)
---------------------------------------------------------------------------
(* build_bundle sorts by kind, source, payload and meta, and then numbers; *)
(* the items of a bundle differ in their kinds.                            *)
CanonicalOrder ==
  <<"activity", "aggregate", "bridge-aggregate", "bridges", "commits", "confidence", "contributors",
    "developer-hubs", "ecosystem", "emerging", "graph-footprint", "history", "identity", "momentum", "readme",
    "releases", "repositories", "repository-hubs", "scale", "state", "topic-hubs", "topic-relevance", "topics",
    "trend", "window-deltas">>
Rank == [k \in ToSet(CanonicalOrder) |-> CHOOSE i \in DOMAIN CanonicalOrder : CanonicalOrder[i] = k]

Emitted(items, inOrder) ==   \* the list a builder hands over
  LET kinds == SelectSeq(IF inOrder THEN CanonicalOrder ELSE Reverse(CanonicalOrder),
                         LAMBDA k : \E item \in items : item.kind = k)
  IN [j \in DOMAIN kinds |-> CHOOSE item \in items : item.kind = kinds[j]]

BuildBundle(items) == SortSeq(items, LAMBDA a, b : Rank[a.kind] < Rank[b.kind])

Bundle(f, rows, inOrder) == BuildBundle(Emitted(Items(f, rows), inOrder))
---------------------------------------------------------------------------
(* build_user_prompt: by id as a string, E1 E10 E11 E2, cut to cap.        *)
IdKey(i) == IF i < 10 THEN 20 * i ELSE 20 * (i \div 10) + (i % 10) + 1
PromptLengths ==
  LET ids == SortSeq([i \in DOMAIN bundle |-> i], LAMBDA i, j : IdKey(i) < IdKey(j))
  IN [j \in DOMAIN ids |-> Size[bundle[ids[j]].kind]]

Cut(length, left) == IF length > left THEN left ELSE length

Left(lengths) ==   \* what the items leave of the cap
  LET l[j \in 0..Len(lengths)] == IF j = 0 THEN cap ELSE l[j - 1] - Cut(lengths[j], l[j - 1]) IN l
---------------------------------------------------------------------------
LevelOrder == [LOW |-> 0, MEDIUM |-> 1, HIGH |-> 2]

StrongestLevel(levels) ==
  CHOOSE l \in levels \cup {"LOW"} : \A m \in levels : LevelOrder[l] >= LevelOrder[m]

Levels ==   \* what the level of each type is taken from
  CASE kind = "repository" -> {facts.history.level}
    [] kind = "topic" -> {facts.level}
    [] kind = "developer" -> DeveloperLevels(facts)
    [] kind = "ecosystem" ->
         (IF facts.developers > 0 \/ facts.tagged > 0 THEN {"MEDIUM"} ELSE {}) \cup
         {facts.bridges[i].level : i \in DOMAIN TopBridges(facts.bridges)}
    [] kind = "bridge" -> {facts.bridges[i].level : i \in DOMAIN TopBridges(facts.bridges)}

Confidence == StrongestLevel(Levels)
---------------------------------------------------------------------------
Orders == {s \in [1..Cardinality(Name) -> Name] : IsInjective(s)}

TypeOK ==
  /\ kind \in DOMAIN Domain /\ DOMAIN facts = DOMAIN Domain[kind]
  /\ order \in Orders /\ cap \in Caps /\ measures \in 0..MaxMeasures
  /\ bundle # <<>> /\ Len(bundle) = Cardinality(Items(facts, order))
  /\ Confidence \in DOMAIN LevelOrder

Init ==
  /\ kind \in DOMAIN Domain
  /\ facts = [f \in DOMAIN Domain[kind] |-> CHOOSE v \in Domain[kind][f] : TRUE]
  /\ order \in Orders /\ forward = TRUE /\ cap \in Caps /\ measures = 0
  /\ bundle = Bundle(facts, order, forward)

Measure(f, value) ==   \* a collection, and the analytics of what it stored
  /\ measures < MaxMeasures /\ measures' = measures + 1
  /\ facts[f] # value /\ facts' = [facts EXCEPT ![f] = value]
  /\ bundle' = Bundle(facts', order, forward)
  /\ UNCHANGED <<kind, order, forward, cap>>

Touch(n) ==   \* a search meets a known repository: it is last seen now
  /\ order[1] # n /\ order' = <<n>> \o SelectSeq(order, LAMBDA m : m # n)
  /\ bundle' = Bundle(facts, order', forward)
  /\ UNCHANGED <<kind, facts, forward, cap, measures>>

Rebuild ==
  /\ forward' = ~forward
  /\ bundle' = Bundle(facts, order, forward')
  /\ UNCHANGED <<kind, facts, order, cap, measures>>

Next ==
  \/ \E f \in DOMAIN Domain[kind] : \E value \in Domain[kind][f] : Measure(f, value)
  \/ \E n \in Name : Touch(n)
  \/ Rebuild

Spec == Init /\ [][Next]_vars
---------------------------------------------------------------------------
(* The facts an artifact may be about, to the precision it is told: what   *)
(* lies beyond a cut or a rounding is no news.                             *)
Rounded(score) == IF score = None THEN None ELSE (score + 5) \div 10
Told(f, value) ==
  CASE f = "history" -> [value EXCEPT !.momentum = Rounded(@), !.first = Day(@), !.delta = DeltaLine(@)]
    [] f \in {"pushed", "firstSeen"} -> Day(value)
    [] f \in {"total", "ecosystem"} -> Rounded(value)
    [] f = "activity" -> IF value = None THEN None ELSE IF value.available THEN [value EXCEPT !.score = Rounded(@)] ELSE None
    [] f = "hubs" -> [k \in DOMAIN value |-> First(value[k], MaxHubs)]
    [] f = "bridges" -> First(value, MaxBridges)
    [] f = "relevances" -> First(ByScore(value), MaxRelated)
    [] f = "repositories" -> First(value, 8)
    [] f = "graph" -> IF value = None THEN None ELSE [value EXCEPT !.related = First(@, 3)]
    [] OTHER -> value

(* An artifact is replayed exactly as long as what it tells is unchanged:  *)
(* no news goes unnoticed, and nothing else calls the model again.  (What  *)
(* is told of a topic's repositories and of a repository's contributors    *)
(* depends on the order of their rows, and is left out.)                   *)
FactsDecide ==
  \A f \in DOMAIN facts \ {"links", "repos"} :
    order' = order /\ facts' = [facts EXCEPT ![f] = facts'[f]] =>
      (bundle' = bundle) = (Told(f, facts'[f]) = Told(f, facts[f]))

(* The order in which a builder lists its items changes neither ids nor    *)
(* fingerprint.                                                            *)
OrderIsIrrelevant == facts' = facts /\ order' = order => bundle' = bundle

(* The evidence in a prompt fits its cap, and what was cut or left out is  *)
(* announced.                                                              *)
PromptIsBounded ==
  LET lengths == PromptLengths
      left == Left(lengths)
  IN \A j \in DOMAIN lengths :
       left[j] \in 0..cap /\ (left[j - 1] - left[j] < lengths[j] => \E i \in 1..j : left[i] = 0)

(* An artifact replayed for the same evidence has the label the evidence   *)
(* has now (a pair's label may come from a bridge that is not shown).      *)
LabelFollowsEvidence == bundle' = bundle /\ kind # "bridge" => Confidence' = Confidence

StateDecides == TypeOK /\ PromptIsBounded
StepDecides == FactsDecide /\ OrderIsIrrelevant /\ LabelFollowsEvidence
EvidenceDecides == []StateDecides /\ [][StepDecides]_vars
=============================================================================
