-------------------------------- MODULE Graph --------------------------------
(***************************************************************************)
(* The ecosystem graph and what is derived from it (graph/): reach,        *)
(* centrality, components, relationships and bridges between topics.       *)
(*                                                                         *)
(* A graph is a record: nodes, the owner of each repository, the OWNS      *)
(* pairs, the evidence of each contribution link, the TAGGED_WITH pairs    *)
(* and the momentum of each repository.  Evidence is the cumulative count, *)
(* the share, whether the link was observed and the change in the window.  *)
(***************************************************************************)
EXTENDS Series, SequencesExt

Empty == [devs |-> {}, repos |-> {}, topics |-> {}, owner |-> <<>>, owns |-> {},
          links |-> <<>>, tags |-> {}, momentum |-> <<>>, language |-> <<>>]

OwnerOf(g, r) == IF r \in DOMAIN g.owner THEN g.owner[r] ELSE None

AddRepository(g, r, owner, momentum, language) ==
  [g EXCEPT !.repos = @ \cup {r}, !.owner = (r :> owner) @@ @,
            !.momentum = (r :> momentum) @@ @, !.language = (r :> language) @@ @,
            !.owns = {p \in @ : p # <<OwnerOf(g, r), r>> \/ OwnerOf(g, r) = owner}
                     \cup (IF owner = None THEN {} ELSE {<<owner, r>>})]

AddOwnership(g, d, r) == [g EXCEPT !.owns = @ \cup {<<d, r>>}]
AddContribution(g, d, r, evidence) == [g EXCEPT !.links = (<<d, r>> :> evidence) @@ @]
AddDeveloper(g, d) == [g EXCEPT !.devs = @ \cup {d}]
AddTopic(g, r, t) == [g EXCEPT !.topics = @ \cup {t}, !.tags = @ \cup {<<r, t>>}]

---------------------------------------------------------------------------
ContributesTo(g, d) == {p[2] : p \in {q \in DOMAIN g.links : q[1] = d}}
ContributorsOf(g, r) == {p[1] : p \in {q \in DOMAIN g.links : q[2] = r}}
Owns(g, d) == {p[2] : p \in {q \in g.owns : q[1] = d}}
TopicsFor(g, r) == {p[2] : p \in {q \in g.tags : q[1] = r}}
ReposFor(g, t) == {p[1] : p \in {q \in g.tags : q[2] = t}}
AssociatedRepos(g, d) == ContributesTo(g, d) \cup Owns(g, d)

AssociatedDevs(g, r) == ContributorsOf(g, r) \cup ({OwnerOf(g, r)} \ {None})

Key(kind, n) == [kind |-> kind, id |-> n]
Nodes(g) == {Key("DEVELOPER", d) : d \in g.devs} \cup {Key("REPOSITORY", r) : r \in g.repos}
            \cup {Key("TOPIC", t) : t \in g.topics}

(* Edges of developers and of repositories that are nodes.                 *)
Edges(g) ==
  {<<Key("DEVELOPER", p[1]), Key("REPOSITORY", p[2])>> :
     p \in {q \in g.owns \cup DOMAIN g.links : q[1] \in g.devs}}
  \cup {<<Key("REPOSITORY", p[1]), Key("TOPIC", p[2])>> : p \in {q \in g.tags : q[1] \in g.repos}}

(* The sub-graph of the repositories that pass; developers limits the      *)
(* developer nodes and their edges.  The language is not looked at.        *)
Passes(g, r, topics, language, repositories, low) ==
  /\ topics = None \/ TopicsFor(g, r) \cap topics # {}
  /\ repositories = None \/ r \in repositories
  /\ low = None \/ (g.momentum[r] # None /\ g.momentum[r] >= low)

Filtered(g, topics, language, repositories, developers, low) ==
  LET kept == {r \in g.repos : Passes(g, r, topics, language, repositories, low)}
      wanted == IF developers = None THEN g.devs ELSE g.devs \cap developers
      near == {p \in wanted \X kept : p[1] \in AssociatedDevs(g, p[2])}
      tags == {p \in g.tags : p[1] \in kept /\ p[2] \in g.topics}
      linked == near \cap DOMAIN g.links
  IN [devs |-> {p[1] : p \in near}, repos |-> kept, topics |-> {p[2] : p \in tags},
      owner |-> [r \in kept |-> g.owner[r]],
      owns |-> {<<g.owner[r], r>> : r \in {q \in kept : g.owner[q] # None}},
      links |-> [p \in linked |-> g.links[p]], tags |-> tags,
      momentum |-> [r \in kept |-> g.momentum[r]],
      language |-> [r \in kept |-> g.language[r]]]

---------------------------------------------------------------------------
(* metrics.py: reach, neighbours with the weight of each, components.      *)
Reach(g, d) ==
  IF d \notin g.devs THEN [repositories |-> 0, developers |-> 0, topics |-> 0] ELSE
  [repositories |-> Cardinality(AssociatedRepos(g, d)),
   developers |-> Cardinality(UNION {AssociatedDevs(g, r) : r \in AssociatedRepos(g, d)} \ {d}),
   topics |-> Cardinality(UNION {TopicsFor(g, r) : r \in AssociatedRepos(g, d)})]

Siblings(g, r) == UNION {AssociatedRepos(g, d) : d \in AssociatedDevs(g, r)} \ {r}

RepositoryReach(g, r) ==
  [contributing |-> Cardinality(ContributorsOf(g, r)),
   owning |-> IF OwnerOf(g, r) = None THEN 0 ELSE 1,
   topics |-> Cardinality(TopicsFor(g, r)), siblings |-> Cardinality(Siblings(g, r))]

TopicReach(g, t) ==
  LET contributing == UNION {ContributorsOf(g, r) : r \in ReposFor(g, t)}
      owning == {OwnerOf(g, r) : r \in ReposFor(g, t)} \ {None}
  IN [repositories |-> Cardinality(ReposFor(g, t)), contributing |-> Cardinality(contributing),
      owning |-> Cardinality(owning), associated |-> Cardinality(contributing \cup owning)]

DeveloperNeighbours(g, d) ==
  LET mine == AssociatedRepos(g, d)
  IN [e \in UNION {AssociatedDevs(g, r) : r \in mine} \ {d} |->
        Cardinality({r \in mine : e \in AssociatedDevs(g, r)})]

SiblingWeight(g, r, q) ==
  Cardinality(AssociatedDevs(g, r) \cap AssociatedDevs(g, q))
  + (IF OwnerOf(g, r) # None /\ OwnerOf(g, r) = OwnerOf(g, q) THEN 1 ELSE 0)

RepositoryNeighboursByLink(g, r) ==   \* mutant: only what the associates contribute to
  [q \in UNION {ContributesTo(g, d) : d \in AssociatedDevs(g, r)} \ {r} |-> SiblingWeight(g, r, q)]

RepositoryNeighbours(g, r) == [q \in Siblings(g, r) |-> SiblingWeight(g, r, q)]

TopicNeighbours(g, t) ==
  [u \in UNION {TopicsFor(g, r) : r \in ReposFor(g, t)} \ {t} |->
     Cardinality(ReposFor(g, t) \cap ReposFor(g, u))]

Degree(weights) == [degree |-> Cardinality(DOMAIN weights),
                    weight |-> MapThenSumSet(LAMBDA x : weights[x], DOMAIN weights)]

(* Union-find: the groups of the two ends become one.                      *)
Join(e, groups) ==
  LET touched == {G \in groups : e[1] \in G \/ e[2] \in G}
  IN (groups \ touched) \cup {UNION touched \cup {e[1], e[2]}}

Components(g) == FoldSet(Join, {{n} : n \in Nodes(g)}, Edges(g))

---------------------------------------------------------------------------
(* Shared scoring: thousandths, rounded down; natural logarithms of 1 to   *)
(* 11 and of 21 in thousandths.                                            *)
Ln(n) == IF n = 21 THEN 3045
         ELSE <<0, 693, 1099, 1386, 1609, 1792, 1946, 2079, 2197, 2303, 2398>>[n]
LogDampened(n, floor) == Min({1000, (1000 * Ln(n + 1)) \div Ln(floor + 1)})

Jaccard(A, B) == IF A \cup B = {} THEN 0
                 ELSE (1000 * Cardinality(A \cap B)) \div Cardinality(A \cup B)

Available(e) == e.delta # None
Rose(e) == Available(e) /\ (IF e.delta = None THEN FALSE ELSE e.delta > 0)

GraphConfidence(distinct, history, recent, sample) ==
  LET score == 2 * Ratio(distinct, 5) + 4 * history + (5 * recent) \div 2
               + (3 * Ratio(sample, 5)) \div 2
      level == Level(score \div 10)
  IN [score |-> score \div 10,
      level |-> IF level = "HIGH" /\ distinct < 3 THEN "MEDIUM" ELSE level]

(* relationships.py: developers who contributed to the same repository.    *)
SharedBy(g, a, b) ==
  {r \in g.repos : <<a, r>> \in DOMAIN g.links /\ <<b, r>> \in DOMAIN g.links}

CoContributors(g, a) ==
  {b \in {p[1] : p \in DOMAIN g.links} \ {a} : SharedBy(g, a, b) # {}}

PairActivity(x, y) ==
  IF Available(x) /\ Available(y)
  THEN 500 * Cardinality({i \in 1..2 : Rose(<<x, y>>[i])})
  ELSE IF ~Available(x) /\ ~Available(y) THEN None
  ELSE IF Rose(x) \/ Rose(y) THEN 250 ELSE 0

Strength(g, a, b) ==
  LET shared == SharedBy(g, a, b)
      scored == {r \in shared : g.momentum[r] # None}
      Act(r) == PairActivity(g.links[a, r], g.links[b, r])
      active == {r \in shared : Act(r) # None}
  IN (40 * LogDampened(Cardinality(shared), 5)
      + 30 * Mean(shared, LAMBDA r : 4 * Min({250, g.links[a, r].share, g.links[b, r].share}))
      + 20 * ((1000 * Mean(scored, LAMBDA r : g.momentum[r])) \div MaxScore)
      + 10 * Mean(active, Act)) \div 100

CoContributorConfidence(g, a, b) ==
  LET shared == SharedBy(g, a, b)
      history == {r \in shared : g.links[a, r].seen /\ g.links[b, r].seen}
      recent == {r \in shared : Available(g.links[a, r]) /\ Available(g.links[b, r])}
  IN GraphConfidence(Cardinality(shared), Ratio(Cardinality(history), Cardinality(shared)),
                     Ratio(Cardinality(recent), Cardinality(shared)), 0)

(* Repositories with a developer or a topic in common.                     *)
SharedDevs(g, r, q) == AssociatedDevs(g, r) \cap AssociatedDevs(g, q)
SharedTopics(g, r, q) == TopicsFor(g, r) \cap TopicsFor(g, q)
RelatedRepositories(g, r) ==
  {q \in g.repos \ {r} : SharedDevs(g, r, q) # {} \/ SharedTopics(g, r, q) # {}}

RelationshipScore(g, r, q) ==
  (Jaccard(AssociatedDevs(g, r), AssociatedDevs(g, q))
   + Jaccard(TopicsFor(g, r), TopicsFor(g, q))) \div 2

RelationshipConfidence(g, r, q) ==
  LET shared == SharedDevs(g, r, q)
      both == {d \in shared : <<d, r>> \in DOMAIN g.links /\ <<d, q>> \in DOMAIN g.links}
      history == {d \in both : g.links[d, r].seen /\ g.links[d, q].seen}
      recent == {d \in both : Available(g.links[d, r]) /\ Available(g.links[d, q])}
      Part(S) == IF shared = {} THEN 0 ELSE Ratio(Cardinality(S), Cardinality(shared))
  IN GraphConfidence(Cardinality(shared) + Cardinality(SharedTopics(g, r, q)),
                     Part(history), Part(recent), 0)

DevelopersFor(g, t) == UNION {AssociatedDevs(g, r) : r \in ReposFor(g, t)}

RelatedTopics(g, t) ==
  {u \in g.topics \ {t} : ReposFor(g, t) \cap ReposFor(g, u) # {}
                          \/ DevelopersFor(g, t) \cap DevelopersFor(g, u) # {}}

---------------------------------------------------------------------------
(* bridges.py: the evidence of a developer in a topic.                     *)
Supporting(g, d, t) ==
  {r \in ReposFor(g, t) : <<d, r>> \in DOMAIN g.links \/ OwnerOf(g, r) = d}

TopicEvidence(g, d, t) ==
  LET repos == Supporting(g, d, t)
      linked == {r \in repos : <<d, r>> \in DOMAIN g.links}
      measured == {r \in linked : Available(g.links[d, r])}
  IN [repos |-> repos,
      strength |-> (60 * Ratio(Cardinality(repos), 2)
                    + 40 * 4 * Mean(linked, LAMBDA r : Min({250, g.links[d, r].share}))) \div 100,
      contributions |-> MapThenSumSet(LAMBDA r : g.links[d, r].n, linked),
      recent |-> IF measured = {} THEN None
                 ELSE MapThenSumSet(LAMBDA r : Max({0, g.links[d, r].delta}), measured),
      history |-> IF linked = {} THEN 0
                  ELSE Ratio(Cardinality({r \in linked : g.links[d, r].seen}), Cardinality(linked))]

Memberships(g, d) ==
  {t \in UNION {TopicsFor(g, r) : r \in AssociatedRepos(g, d)} :
     t \in g.topics /\ Supporting(g, d, t) # {}}

SupportingRepos(g, d) == {r \in AssociatedRepos(g, d) : TopicsFor(g, r) # {}}

(* How evenly the repositories are spread over the topics.                 *)
Evenness(g, d, topics) ==
  LET Count(t) == Cardinality(Supporting(g, d, t))
      all == MapThenSumSet(Count, topics)
  IN IF Cardinality(topics) < 2 THEN 0
     ELSE Min({1000, (1000 * (all * Ln(all) - MapThenSumSet(LAMBDA t : Count(t) * Ln(Count(t)), topics)))
                     \div (all * Ln(Cardinality(topics)))})

RecentTerm(deltas) == Dampen(MapThenSumSet(LAMBDA x : x[2], deltas))
Measured(g, d, topics) ==
  {<<t, TopicEvidence(g, d, t).recent>> :
     t \in {u \in topics : TopicEvidence(g, d, u).recent # None}}

Lifetime(g, d) == MapThenSumSet(LAMBDA t : TopicEvidence(g, d, t).contributions, Memberships(g, d))
SmallSample(g, d) == Cardinality(SupportingRepos(g, d)) < 2 \/ Lifetime(g, d) < 10

BridgeScore(g, d) ==
  LET topics == Memberships(g, d)
      repos == SupportingRepos(g, d)
      known == {r \in repos \cap g.repos : g.momentum[r] # None}
      raw == (30 * Ratio(Cardinality(topics), 4)
              + 25 * Mean(topics, LAMBDA t : TopicEvidence(g, d, t).strength)
              + 20 * Ratio(Cardinality(repos) - 1, 2)
              + 10 * Evenness(g, d, topics)
              + 10 * RecentTerm(Measured(g, d, topics))
              + 5 * ((1000 * Mean(known, LAMBDA r : g.momentum[r])) \div MaxScore)) \div 100
  IN IF Cardinality(topics) < 2 THEN 0 ELSE IF SmallSample(g, d) THEN Min({350, raw}) ELSE raw

BridgeConfidence(g, d) ==
  LET repos == SupportingRepos(g, d)
      linked == {r \in repos : <<d, r>> \in DOMAIN g.links}
      Part(S) == IF repos = {} THEN 0 ELSE Ratio(Cardinality(S), Cardinality(repos))
  IN GraphConfidence(Cardinality(repos), Part({r \in linked : g.links[d, r].seen}),
       Part({r \in linked : Available(g.links[d, r])}), Cardinality(Memberships(g, d)))

(* With a topic, the developers of its repositories, else all nodes; the   *)
(* highest score first.                                                    *)
BridgesOf(g, topic) ==
  LET who == IF topic = None THEN g.devs
             ELSE IF topic \notin g.topics THEN {} ELSE DevelopersFor(g, topic)
  IN SetToSortSeq(who, LAMBDA a, b : BridgeScore(g, a) > BridgeScore(g, b)
                                   \/ (BridgeScore(g, a) = BridgeScore(g, b) /\ a < b))

(* A pair of topics.                                                       *)
PairDevelopers(g, s, t) ==
  IF s = t \/ {s, t} \ g.topics # {} THEN {} ELSE DevelopersFor(g, s) \cap DevelopersFor(g, t)

PairScore(g, d, s, t) ==
  LET a == TopicEvidence(g, d, s)  b == TopicEvidence(g, d, t)
      raw == (45 * ((a.strength + b.strength) \div 2)
              + 30 * Ratio(Min({Cardinality(a.repos), Cardinality(b.repos)}), 2)
              + 25 * RecentTerm(Measured(g, d, {s, t}))) \div 100
  IN IF a.contributions + b.contributions < 10 THEN Min({350, raw}) ELSE raw

PairReport(g, s, t) ==
  LET who == PairDevelopers(g, s, t)
  IN [count |-> Cardinality(who), average |-> Mean(who, LAMBDA d : PairScore(g, d, s, t)),
      shared |-> UNION {TopicEvidence(g, d, s).repos \cap TopicEvidence(g, d, t).repos : d \in who}]

(* A repository between topics and developers.                             *)
RepositoryBridge(g, r) ==
  LET who == AssociatedDevs(g, r)
      elsewhere == {d \in who : Cardinality(AssociatedRepos(g, d)) > 1}
      spanning == {d \in who : Cardinality(UNION {TopicsFor(g, q) : q \in AssociatedRepos(g, d)}) >= 2}
      Part(S) == IF who = {} THEN 0 ELSE Ratio(Cardinality(S), Cardinality(who))
      momentum == IF g.momentum[r] = None THEN 0 ELSE (1000 * g.momentum[r]) \div MaxScore
      raw == (30 * LogDampened(Cardinality(who), 20) + 20 * LogDampened(Cardinality(TopicsFor(g, r)), 10)
              + 25 * Part(elsewhere) + 15 * Part(spanning) + 10 * momentum) \div 100
      linked == {d \in who : <<d, r>> \in DOMAIN g.links}
  IN [score |-> IF Cardinality(who) < 2 THEN Min({350, raw}) ELSE raw,
      elsewhere |-> elsewhere, spanning |-> spanning,
      confidence |-> GraphConfidence(Max({1, Cardinality(Siblings(g, r))}),
        Part({d \in linked : g.links[d, r].seen}),
        Part({d \in linked : Available(g.links[d, r])}), Cardinality(TopicsFor(g, r)))]
---------------------------------------------------------------------------
(* reports.py: what a page or a command shows of a node, and of the whole. *)
DeveloperReport(g, d) ==
  IF d \notin g.devs THEN [reach |-> Reach(g, d), degree |-> None]
  ELSE [reach |-> Reach(g, d), degree |-> Degree(DeveloperNeighbours(g, d)),
        with |-> CoContributors(g, d), bridge |-> BridgeScore(g, d)]

RepositoryReport(g, r) ==
  IF r \notin g.repos THEN [reach |-> None, degree |-> None]
  ELSE [reach |-> RepositoryReach(g, r), degree |-> Degree(RepositoryNeighbours(g, r)),
        related |-> RelatedRepositories(g, r), bridge |-> RepositoryBridge(g, r)]

TopicReport(g, t) ==
  IF t \notin g.topics THEN [reach |-> TopicReach(g, t), degree |-> None]
  ELSE [reach |-> TopicReach(g, t), degree |-> Degree(TopicNeighbours(g, t)),
        related |-> RelatedTopics(g, t)]

(* Hubs: the weight of their neighbours, then how many they are.           *)
Hubs(S, Neighbours(_)) ==
  LET D(x) == Degree(Neighbours(x))
  IN SetToSortSeq(S, LAMBDA a, b :
       \/ D(a).weight > D(b).weight
       \/ D(a).weight = D(b).weight /\ D(a).degree > D(b).degree
       \/ D(a) = D(b) /\ a < b)

EcosystemReport(g) ==
  [developers |-> Cardinality(g.devs), repositories |-> Cardinality(g.repos),
   topics |-> Cardinality(g.topics),
   owns |-> Cardinality({p \in g.owns : p[1] \in g.devs}),
   contributes |-> Cardinality({p \in DOMAIN g.links : p[1] \in g.devs}),
   tagged |-> Cardinality(g.tags),
   components |-> Cardinality(Components(g)),
   largest |-> Max({0} \cup {Cardinality(G) : G \in Components(g)}),
   hubs |-> Hubs(g.devs, LAMBDA d : DeveloperNeighbours(g, d)),
   bridges |-> BridgesOf(g, None)]
=============================================================================
