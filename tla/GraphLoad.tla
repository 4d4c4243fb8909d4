------------------------------ MODULE GraphLoad ------------------------------
(***************************************************************************)
(* Loading the ecosystem graph (graph/loader.py) statement by statement    *)
(* while a collection commits, and what the reports on it promise.  Pages  *)
(* and commands read in READ COMMITTED: every statement sees the newest.   *)
(***************************************************************************)
EXTENDS Graph

CONSTANTS
  Developer, Repo,
  Tags,          \* the sets of topics a repository may come with
  MomentumOf,    \* repository -> momentum, or None
  LanguageOf,    \* repository -> primary language
  Evidence,      \* what a contribution link may carry
  MaxChanges,    \* bound: commits of collections
  MaxDuring      \* bound: those of them that come during the load

VARIABLES
  db,        \* repos, tags, owner, links and developer rows as committed
  changes,   \* commits so far
  pc,        \* the statement the load is at
  log,       \* the database when the load began and after every commit since
  read,      \* the links as read
  history,   \* whether and how each of them was observed, as read
  graph      \* the graph under construction

vars == <<db, changes, pc, log, read, history, graph>>

NoRows == [repos |-> {}, tags |-> {}, owner |-> [r \in Repo |-> None], links |-> <<>>, people |-> {}]

TypeOK ==
  /\ changes \in 0..MaxChanges
  /\ pc \in {"idle", "topics", "links", "history", "people", "done"}
  /\ db.repos \subseteq Repo /\ db.people \subseteq Developer
  /\ DOMAIN db.links \subseteq db.people \X db.repos
  /\ graph.repos \subseteq db.repos /\ graph.devs \subseteq db.people
  /\ DOMAIN read \subseteq DOMAIN db.links

Init ==
  /\ db = NoRows /\ log = <<>>
  /\ changes = 0
  /\ pc = "idle"
  /\ read = <<>> /\ history = <<>>
  /\ graph = Empty

(* What is committed after the load cannot change the graph.               *)
Commit ==
  /\ pc # "done"
  /\ changes < MaxChanges /\ changes' = changes + 1
  /\ Len(log) <= MaxDuring
  /\ log' = IF pc = "idle" THEN log ELSE Append(log, db')
  /\ UNCHANGED <<pc, read, history, graph>>

Track(r) ==
  /\ r \notin db.repos
  /\ \E topics \in Tags : db' = [db EXCEPT !.repos = @ \cup {r}, !.tags = @ \cup ({r} \X topics)]
  /\ Commit

Retag(r) ==   \* a refresh, or discover() that meets it again
  /\ r \in db.repos
  /\ \E topics \in Tags :
       /\ {r} \X topics # {p \in db.tags : p[1] = r}
       /\ db' = [db EXCEPT !.tags = {p \in @ : p[1] # r} \cup ({r} \X topics)]
  /\ Commit

Profile(d) ==
  /\ d \notin db.people
  /\ db' = [db EXCEPT !.people = @ \cup {d}]
  /\ Commit

LinkOwner(d, r) ==   \* only of somebody whose row exists
  /\ r \in db.repos /\ d \in db.people /\ db.owner[r] # d
  /\ db' = [db EXCEPT !.owner[r] = d]
  /\ Commit

Contribute(d, r) ==
  /\ r \in db.repos /\ <<d, r>> \notin DOMAIN db.links
  /\ \E e \in Evidence : db' = [db EXCEPT !.links = (<<d, r>> :> e) @@ @, !.people = @ \cup {d}]
  /\ Commit

Recount(d, r) ==   \* every count that is fetched again is observed
  /\ <<d, r>> \in DOMAIN db.links
  /\ \E e \in Evidence \ {db.links[d, r]} : e.seen /\ db' = [db EXCEPT !.links[<<d, r>>] = e]
  /\ Commit

---------------------------------------------------------------------------
(* The statements of storage/repositories.py the load reads with.          *)
RepoRows == db.repos
TopicRows(ids) == {p \in db.tags : p[1] \in ids}
LinkRows == [p \in DOMAIN db.links |-> db.links[p].n]
HistoryRow(p) == db.links[p]
DeveloperRows(ids) == ids \cap db.people

ReadRepos ==
  /\ pc = "idle" /\ pc' = "topics"
  /\ log' = <<db>>
  /\ graph' = FoldSet(LAMBDA r, g :
       LET h == AddRepository(g, r, db.owner[r], MomentumOf[r], LanguageOf[r])
       IN IF db.owner[r] = None THEN h ELSE AddOwnership(h, db.owner[r], r), Empty, RepoRows)
  /\ UNCHANGED <<db, changes, read, history>>

ReadTopics ==
  /\ pc = "topics" /\ pc' = "links"
  /\ graph' = FoldSet(LAMBDA p, g : AddTopic(g, p[1], p[2]), graph, TopicRows(graph.repos))
  /\ UNCHANGED <<db, changes, log, read, history>>

ReadLinksOfNodes ==   \* mutant: only of developers who own something
  /\ pc = "links"
  /\ read' = [p \in {q \in DOMAIN db.links : \E r \in db.repos : db.owner[r] = q[1]} |-> db.links[p].n]
  /\ pc' = IF DOMAIN read' = {} THEN "done" ELSE "history"
  /\ UNCHANGED <<db, changes, log, history, graph>>

ReadLinks ==   \* without links no developer is read
  /\ pc = "links"
  /\ read' = LinkRows
  /\ pc' = IF LinkRows = <<>> THEN "done" ELSE "history"
  /\ UNCHANGED <<db, changes, log, history, graph>>

ReadHistory ==
  /\ pc = "history" /\ pc' = "people"
  /\ history' = [p \in DOMAIN read |-> HistoryRow(p)]
  /\ UNCHANGED <<db, changes, log, read, graph>>

TotalOf(r) == MapThenSumSet(LAMBDA p : read[p], {p \in DOMAIN read : p[2] = r})
ShareOf(p) == IF TotalOf(p[2]) > 0 THEN (1000 * read[p]) \div TotalOf(p[2]) ELSE 0

ReadPeople ==
  /\ pc = "people" /\ pc' = "done"
  /\ LET linked == FoldSet(LAMBDA p, g : AddContribution(g, p[1], p[2],
             [n |-> read[p], share |-> ShareOf(p), seen |-> history[p].seen, delta |-> history[p].delta]),
             graph, DOMAIN read)
         wanted == {p[1] : p \in DOMAIN read} \cup {OwnerOf(graph, r) : r \in graph.repos}
     IN graph' = FoldSet(LAMBDA d, g : AddDeveloper(g, d), linked, DeveloperRows(wanted))
  /\ UNCHANGED <<db, changes, log, read, history>>

Next ==
  \/ \E r \in Repo : Track(r) \/ Retag(r)
  \/ \E d \in Developer : Profile(d)
  \/ \E d \in Developer, r \in Repo : LinkOwner(d, r) \/ Contribute(d, r) \/ Recount(d, r)
  \/ ReadRepos \/ ReadTopics \/ ReadLinks \/ ReadHistory \/ ReadPeople

Spec == Init /\ [][Next]_vars
---------------------------------------------------------------------------
Loaded == pc = "done"

(* Whatever is committed meanwhile, a loaded graph has the repositories    *)
(* and owners of the moment the load began; all topics are of one moment,  *)
(* all links and counts of one that is no earlier, and what is known of    *)
(* each link's past of one no earlier than that.  None is torn between two *)
(* commits, and nothing is lost or invented.                               *)
TagsOf(d, repos) == {p \in d.tags : p[1] \in repos}
CountsOf(links) == [p \in DOMAIN links |-> links[p].n]
PastOf(links, pairs) == [p \in pairs |-> <<links[p].seen, links[p].delta>>]

EveryPartIsOfOneMoment ==
  Loaded =>
    /\ graph.repos = log[1].repos
    /\ \A r \in graph.repos : OwnerOf(graph, r) = log[1].owner[r]
    /\ \E i, j, k \in DOMAIN log :
         /\ i <= j /\ j <= k
         /\ graph.tags = TagsOf(log[i], graph.repos)
         /\ CountsOf(graph.links) = CountsOf(log[j].links)
         /\ PastOf(graph.links, DOMAIN graph.links) = PastOf(log[k].links, DOMAIN graph.links)

(* So the shares of a repository's contributors add up, up to rounding,    *)
(* though the counts they are of are replaced while the load goes on.      *)
SharesAddUp ==
  Loaded => \A r \in Repo :
    LET by == {p \in DOMAIN graph.links : p[2] = r}
        all == MapThenSumSet(LAMBDA p : graph.links[p].share, by)
    IN all <= 1000 /\ (by # {} => all > 1000 - Cardinality(by))

(* Two nodes are in one component exactly when a path of edges joins them, *)
(* also when a link names a repository that was tracked during the load.   *)
ReachableFrom(n, edges, nodes) ==
  FoldSet(LAMBDA i, S : S \cup UNION {{e[1], e[2]} : e \in {f \in edges : {f[1], f[2]} \cap S # {}}},
          {n}, 1..Cardinality(nodes))

ComponentsAreReachable(g) ==
  LET edges == Edges(g)
      nodes == Nodes(g) \cup {e[1] : e \in edges} \cup {e[2] : e \in edges}
  IN Components(g) = {ReachableFrom(n, edges, nodes) : n \in nodes}

(* Being neighbours is mutual, with the same weight, and the degree of a   *)
(* node is what its reach says.                                            *)
Mutual(Neighbours(_), S) ==
  \A a, b \in S : /\ a \in DOMAIN Neighbours(b) <=> b \in DOMAIN Neighbours(a)
                  /\ a \in DOMAIN Neighbours(b) => Neighbours(a)[b] = Neighbours(b)[a]

NeighboursAreMutual(g) ==
  /\ Mutual(LAMBDA d : DeveloperNeighbours(g, d), g.devs)
  /\ Mutual(LAMBDA r : RepositoryNeighbours(g, r), g.repos)
  /\ Mutual(LAMBDA t : TopicNeighbours(g, t), g.topics)
  /\ \A d \in g.devs :
       DeveloperReport(g, d).degree.degree = DeveloperReport(g, d).reach.developers
  /\ \A r \in g.repos :
       RepositoryReport(g, r).degree.degree = RepositoryReport(g, r).reach.siblings
  /\ \A t \in g.topics :
       TopicReport(g, t).reach.associated = Cardinality(DevelopersFor(g, t))

(* The pieces of the whole add up: every relation seen by one person and   *)
(* another is counted from both, and a graph without a commit during its   *)
(* load has at most as many pieces as nodes not held together by an edge.  *)
EcosystemAddsUp(g, quiet) ==
  LET e == EcosystemReport(g)
      nodes == e.developers + e.repositories + e.topics
  IN /\ Len(e.hubs) = e.developers /\ Len(e.bridges) = e.developers
     /\ MapThenSumSet(LAMBDA d : DeveloperReport(g, d).degree.weight, g.devs) % 2 = 0
     /\ quiet => /\ e.components >= nodes - (e.owns + e.contributes + e.tagged)
                 /\ e.components + e.largest <= nodes + 1 \/ nodes = 0

(* A relationship reads the same from both ends.                           *)
RelationshipsMirror(g) ==
  /\ \A a \in g.devs : \A b \in CoContributors(g, a) :
       a \in CoContributors(g, b) /\ Strength(g, a, b) = Strength(g, b, a)
       /\ CoContributorConfidence(g, a, b) = CoContributorConfidence(g, b, a)
  /\ \A r \in g.repos : \A q \in RelatedRepositories(g, r) :
       r \in RelatedRepositories(g, q)
       /\ RelationshipScore(g, q, r) = RelationshipScore(g, r, q)
       /\ RelationshipConfidence(g, r, q) = RelationshipConfidence(g, q, r)
  /\ \A t \in g.topics : \A u \in RelatedTopics(g, t) : t \in RelatedTopics(g, u)

(* The page of a pair of topics names the developers whose own bridge has  *)
(* both topics, though one starts from topics and the other from people.   *)
PairsComeFromMemberships(g) ==
  /\ \A s, t \in g.topics : s # t =>
       PairDevelopers(g, s, t)
         = {d \in Developer : {s, t} \subseteq Memberships(g, d)}
  /\ \A t \in g.topics : PairReport(g, t, t).count = 0

(* Fewer than three repositories never support a bridge with HIGH          *)
(* confidence, and a bridge that scores spans two topics.                  *)
BridgesNeedSupport(g) ==
  \A d \in g.devs :
    /\ BridgeConfidence(g, d).level = "HIGH" => Cardinality(SupportingRepos(g, d)) >= 3
    /\ BridgeScore(g, d) > 0 => Cardinality(Memberships(g, d)) >= 2

(* The report of a topic ranks part of the ranking of all.                 *)
TopicListIsPart(g) ==
  DOMAIN g.links # {} =>
    \A t \in g.topics :
      BridgesOf(g, t) = SelectSeq(BridgesOf(g, None), LAMBDA d : d \in DevelopersFor(g, t))

(* A filtered graph says of the repositories it keeps what the whole one   *)
(* says: all their topics, developers and evidence.                        *)
FilterKeepsEvidence(g) ==
  \A t \in g.topics :
    LET f == Filtered(g, {t}, None, None, None, None)
    IN \A r \in f.repos :
         /\ TopicsFor(f, r) = TopicsFor(g, r)
         /\ AssociatedDevs(f, r) = AssociatedDevs(g, r)
         /\ \A d \in ContributorsOf(f, r) : f.links[d, r] = g.links[d, r]

(* A graph has what was stored while it was loaded.                        *)
GraphIsFaithful == TypeOK /\ EveryPartIsOfOneMoment /\ SharesAddUp

(* The graph a load ends with: its reports agree with the edges, with each *)
(* other and with those of its filtered parts.                             *)
ReportsAgree ==
  [][pc # "done" /\ pc' = "done" => \A g \in {graph'} :
       /\ ComponentsAreReachable(g) /\ NeighboursAreMutual(g) /\ RelationshipsMirror(g)
       /\ PairsComeFromMemberships(g) /\ BridgesNeedSupport(g) /\ EcosystemAddsUp(g, Len(log) = 1)
       /\ FilterKeepsEvidence(g) /\ TopicListIsPart(g)]_vars
---------------------------------------------------------------------------
(* bridges.py: "total contributions below BRIDGE_MIN_LIFETIME trigger the  *)
(* same cap".  They do not: a repository counts once for every topic.      *)
FewContributionsAreCapped ==
  Loaded => \A d \in graph.devs :
    MapThenSumSet(LAMBDA p : graph.links[p].n, {p \in DOMAIN graph.links : p[1] = d}) < 10
      => BridgeScore(graph, d) <= 350
=============================================================================
