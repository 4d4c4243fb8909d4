---------------------------- MODULE MCAIArtifacts ----------------------------
(***************************************************************************)
(* Synthesis in small instances.  Its parts share no state, so a behaviour *)
(* moves one of them: requests about repositories while releases change,   *)
(* a request and a command about topics while requests are repeated, or    *)
(* the evidence.                                                           *)
(***************************************************************************)
EXTENDS Synthesis, TLC

VARIABLE part

Interchangeable == Permutations(Request)
---------------------------------------------------------------------------

Excerpts == {"readme", "releases", "commits"}
Measured == {"activity", "aggregate", "bridge-aggregate", "bridges", "confidence", "contributors",
             "developer-hubs", "ecosystem", "emerging", "graph-footprint", "history", "identity", "momentum",
             "repositories", "repository-hubs", "scale", "state", "topic-hubs", "topic-relevance", "topics",
             "trend", "window-deltas"}
MCSize == [k \in Excerpts \cup Measured |-> IF k \in Excerpts THEN 3 ELSE 1]

Delta(delta, gap) == [delta |-> delta, complete |-> TRUE, gap |-> gap, base |-> 1, growth |-> 100]
Base == [counters |-> 1, polled |-> 4, first |-> 0, count |-> 2, delta |-> Delta(1, 0), momentum |-> 500,
         trend |-> "rising", level |-> "MEDIUM"]
Histories ==
  { Base, [Base EXCEPT !.momentum = 501], [Base EXCEPT !.momentum = 509], [Base EXCEPT !.delta = Delta(1, None)],
    [Base EXCEPT !.delta = Delta(None, 0)], [Base EXCEPT !.first = 1], [Base EXCEPT !.level = "HIGH"],
    [counters |-> None, polled |-> None, first |-> None, count |-> 0, delta |-> None, momentum |-> None,
     trend |-> None, level |-> "LOW"] }
Links == { n1 @@ n2 @@ n3 : n1 \in {"a" :> 2, "a" :> 1}, n2 \in {"b" :> 1, "b" :> 2}, n3 \in {"c" :> 2} }
Graph(related) == [reach |-> 1, centrality |-> 1, related |-> related]
Graphs == {None, Graph(<<1>>), Graph(<<1, 2, 3>>), Graph(<<1, 2, 3, 4>>)}
Bridges == {<<>>} \cup {<<[score |-> 9, level |-> "LOW"], [score |-> 8, level |-> l]>> : l \in {"LOW", "HIGH"}}
           \cup {<<[score |-> 9, level |-> "LOW"], [score |-> 8, level |-> "LOW"], [score |-> 7, level |-> l]>> : l \in {"LOW", "HIGH"}}
Hubs == {<<>>, <<1>>, <<1, 2>>, <<1, 2, 3>>}

MCDomain ==
  [ repository |-> [identity |-> {"x", "y"}, flags |-> {{}, {"fork"}}, pushed |-> {0, 1, 2}, history |-> Histories,
                    topics |-> {<<>>, <<"t">>}, links |-> Links,
                    texts |-> {[readme |-> r, releases |-> l, commits |-> l] : r \in {"", "text"}, l \in {"", "text"}}],
    topic |-> [aggregate |-> {1, 2}, total |-> {500, 504, 505}, level |-> {"LOW", "HIGH"}, graph |-> Graphs,
               repos |-> {[n \in {"a", "b", "c"} |-> [stars |-> 1, momentum |-> IF n = top THEN 30 ELSE 10]] : top \in {"a", "c"}}],
    developer |-> [identity |-> {"x", "y"}, firstSeen |-> {0, 1, 2}, repositories |-> {<<>>, <<1>>},
                   activity |-> {None} \cup {[available |-> b, score |-> s, level |-> l] : b \in BOOLEAN, s \in {500, 501}, l \in {"LOW", "HIGH"}},
                   ecosystem |-> {None, 500, 501, 506}, emerging |-> {[label |-> "x", level |-> l] : l \in {"LOW", "MEDIUM"}},
                   relevances |-> Hubs, graph |-> Graphs],
    ecosystem |-> [developers |-> {0, 1}, tagged |-> {0, 1}, largest |-> {None, 1}, bridges |-> Bridges,
                   hubs |-> {"developer-hubs" :> a @@ "repository-hubs" :> b @@ "topic-hubs" :> b : a \in Hubs, b \in Hubs}] ,
    bridge |-> [aggregate |-> {1, 2}, shared |-> {<<>>, <<"r">>}, bridges |-> Bridges] ]
---------------------------------------------------------------------------
MCInit ==
  /\ part \in {"requests", "commands", "evidence"}
  /\ SynthesisInit
  /\ part # "evidence" => kind = "bridge" /\ cap = 30 /\ order = <<"a", "b", "c">>

Asked == {c \in Client : req[c].pc # "idle"}
Bounds ==
  /\ part = "requests" =>
       \A c \in Asked : c \in Request /\ req[c].kind # "topic" /\ req[c].attempt = 0
  /\ part = "commands" =>
       /\ Cardinality(Asked \cap Request) <= 1 /\ release = 1
       /\ \A c \in Asked : req[c].kind # "repository"

MCNext ==
  /\ UNCHANGED part
  /\ \/ part \in {"requests", "commands"} /\ Next /\ UNCHANGED evidence
     \/ part = "evidence" /\ E!Next /\ UNCHANGED vars
  /\ Bounds'

MCSpec == MCInit /\ [][MCNext]_<<part, vars, evidence>>

(* Evidence, asked of the behaviours that move it: what is told decides    *)
(* the fingerprint, the prompt fits and the label follows.                 *)
EvidenceDecides ==
  [](part = "evidence" => E!StateDecides) /\ [][part = "evidence" => E!StepDecides]_evidence
=============================================================================
