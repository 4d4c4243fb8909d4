---------------------------- MODULE AIArtifacts ----------------------------
(***************************************************************************)
(* One synthesis after another and beside another (ai/service.py,          *)
(* ai/openai_compatible.py, storage/ai_artifacts.py): POST /ai/generate    *)
(* (api/routes/ai.py) and the `ai` commands (cli/app.py) read evidence,    *)
(* look for a stored artifact, call the model and save its answer, while   *)
(* collections commit observations and releases change the prompts.        *)
(***************************************************************************)
EXTENDS Naturals, Sequences, FiniteSets

CONSTANTS
  Request, Command,   \* requests of the API, and runs of an `ai` command
  Kind,               \* entity types asked for
  Cap,                \* AI_MAX_REQUESTS_PER_RUN
  MaxAttempts,        \* MAX_TRANSPORT_ATTEMPTS
  MaxObservations,    \* bound: commits of collections
  MaxReleases,        \* bound: changes of a prompt version or of the model
  None

VARIABLES
  observed,   \* commits of collections so far: the state of the tables
  release,    \* prompt versions and model in force
  store,      \* ai_artifacts: key -> artifact, as committed
  writing,    \* uncommitted rows: key -> artifact, held by the transaction of its `by`
  req,        \* requests and commands
  before      \* what was served when a request or command started

vars == <<observed, release, store, writing, req, before>>
Client == Request \cup Command

---------------------------------------------------------------------------
(* The statements that gather the evidence, in order; each sees what is    *)
(* committed when it runs.                                                 *)
RepositoryReads == <<"row", "snapshots", "latest">>
TopicReads == <<"repositories", "reference", "graph">>
DeveloperReads == <<"developers", "reference", "graph">>
EcosystemReads == <<"reference", "graph">>
BridgeReads == EcosystemReads

CommandRepositoryReads == RepositoryReads
CommandTopicReads == TopicReads \o <<"reference">>
CommandDeveloperReads == DeveloperReads
CommandEcosystemReads == EcosystemReads
CommandBridgeReads == BridgeReads

ReadsOf(c) ==
  IF c \in Request
  THEN [repository |-> RepositoryReads, topic |-> TopicReads, developer |-> DeveloperReads,
        ecosystem |-> EcosystemReads, bridge |-> BridgeReads][req[c].kind]
  ELSE [repository |-> CommandRepositoryReads, topic |-> CommandTopicReads, developer |-> CommandDeveloperReads,
        ecosystem |-> CommandEcosystemReads, bridge |-> CommandBridgeReads][req[c].kind]

(* The evidence of a client, and the key of the artifact it asks for; the  *)
(* fingerprint tells apart what the evidence does (module Evidence).  A    *)
(* request dates the trends of a topic by the reference of its graph, a    *)
(* command by one it reads again.                                          *)
Facts(c) ==
  LET seen == req[c].seen
  IN [text |-> req[c].text,
      seen |-> IF c \in Request /\ req[c].kind = "topic" /\ Len(seen) = 3 THEN Append(seen, seen[2]) ELSE seen]

KeyWithoutFingerprint(c) ==   \* mutant: the evidence is no part of the key
  [kind |-> req[c].kind, facts |-> None, release |-> req[c].release]

Key(c) == [kind |-> req[c].kind, facts |-> Facts(c), release |-> req[c].release]

Fresh == [pc |-> "idle", kind |-> None, force |-> FALSE, release |-> 0, seen |-> <<>>, text |-> "",
          remaining |-> Cap, attempt |-> 0, repairing |-> FALSE, posts |-> 0,
          answer |-> None, exists |-> FALSE, hit |-> FALSE, got |-> None, error |-> None]

Init ==
  /\ observed = 0 /\ release = 1
  /\ store = [k \in {} |-> None] /\ writing = [k \in {} |-> None]
  /\ req = [c \in Client |-> Fresh] /\ before = [c \in Client |-> {}]

Statuses == [limit |-> 429, rate |-> 429, network |-> 502, validation |-> 502, provider |-> 502,
             missing |-> 404, refused |-> 400, internal |-> 500]

Artifact ==
  [by : Client, cites : {"known", "unknown"}, facts : [text : {"", "text"}, seen : Seq(Nat)], release : Nat]

ASSUME Sizes ==
  /\ Cap \in Nat /\ MaxAttempts \in Nat \ {0} /\ MaxObservations \in Nat /\ MaxReleases \in Nat \ {0}
  /\ Request \cap Command = {}
  /\ None \notin Kind /\ None \notin DOMAIN Statuses /\ None \notin Artifact

TypeOK ==
  /\ observed \in 0..MaxObservations /\ release \in 1..MaxReleases
  /\ \A k \in DOMAIN writing : \A c \in {writing[k].by} :
       writing[k] = req[c].answer /\ ((req[c].pc = "flushed" /\ Key(c) = k) \/ req[c].error = "internal")
  /\ \A c \in Client :
       /\ req[c].attempt \in 0..(MaxAttempts - 1) /\ req[c].remaining \in 0..Cap
       /\ req[c].pc = "ended" => (req[c].got = None) # (req[c].error = None)
       /\ req[c].error \in DOMAIN Statuses \cup {None}

Set(c, r) == req' = [req EXCEPT ![c] = r]
Failed(c, error) == [Fresh EXCEPT !.pc = "ended", !.error = error, !.posts = req[c].posts,
                          !.remaining = req[c].remaining, !.answer = req[c].answer]
Fail(c, error) == Set(c, Failed(c, error))
Serve(c, artifact) == Set(c, [req[c] EXCEPT !.pc = "ended", !.got = artifact])

Start(c, kind, force) ==
  /\ req[c].pc = "idle"
  /\ Set(c, [req[c] EXCEPT !.pc = "reading", !.kind = kind, !.force = force, !.release = release])
  /\ before' = [before EXCEPT ![c] = {d \in Client : req[d].pc = "ended" /\ req[d].error = None}]
  /\ UNCHANGED <<observed, release, store, writing>>

Refuse(c) ==   \* a wrong parameter, or AI not configured
  /\ req[c].pc = "idle" /\ Fail(c, "refused")
  /\ UNCHANGED <<observed, release, store, writing, before>>

Read(c) ==
  /\ req[c].pc = "reading"
  /\ IF observed = 0 THEN Fail(c, "missing")
     ELSE LET seen == Append(req[c].seen, observed)
              last == Len(seen) = Len(ReadsOf(c))
          IN Set(c, [req[c] EXCEPT !.seen = seen,
                       !.pc = IF ~last THEN "reading"
                              ELSE IF req[c].kind = "repository" THEN "text" ELSE "lookup"])
  /\ UNCHANGED <<observed, release, store, writing, before>>

FetchText(c) ==   \* README, releases and commits: a failure is an empty text
  /\ req[c].pc = "text"
  /\ \E text \in {"", "text"} : Set(c, [req[c] EXCEPT !.text = text, !.pc = "lookup"])
  /\ UNCHANGED <<observed, release, store, writing, before>>

---------------------------------------------------------------------------
(* synthesize: the cache first, then one unit of the budget.               *)
Lookup(c) ==
  /\ req[c].pc = "lookup"
  /\ IF ~req[c].force /\ Key(c) \in DOMAIN store
     THEN Set(c, [req[c] EXCEPT !.pc = "ended", !.hit = TRUE, !.got = store[Key(c)]])
     ELSE IF req[c].remaining = 0 THEN Fail(c, "limit")
     ELSE Set(c, [req[c] EXCEPT !.pc = "posting", !.remaining = @ - 1])
  /\ UNCHANGED <<observed, release, store, writing, before>>

Posting(c) == req[c].pc = "posting"
Posted(c) == [req[c] EXCEPT !.posts = @ + 1]

Transient(c) ==   \* transport error, 5xx, or 429 with an acceptable Retry-After
  /\ Posting(c)
  /\ Set(c, IF req[c].attempt + 1 < MaxAttempts THEN [Posted(c) EXCEPT !.attempt = @ + 1]
            ELSE [Failed(c, "network") EXCEPT !.posts = @ + 1])
  /\ UNCHANGED <<observed, release, store, writing, before>>

Rejected(c) ==   \* 429 without one, any other status, no message, or no JSON
  /\ Posting(c)
  /\ \E e \in {"rate", "provider", "internal"} : Set(c, [Failed(c, e) EXCEPT !.posts = @ + 1])
  /\ UNCHANGED <<observed, release, store, writing, before>>

Malformed(c) ==
  /\ Posting(c)
  /\ Set(c, IF req[c].repairing THEN [Failed(c, "validation") EXCEPT !.posts = @ + 1]
            ELSE [Posted(c) EXCEPT !.repairing = TRUE, !.attempt = 0])
  /\ UNCHANGED <<observed, release, store, writing, before>>

Answered(c) ==   \* the schema accepts key points that cite any id
  /\ Posting(c)
  /\ \E cites \in {"known", "unknown"} :
       Set(c, [Posted(c) EXCEPT !.pc = "saving",
                 !.answer = [by |-> c, cites |-> cites, facts |-> Facts(c), release |-> req[c].release]])
  /\ UNCHANGED <<observed, release, store, writing, before>>

---------------------------------------------------------------------------
(* save_artifact: a select, then an insert or an update that waits for the *)
(* transaction that holds the row; the caller commits.                     *)
Select(c) ==
  /\ req[c].pc = "saving"
  /\ Set(c, [req[c] EXCEPT !.pc = "flushing", !.exists = Key(c) \in DOMAIN store])
  /\ UNCHANGED <<observed, release, store, writing, before>>

Flush(c) ==
  /\ req[c].pc = "flushing" /\ Key(c) \notin DOMAIN writing
  /\ IF ~req[c].exists /\ Key(c) \in DOMAIN store
     THEN Fail(c, "internal") /\ UNCHANGED writing   \* unique constraint
     ELSE /\ writing' = [k \in DOMAIN writing \cup {Key(c)} |-> IF k = Key(c) THEN req[c].answer ELSE writing[k]]
          /\ Set(c, [req[c] EXCEPT !.pc = "flushed"])
  /\ UNCHANGED <<observed, release, store, before>>

LockTimeout(c) ==
  /\ req[c].pc = "flushing" /\ Key(c) \in DOMAIN writing /\ Fail(c, "internal")
  /\ UNCHANGED <<observed, release, store, writing, before>>

Release(c) == writing' = [k \in {j \in DOMAIN writing : writing[j].by # c} |-> writing[k]]
Stored(k, artifact) == [j \in DOMAIN store \cup {k} |-> IF j = k THEN artifact ELSE store[j]]

CommitNothing(c) ==   \* mutant: the route leaves the commit to somebody else
  /\ req[c].pc = "flushed" /\ c \in Request
  /\ Release(c) /\ Set(c, [req[c] EXCEPT !.pc = "committed"])
  /\ UNCHANGED <<observed, release, store, before>>

Commit(c) ==   \* the server applies it; the route has yet to hear of it
  /\ req[c].pc = "flushed" /\ c \in Request
  /\ store' = Stored(Key(c), req[c].answer)
  /\ Release(c) /\ Set(c, [req[c] EXCEPT !.pc = "committed"])
  /\ UNCHANGED <<observed, release, before>>

Deliver(c) ==
  /\ req[c].pc = "committed" /\ Serve(c, req[c].answer)
  /\ UNCHANGED <<observed, release, store, writing, before>>

CloseSession(c) ==   \* an `ai` command prints the artifact and closes its session
  /\ req[c].pc = "flushed" /\ c \in Command
  /\ Release(c) /\ Serve(c, req[c].answer)
  /\ UNCHANGED <<observed, release, store, before>>

Abandon(c) ==   \* cancelled, or cut off, while its COMMIT is on the way
  /\ req[c].pc = "flushed" /\ c \in Request /\ Fail(c, "internal")
  /\ UNCHANGED <<observed, release, store, writing, before>>

(* The backend of an abandoned request applies its COMMIT late, or never.  *)
Outlived(k) == req[writing[k].by].pc = "ended"

LateCommit(k) ==
  /\ Outlived(k)
  /\ store' = Stored(k, writing[k]) /\ writing' = [j \in DOMAIN writing \ {k} |-> writing[j]]
  /\ UNCHANGED <<observed, release, req, before>>

LateRollback(k) ==
  /\ Outlived(k)
  /\ writing' = [j \in DOMAIN writing \ {k} |-> writing[j]]
  /\ UNCHANGED <<observed, release, store, req, before>>

Crash(c) ==   \* interrupted, the database fails, or the answer is not rendered
  /\ req[c].pc \notin {"idle", "ended"}
  /\ Release(c) /\ Fail(c, "internal")
  /\ UNCHANGED <<observed, release, store, before>>

---------------------------------------------------------------------------
Observe ==
  /\ observed < MaxObservations /\ observed' = observed + 1
  /\ UNCHANGED <<release, store, writing, req, before>>

Upgrade ==
  /\ release < MaxReleases /\ release' = release + 1
  /\ UNCHANGED <<observed, store, writing, req, before>>

Proceed(c) ==
  \/ Read(c) \/ FetchText(c) \/ Lookup(c)
  \/ Transient(c) \/ Rejected(c) \/ Malformed(c) \/ Answered(c)
  \/ Select(c) \/ Flush(c) \/ LockTimeout(c)
  \/ Commit(c) \/ Deliver(c) \/ Abandon(c) \/ CloseSession(c)

Next ==
  \/ Observe \/ Upgrade
  \/ \E k \in DOMAIN writing : LateCommit(k) \/ LateRollback(k)
  \/ \E c \in Client : \/ \E kind \in Kind, force \in BOOLEAN : Start(c, kind, force)
                       \/ Refuse(c) \/ Proceed(c) \/ Crash(c)

Spec == Init /\ [][Next]_vars
---------------------------------------------------------------------------
Served(c) == req[c].pc = "ended" /\ req[c].error = None

(* docs/AI.md: a changed count, window, prompt version or model changes    *)
(* the key, so a stale summary is never served as current.                 *)
StaleNeverServed ==
  \A c \in Client : Served(c) =>
    req[c].got.facts = Facts(c) /\ req[c].got.release = req[c].release

(* What is stored is what the model answered the request for that key:     *)
(* every error the code gives a name stores nothing.  Only a request that  *)
(* was cut off at its COMMIT, or after it, may end in an error although    *)
(* its artifact is kept, perhaps over a newer one.                         *)
OnlyAnswersAreStored ==
  \A k \in DOMAIN store : \A c \in {store[k].by} :
    /\ c \in Request /\ store[k] = req[c].answer
    /\ store[k].facts = k.facts /\ store[k].release = k.release
    /\ req[c].pc \in {"committed", "ended"} /\ req[c].error \in {None, "internal"}

(* One unit buys at most two rounds of transport attempts (an answer and   *)
(* one repair), and a replay buys none.                                    *)
SpendBounded ==
  \A c \in Client :
    /\ req[c].posts <= 2 * MaxAttempts * (Cap - req[c].remaining)
    /\ req[c].hit => req[c].posts = 0

ArtifactsAreCurrent == TypeOK /\ StaleNeverServed /\ OnlyAnswersAreStored /\ SpendBounded

(* docs/AI.md: a request for evidence that was synthesized before it was   *)
(* sent is a hit and does not call the model, whatever happened between.   *)
RepeatsIn(S, T) ==
  \A c \in T, d \in S :
    req[c].kind # None /\ d \in before[c] /\ ~req[c].force /\ Key(c) = Key(d) => req[c].posts = 0

RepeatsAreHits == RepeatsIn(Request, Client)

(* It does not hold of the commands, which never commit what they saved.   *)
RepeatedCommandsAreHits == RepeatsIn(Command, Command)
=============================================================================
