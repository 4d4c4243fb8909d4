# A TLA+ model of GitHub Radar

GitHub Radar collects public data about repositories and developers from the
GitHub API into PostgreSQL and reports on it. Collection is done by short-lived
processes: two scheduled GitHub Actions workflows (`collection-refresh.yml`,
`collection-discover.yml`) and manual commands. They share one database and no
memory. The hard part of the program is that each of them can be killed,
cancelled or cut off from its database between any two steps, and that what it
has left in the database must still be a true and complete account of what it
did, because nothing is retried automatically and an operator decides from that
account.

Paths below are relative to `src/src/github_radar/`.

## 1. Inventory

| Part | State | Operations | What makes it correct |
|---|---|---|---|
| Collection ownership: `storage/collection.py` (`locked_collection_session`), `storage/deadlines.py`, `storage/db.py` | one connection and its PostgreSQL backend, advisory lock 6742565, the flag `lost` | connect, try lock, check and commit, unlock, abandon on deadline or cancellation, refuse reconnection | one writer at a time; lost ownership is final; an ending not called uncertain is true; the lock never stays behind |
| Collection runs: `services/collection.py` | the `collection_runs` row (receipt), the report in memory, the session's staged rows, the request counters | `run`, `_discover`, `_refresh`, `_enrich`, `_reserve_attempt`, `_checkpoint`, `_rollback_report`, `_failure` | the receipt accounts for exactly the committed rows; attempts are durable before they go out; "completed" means complete; finished is final |
| GitHub client: `github/client.py`, `github/budget.py` | quota per resource as last seen, request counters per scope | attempt loop with back-off, pause threshold, pagination | caps hold with retries counted; the loop ends; pages are neither lost nor repeated |
| Automation: `services/automation.py`, `cli/automation.py` | none of its own: it reads and writes receipts | gates, preflight, review of unfinished receipts, deduplication by UTC day or week, one run | no automatic retry; nothing runs beside a receipt nobody reviewed |
| Discovery, refresh, profiles: `discovery/service.py`, `services/update.py`, `services/developers.py` | rows staged in the caller's session | stage a new repository, an observation, a profile | histories grow at their end; identities do not change under a name |
| Storage: `storage/repositories.py`, `storage/models.py` | repositories, topics, developers, contributors, observations | upserts, observations, latest and history queries | one observation per instant; relations are marked absent, not lost |
| AI synthesis: `ai/`, `storage/ai_artifacts.py` | artifacts under a unique key, call allowance, cache of texts | gather evidence, look up, call the provider, repair, save | a repeated request is not paid for twice; nothing stale is served as current; the allowance bounds the calls |
| Private workspace: `api/routes/workspace.py` | one versioned row per entity | create, edit, delete | no edit overwrites what its author has not seen |
| Analytics: `analytics/`, `services/intelligence.py` | none | pure functions of stored histories: windows, momentum, trends, confidence, developer scores and labels | what is said follows from what was observed, in whichever order it arrived |
| Relationship graph: `graph/` | a graph in memory, loaded anew | load, filter, components, relationships, bridges | it has what was stored; its reports agree |
| Diagnostics: `services/quality.py`, `services/collection_diagnostics.py`, `cli/collection.py` | none: one read-only transaction | coverage and the account of the receipts | a report is of one instant; its counts add up |
| HTTP API: `api/` | none beside the workspace and the artifacts | lists, filters, orders, reports | two pages say the same of the same data |
| Deployment checks, initialisation, recovery, migrations, settings, web client | none or configuration | checks at start, operator procedures, presentation | outside the model |

How they interact: `cli/automation.py` passes the activation gates and calls
`run_scheduled`, which takes the lock, reviews the receipts, and runs a
`CollectionService` on the locked session; the manual commands
(`cli/app.py:_collection_run`) take the same lock and run the service directly.
The service gives `GitHubClient` a callback (`before_attempt`) that writes the
attempt counters into the receipt before each attempt. SQLAlchemy event
listeners (`before_commit`, `do_connect`, `handle_error`) tie every commit of
the session to the lock. Losing the backend surfaces as `CollectionLockError`
out of whatever database call was running.

What is hard about it: the lock check and the COMMIT are two round trips; a
client that gives up on its socket learns nothing about the server, and its
backend lives on with the lock; the pool would happily reconnect; exceptions of
every kind cross the same `try` blocks; the report exists twice, in memory and in
the row; the budget counts retries; the clock is a wall clock; and periods are
computed from a different reading of it than the receipts are stamped with. On
the reading side nothing is locked: lists, graphs and AI evidence are put together
from several statements while collections commit, and the same number is
computed in several places (repository page, ranking, topic, graph, evidence)
that have to agree.

`PROJECT.json` lists every hazard at its line with the properties that cover it.

## 2. Modules

| Module | Models | Extends |
|---|---|---|
| `FencedLog` | abstract: writers own a shared history one at a time, each once, and only the owner extends it | |
| `CollectionLock` | `locked_collection_session` and its listeners, with PostgreSQL's side of them; implements `FencedLog` | |
| `CollectionLock_proofs` | theorems about `CollectionLock`, `Deadlines`, `Workspace` and `Writers` | `Writers`, `TLAPS` |
| `Deadlines` | `DeadlineConnection` and `finish_cleanup`: connecting, I/O and cleanup under their deadlines | |
| `CollectionRun` | what all kinds of run share: receipt, report, staged rows, attempts, endings | |
| `CollectionRun_proofs` | lemmas about the moves any run may make | `CollectionRun`, `TLAPS` |
| `DiscoverRun` | `_discover`, with `stage_lightweight`, `search_repositories` and `note_provenance` | `CollectionRun` |
| `DiscoverRun_proofs` | theorems about `DiscoverRun` | `DiscoverRun`, `CollectionRun_proofs` |
| `RefreshRun` | `_refresh`, with `stale_repositories` and `stage_observation` | `CollectionRun` |
| `RefreshRun_proofs` | theorems about `RefreshRun` | `RefreshRun`, `CollectionRun_proofs` |
| `EnrichRun` | `_enrich`, with `cached_contributors`, `sync_contributors`, `stage_profile` and `sync_profile` | `CollectionRun` |
| `CollectionService` | `run`, of any kind: one receipt, and the body that the kind decides | `EnrichRun`; instances of `DiscoverRun` and `RefreshRun` |
| `CollectionService_proofs` | theorems about `EnrichRun`, and about a run of any kind | `CollectionService`, `CollectionRun_proofs` |
| `Automation` | `run_scheduled`, its gates, and manual commands beside it | |
| `Automation_proofs` | theorems about `Automation`, `GitHubClient` and `Unattended` | `Unattended`, `TLAPS` |
| `GitHubClient` | the attempt loop of `GitHubClient.request`, its quota state and `RequestBudget` | |
| `Pagination` | `paginate` and the cohorts of a plan over listings that shift | |
| `RefreshRotation` | refreshes day after day, while repositories fail | |
| `Tracking` | rows against renames, transfers and old search results | |
| `Observations` | the observation log, its writers and the readers that pick the newest | |
| `Records` | what is stored of GitHub: tracking, searches, refreshes and the log side by side | `Tracking`; instances of `Pagination`, `RefreshRotation` and `Observations` |
| `Records_proofs` | theorems about `Tracking`, `Pagination`, `RefreshRotation` and `Observations` | `Records`, `TLAPS` |
| `VersionedEntry` | abstract: whoever replaces or erases an entry has seen the version that goes | |
| `Workspace` | `edit_workspace` and `delete_workspace` with row locks and lost answers; implements `VersionedEntry` | |
| `Writers` | what keeps writers apart: lock, session and workspace entry side by side | `CollectionLock` |
| `Unattended` | what happens unattended: schedule and clients side by side | `Automation` |
| `Series` | look-ups of a series, change over a window, recency, momentum, trend, confidence | |
| `RepositoryScores` | reports, ranking, topics and the filtered list of repositories | `Series` |
| `DeveloperScores` | shares, relevance, activity, ecosystem score and label | `Series` |
| `Graph` | the graph, its filters, components, relationships, bridges and reports | `Series` |
| `GraphLoad` | `load_graph` statement by statement beside a collection | `Graph` |
| `QualityReport` | `collection quality` and `collection stats` in one transaction beside a collection | `Series` |
| `AIArtifacts` | `POST /ai/generate` and the `ai` commands: evidence, cache, budget, provider, repair, save | |
| `Textual` | `TextualEvidence`, one for each request or command | |
| `Evidence` | which facts reach a model, in which order and how precisely; fingerprint, prompt cut, label | |
| `Synthesis` | AI synthesis as a whole: artifacts and evidence side by side | `AIArtifacts`; instance of `Evidence` |
| `Synthesis_proofs` | theorems about `AIArtifacts` | `Synthesis`, `TLAPS` |
| `MC...` | instances for TLC | |

A run asks one question of several machines that share no state. `Writers`,
`Unattended`, `Records` and `Synthesis` put such machines side by side, and so do
`MCScores` (repositories and developers) and `MCGraphLoad` (`GraphLoad` and
`QualityReport`) for their runs. A variable
`part` is chosen in the initial state, and a
behaviour moves that machine only; the others keep one initial state. So the
state space is the sum of those of the machines, every property speaks of the
variables of one machine, and fairness is a disjunction with one disjunct for
each part. That a machine behaves there as it does alone is proved for `Writers`
and `Unattended` (section 4); the theorems about `Records` and `Synthesis` are stated
of the whole. In `CollectionService` the variable is the argument
`kind` of `run()`.

### CollectionLock

The client's knowledge (`pc`, `socket`, `lost`, `acked`, `outcome`) and the
server's state (`backend`, `holder`, `pending`, `applied`, `log`) are separate
variables, because the code's problem is that they differ. `SendCommit` puts a
COMMIT on its way, `ExecCommit` executes it whenever it likes, `AckCommit` sees
the reply. `Abandon` is the I/O deadline, SIGTERM or `max_seconds` during I/O:
`DeadlineConnection.wait` closes the socket locally, `handle_error` turns it into
a `CollectionLockError` that is flagged uncertain, and the backend lives on until
`ReapBackend`. `Raise` returns to `work`: nothing obliges the body to give up
after an ownership error, so the model lets it go on, and the listeners have to
stop it (`Refuse`). `LoseLock` is the only way in which a live backend can be
without the lock it took. One invocation is one process: it takes the lock at
most once. Statements other than COMMIT that fail or hang are covered by the same
`Abandon`, and a plain SQL error does not touch ownership.

### CollectionRun, DiscoverRun, RefreshRun, EnrichRun, CollectionService

`store` is what is committed, `work` what the session sees (committed plus
staged); a commit copies `work` into `store` together with the receipt. The
report is a record of counters, with the operations themselves left out. `http`
is the attempt loop of `GitHubClient.request`: `Charge` (budget), `Reserve` (the
`before_attempt` callback, a commit of its own), and what comes back. The
bodies take their places from the source: `DiscoverRun` goes through
`search -> examined -> lookup -> (detail ->) save -> search`, `RefreshRun`
through `target -> detail -> save -> target`, each with `failure -> failsave`
for `_failure()`. Where several exceptions take the same path they are one
action. `LoseOwnership` ends the run without another write, but the commit that
was in flight may have taken effect (`Vanish`), which is what `CollectionLock`
establishes for the session.

`EnrichRun` goes through `body -> (detail -> contributors ->) batchsave ->
profile -> (request ->) profilesave -> profile` and has two `try` blocks, one in
the other: a profile's failure is noted as its own and the loop goes on; if that
fails too, the repository has failed (`FailureFails`). Developers are numbered
by falling contributions, the order of GitHub's pages and of
`cached_contributors`. Nothing compares the clock with the newest observation
here, as a refresh does. That histories advance nevertheless follows from the
freshness checks, with one exception that `HistoryAdvances` names: a batch
fetched again for a larger limit, after the clock was set back, is observed
before the one it replaces.

What an enrichment is asked for (the references, `contributors_limit`,
`fetch_profiles` and the age at which things are stale) is one `request`, chosen at
the start. The contributors whose profile is still to come are a set, of which the
least number is next. `CollectionService` is `run()` itself, with the three kinds
as its branches; they share the receipt, the session and the attempts.

In `DiscoverRun` GitHub answers each search with some sequence, cut by
the limit of the cohort, the candidates left and the page size exactly as
`search_repositories` and `paginate` do. In `RefreshRun` instants are small
numbers and every reading of the clock is arbitrary, so it may stand still or go
backwards.

### Automation

A run is reduced to its two durable ends, the commit that creates the receipt
and the one that closes it. Both may be in flight when the client is gone
(`Abandon`), and execute, or die with the backend. Days stand for instants; day 0
is a Monday. `Launch` reads the acknowledged receipts from the environment, any
subset of those unfinished at that moment. The concurrency group of the two
workflows is not assumed: the lock has to do.

### GitHubClient

Two pictures of the same quota: GitHub's (`window`, `quota`, `served`) and each
client's (`known`), updated by responses that arrive (`Record`). Attempts may be
served and their answers lost (`Lose`), and other clients spend the same token,
so the pictures differ. `Consume` is one step: `_check_pause_threshold` and
`consume` run without an await between them. `Send` comes after `before_attempt`.
When that fails (`ReserveFails`), the attempt was charged and is never sent: a plain
database error ends the request only, and the operation that catches it
(`services/collection.py:302`, 329, 433, 435) goes on with the same client and budget; a
lost lock, a cancellation or any other exception ends the run, and its client with it. `unsent` counts
such attempts beside those that were `sent`. `Serve` may answer anything a
secondary limit or an outage produces; without quota it answers with a rate
limit. `CollectionRun` has the same loop reduced to what a run can tell apart,
with one total counter.

### Deadlines

Time is counted in seconds of the waits that have one. A cancellation may come
at any moment and any number of times; the shielded cleanup is a child with a
state of its own, the server may never answer, and each address the driver
tries has a socket. `raised` is the chain of exceptions, `uncertain` what
`outcome_uncertain` finds in it.

### Pagination, RefreshRotation, Tracking, Observations

These carry what `DiscoverRun` and `RefreshRun` leave open. `DiscoverRun` takes a
search for any sequence; `Pagination` has the listing, which may change between
two pages, come short, or lose the link to its next page. `RefreshRun` is one run;
`RefreshRotation` is a run a day, a poll is one step, and instants are an order
and an age; a run takes those whose turn it is, counted along that order, which is
`stale_repositories()` with its `ORDER BY` and `LIMIT`. Two histories serve the properties:
`gap`, how long before its newest observation a repository was observed, and `tried`, whom the
run has come to. `Tracking` has GitHub's names and
owners, which move, beside the rows: the stable ID, the unique index on full names and the
owner link, which is only known once an enrichment gave the owner a row; what is recorded
for a row is what GitHub answered with at that moment (`At`). Nothing says that a search
finds a repository again, so `NamesCatchUp` speaks of each repository that is found again and
again, and makes one exception: the row of another repository may have its name
(`InItsPlace`). `Observations` has the writers of
the log under a clock that may stand still or be set back: `Collect` is the collector, and
`Next` has the older library entry points `discover()` and `update()` too. The parts
`collector` and `library` of `Records` run the one or the other.

### Workspace

Each request is a transaction; a conditional write that finds the row locked
waits and looks again, as READ COMMITTED does. Answers get lost, and a browser
then sends its edit again. `VersionedEntry` is the abstract specification, with
versions in the place of contents.

### Series, RepositoryScores, DeveloperScores

A series is a function from days to what was observed. Scores are thousandths
rounded down, roots hundredths: the code computes them with floats, and no
property depends on a last digit. Observations arrive in any order of their days, because a
collection that started earlier may commit later. Readers differ in which observation they call the latest, and the
modules keep the difference: lists, rankings and topics date momentum by the row that was
stored last (`LastStored`, `latest_snapshots_by_repository`), the detail page by the newest of
the series, the classes of trends by the newest of the dataset; a repository nobody observed is
"new" in lists and has no trend in its page. So a late observation moves the
momentum of lists, by its recency only, and `LateIsHarmless` says that nothing else moves. Thresholds, window lengths and
weights are the code's.

### Graph, GraphLoad, QualityReport

`Graph` is a value: nodes, owners, OWNS pairs, links with their evidence, tags,
momentum. `GraphLoad` reads it statement by statement, each statement seeing what
is committed when it runs, while a collection adds repositories and links, replaces the
topics of a repository that is there already (`Retag`) and fetches counts again (`Recount`). So the parts
of a loaded graph are of several moments: `GraphIsFaithful` says that each is of one, that these come
in the order of the statements, and that the shares of a repository still add up. The count of a
link and what is known of its past may be of two moments, and momentum, which is computed
in the same load from observations, is a constant here. What
the reports on it promise (`ReportsAgree`) is a property of the step that ends a load.
`QualityReport` reads a snapshot taken by its first statement; the receipts it
reads are written beside the rows they account for.

### AIArtifacts, Textual, Evidence

`AIArtifacts` keeps of the evidence the observation each statement saw; the
fingerprint tells apart what they make together. A request of the API commits
what it saved; a command does not, because no `ai` command does. A COMMIT that is on its
way may be applied although the request hears nothing of it: `Commit` is the server's step and
`Deliver` the answer, `Abandon` a request that is cancelled or cut off between flush and answer,
whose backend commits late or never (`LateCommit`, `LateRollback`), and `Crash` also fails a request whose
artifact is stored but not rendered (`api/routes/ai.py:270`-275). Releases change
prompt and model between two requests. `Textual` is what becomes of the cache of
`TextualEvidence`: every request and every command makes one of its own, asks it for each of three texts
once, and drops it. `Evidence` measures the facts
of one type of artifact anew and compares items, ids, prompt and label.

## 3. Runs

| Run | Instance | Shows |
|---|---|---|
| `lock` | 2 invocations with 2 transactions each; a session with 2 addresses and deadlines of 3 seconds; 2 browsers with 2 requests each | one writer at a time, lost ownership is final, endings are truthful, the lock implements `FencedLog` and is freed; a session leaves nothing behind and hides no failure; the workspace implements `VersionedEntry`, answers tell what happened, and no editor waits for ever |
| `runs` | a discovery of three cohorts whose limits may bind or not, a refresh, an enrichment asked for three things (by freshness; forced, the same repository twice; no contributors, and an untracked reference); 5 requests | the receipt matches the rows in every committed state, whatever was interrupted; attempts are reserved; completed means complete; limits hold; finished is final and histories advance; every run ends |
| `unattended` | 2 scheduled discoveries, a scheduled refresh and a manual discovery, Sunday and Monday; 2 clients with a common budget of 3 and quota of 2 | one attempt a period, only on reviewed receipts; what is charged, retries and failed reservations included, is accounted for and within the caps; known quota is left alone at the threshold |
| `tracked` | 2 repositories, 3 names, 2 owners, 3 changes; 3 items read by cohorts of 3, 1 and 2 in pages of at most 2; 4 repositories, 2 of them fragile, 3 polled a day; a log of 1 repository and 1 contributor under 3 instants | no row holds another repository's data, the name of a repository that is found again catches up unless another row has it, and so do owners; a search reads a still listing without gap and a shifting one within its plan; nobody starves, nobody is polled twice within the minimum age, and nobody due is passed over by one observed later; one observation an instant, one newest for all readers of the collector's log, and history only grows |
| `scores` | 2 repositories, 3 observations on 4 days around the windows' ends; 2 developers of 2 repositories, 4 observations of contributions and followers at 3 dates within and beyond a month | growth, momentum, trend and confidence follow from observed ends of windows; lists, ranking, topics and detail page agree; no label without an observed rise, falls hide nothing, fame is nothing, shares add up |
| `graph` | 2 developers, 2 repositories, 2 topics, 5 changes, at most 2 of them during the load; a report on 2 repositories, 2 recipes and 2 categories, one of them no longer configured, and 6 commits | every part of a loaded graph is of one moment, nothing is lost or invented, and its reports agree with the edges and each other; a coverage report is of one instant and adds up |
| `ai` | 2 requests, or a request and a command; 2 observations, 2 releases; 5 types of evidence | nothing stale is served; what is stored was answered for its key; repeated requests are hits; spending is bounded; facts that show decide the fingerprint, and no others |
| `client_limit` | 1 client | a violation, see below |
| `graph_lifetime` | as `graph` | a violation, see below |
| `ai_commit` | 2 commands | a violation, see below |
| `ai_texts` | 2 requests, 1 repository, a lifetime of 3 ticks | a violation, see below |
| `renames` | as `tracked` | a violation, see below |

Properties that are conjunctions name their parts in the module: `EveryRecordIsKept`
is a run's final account and its growing histories; it and `KindsAreTyped`,
`RowsAreCounted`, `CompletedIsDone` and `LimitsHold` say of each kind what its
module says of it; `PagesAgree`,
`ScoresAreEarned`, `ReportsAreEarned`, `GraphIsFaithful`, `ReportsAgree`,
`ReportIsSound`, `LogIsSound` and `ArtifactsAreCurrent` each put together what one part
promises, every conjunct with a comment of its own.

Bounds. Two invocations with two transactions are enough for one to write between
those of another, and the proofs remove both bounds. Three seconds let a
deadline strike during, between and after waits. Two requests a browser let each
edit, delete and re-create what the other is about to change. The cohorts of `runs` overlap in both
directions, so a candidate is new, known, in two cohorts, failed and met again, and
4 candidates and 1 new repository are reached in the middle of a cohort, at its end
or not at all;
five requests let a run complete and, with retries, run out. Three
repositories against two targets leave one behind; three developers are one more
than the limit. Sunday and Monday are different periods of both kinds. Quota and budget bind in
either order. Three changes on GitHub let two repositories exchange their names, or one take a
name the other gave up while it is transferred. Cohorts of 3, 1 and
2 against 4 candidates are cut short, fit exactly and are not reached. Four rows of the
log together (`MaxObservations`) let each of its three kinds be written twice, at one instant
and at two. Two fragile
repositories against three targets are the most for which a place remains, and when all four
repositories are due, one of them is not selected. The days
of `scores` are before, at and inside the windows of 7 and 30 days; those of the
developers inside a window, beyond it, and beyond the month in which somebody is a newcomer. With two repositories, developers and topics every kind of
relation and bridge exists. Two observations
and two releases make any two syntheses differ in either. Symmetry is used in
`unattended` and `ai`, where the permuted values occur in no order and in no liveness property.

Deadlock checking is off in every run, since all of these activities do end.

Fairness. `lock` assumes that a started invocation goes on (asyncio runs it, and the
deadlines bound every wait for the server), that a run's body ends (`max_seconds`,
and 330 seconds around a scheduled one), that the server executes what it received
and ends the backend of a closed socket (TCP keepalive and
`idle_in_transaction_session_timeout`); for the session, that its tasks run and
time passes; for the workspace, that the server answers what it can, where a row
lock is granted again and again to whoever waits. No fault is ever forced. `runs`
assumes that a run that can take a step takes one. In `tracked`, discovery and
refresh run daily; what a search found is staged; a request
is answered or times out; and no repository is for ever the one at which refreshes are stopped.
That a repository is found again and again is no assumption of `tracked` but a premise of `NamesCatchUp`;
only the run `renames` assumes it, so that its violation does not come of a search that misses a repository.
That nobody starves (`NothingStalls`) needs that fewer repositories keep failing than a run polls: with as
many, they fill every run, which is what the code does.

### Disagreements

Five of those met while modelling have a run.

* `client_limit`: `request()` promises `RateLimitExceeded` "when quota is exhausted
  or too low" (`github/client.py:172`). A last attempt answered 429 with a wait falls
  through to `GitHubNetworkError`, and a collection counts a failed candidate.
* `graph_lifetime`: a bridge's contributions are summed over memberships, so a
  repository with two topics counts twice, and few contributions pass the
  threshold that should cap them (`graph/bridges.py:15`).
* `ai_commit`: no `ai` command commits, so a repeated command is never the cache hit
  of `docs/AI.md:70`.
* `ai_texts`: texts are to be read "only once per TTL window" (`ai/textual.py:4`,
  `docs/AI.md:116`), but each request (`api/routes/ai.py:387`) and command
  (`cli/app.py:2492`) has a cache of its own, and asks it for each text once.
* `renames`: two tracked repositories that exchange their names keep the wrong ones
  for ever, since neither row can take a name the other holds, and are polled no more.
  "The stable ID survives renames" (`discovery/service.py:68`), and renames
  "found through discovery update identity names" (`docs/CHECKPOINT_B.md:305`).

The others are recorded here; the modules have the behaviour of the code.

* Tracking: an owner link moves only to somebody with a row, so it may name a former owner (`docs/GRAPH.md:15`).
* Runs: a discovery whose remaining candidates are fewer than the limit of a cohort ends as
  truncated (`services/collection.py:308`), also when the search had no more of them; no property says which it was.
* Repositories: in ascending order those without a value come first, not last
  (`api/routes/repositories.py:61` says None is always last; what is reversed as a whole is a pair of a flag and a value). The window of `trending` need not be spanned
  (`docs/TRENDING.md:33`). Growth of five percent either way outranks staleness, as `docs/TRENDING.md` and
  `classify_trend` say and the comment at `analytics/trends.py:40` does not. Lists date momentum by the last stored observation
  and not by "always the newest snapshot's `captured_at`" (`cli/app.py:877`). A base far older than the window still counts in full
  for confidence (`analytics/confidence.py:123`).
* Developers: a single new contribution of a newcomer in a rising repository can be EMERGING
  (`docs/DEVELOPERS.md:148`); ACTIVE can be said of an observed change of zero
  (`docs/DEVELOPERS.md:141`), and QUIET of a small rise
  (`analytics/intelligence.py:767`); owners without a contribution link have no report
  (`services/intelligence.py:302`).
* Graph: without contribution links no developer is loaded (`graph/loader.py:36`); the
  filter by language keeps every language (`graph/model.py:419`); two related
  repositories reach HIGH on common developers and topics (`graph/confidence.py:33`);
  an owner without contributions has a bridge score (`docs/GRAPH.md:126`).
* AI: the allowance counts syntheses, not the calls of repair and retries
  (`docs/AI.md:110`); cited ids are not checked (`ai/prompts.py:68`); of two requests
  for one new artifact the second insert fails (`storage/ai_artifacts.py:64`); the
  statements that gather evidence may mix two observations (`docs/AI.md:15`); an absent README becomes a
  placeholder and an item (`github/repositories.py:121`); the label of a pair may come from a
  bridge that is not shown, so a replayed one may carry another than the evidence gives now (`ai/confidence.py`); the repositories of a topic
  come by `last_seen_at`, and contributors with equal counts in any order, which reaches the
  fingerprint (`docs/AI.md:15`), so a topic shows the latest seen, not the top (`docs/AI.md:50`).

## 4. Proofs

`CollectionLock_proofs` proves for any finite or infinite set of invocations and
any `MaxCommits`:

* `TypeCorrect`: `Spec => []TypeOK`
* `Fencing`: `Spec => []NoInterleavedWriters`
* `Truthful`: `Spec => []TruthfulOutcome`
* `Irreversible`: `Spec => LostIsFinal`
* `Refinement`: `Spec => FenceSpec`

The argument is one inductive invariant, `IInv`. `NoInterleavedWriters` is not
inductive, because it says nothing of the lock; `OwnerIsLast` adds that a
transaction of the current holder can only be followed by its own, and
`ServerInv` that a COMMIT in flight belongs to the holder: after the check the
lock can only be lost together with the backend, and the COMMIT with it. That is
the fact on which the code's two round trips rest. `ClientInv` relates what the
client has seen to what the server did, place by place, and gives
`TruthfulOutcome`. Type preservation and each part of the invariant are lemmas
(`TypeStep`, `LogStep`, `ServerStep`, `ClientInvStep`, `HistoryStep`). The only
assumption is `LockAssumption`, that `NoProc` is no invocation.

`Automation_proofs` proves for any invocations, kinds of runs and days:

* `TypeCorrect`: `Spec => []TypeOK`
* `NoRetry`: `Spec => []NoAutomaticRetry`
* `Reviewable`: `Spec => []RunsOnReviewedState`

`NoAutomaticRetry` speaks of committed receipts, but the search of
`run_scheduled` looks at them long before its own receipt is committed. Two
facts carry it over: a COMMIT in flight belongs to the holder of the lock, alive
or surviving as a backend (`InFlight`), so nobody else adds a receipt in
between; and the receipt is stamped no earlier than the period was computed, so
what was before the period then is before it now (`StillDue`, which needs that
`PeriodStart` follows the days: lemma `Periods`). Assumed: `AutomationAssumption`.

The runs `lock` and `unattended` check several machines at once, in `Writers` and
`Unattended`. A step of one machine leaves the variables of the others alone, so it
is a stutter of theirs, and a behaviour of the machines side by side is a behaviour
of each of them: theorem `Alone`, in both proof modules. So what is proved of an
instance (`D!`, `W!`, `G!`) holds of the whole:

* `CleanEnd`, `Meant` and `Versioned`: `WritersSpec => []EndsCleanly`,
  `WritersSpec => []AnswersAreMeant`, `WritersSpec => EntrySpec`
* `BudgetKept` and `RestSpared`: `UnattendedSpec => []BudgetIsKept`,
  `UnattendedSpec => PauseKeepsTheRest`

`CleanEnd` holds for any addresses and positive deadlines. What `EndsCleanly` says of
the end was decided before it. `SessionInv` says that until the cleanup starts nobody
has cancelled anything and no socket was given up (`Unharmed`), so the exception with
which it starts tells the truth; that only the connection's socket can be open once
there is one; and that a cancellation of the cleanup is, at every moment, yet to be
delivered, remembered by `finish_cleanup` or already the exception on its way
(`Telling`): being woken and starting to wait again, any number of times, loses none.
The cleanup's clock is the one of its single deadline, however often its caller is
woken.

`BudgetKept` and `RestSpared` hold for any clients, kinds of request, caps, thresholds
and retries (`ClientParameters`: that these are sets and numbers of the right kind).
A cap counts attempts charged: `CapsHold` says that
what was charged is what was sent, what is held between `Consume` and the end of its
reservation, and what a failed reservation kept back, for every scope; so nothing is charged twice or given back, and what was sent is within
the caps too. The threshold is about a picture of the quota that may be old:
`PicturesAreHonest` says that, while the picture's window lasts, the picture is
at most what is left and the attempts GitHub has served since, and
`AboveThreshold` that what let a client charge an attempt is still so while the
attempt is out. `AnswersAreAwaited` ties responses to attempts in flight, so
that an attempt is charged only while one is left.

`Meant` and `Versioned` hold for any browsers and any number of requests; `EntrySpec`
is the specification of `VersionedEntry`. The row lock is held from the statement that met the version to the end of the
transaction, so that version is still the newest when the transaction commits.
That is what maps every commit to a step of `VersionedEntry` and all else to a
stutter; what a browser was told was true when it was committed, and the
invariant keeps, for each answer under way, the write it speaks of.

`CollectionRun_proofs` has what every kind of run shares. Four parameters tell a
kind (its counters, its empty report, its checkpoints and the places where it
waits for GitHub), `RunMove` says what a step of any kind may do to receipt,
report and attempts, and `RunInv` is kept by every such move (`RunKept`): the
memory is never behind the receipt, requests sent are never ahead of it, and a
finished receipt belongs to a run that is over. `CommitsInFlight` is the other
lemma both kinds live on: whatever a step commits, a crash included, is the one
receipt that was on its way, together with the staged rows.

`DiscoverRun_proofs` proves for any plan, any answers of the search, page size,
limits and budget, and `RefreshRun_proofs` for any tracked repositories, any
history of theirs and any readings of the clock:

| | `DiscoverRun_proofs` | `RefreshRun_proofs` |
|---|---|---|
| `TypeCorrect` | `Spec => []TypeOK` | `Spec => []TypeOK` |
| `Reserved` | `Spec => []ReservedBeforeSent` | `Spec => []ReservedBeforeSent` |
| `Ending` | `Spec => []EndingMatchesReceipt` | `Spec => []EndingMatchesReceipt` |
| `Accounting` | `Spec => []ReceiptMatchesRows` | `Spec => []ReceiptMatchesRows` |
| `Limits` | `Spec => []LimitsHold` | |
| `Completeness` | `Spec => []CompletedMeansDone` | `Spec => []CompletedMeansDone` |
| `Records` | `Spec => [][RecordsAreKept]_vars` | `Spec => [][RecordsAreKept]_vars` |

None of these is inductive alone: the receipt is written from the report, and
the rows from what is staged, long after both were changed. `RowsInv` therefore
says of the memory what `ReceiptMatchesRows` says of the record (`Accounted`),
and that a place where a commit may come has nothing staged that is not counted.
`TallyInv` counts every candidate or target once (`Handled`), which bounds the
counters and, in a discovery, what the plan has left. `CoverInv` follows
"completed" back to the places: as long as nothing failed, all that was passed
is done. A refresh needs `AheadInv` besides: its targets are distinct (lemma
`SelectionIs`), none of those to come was polled, and the reading of the clock
is not behind the newest observation; so a poll that is not at the very instant
of that one is a new observation (`PollIsNew`), and no history is written but at
its end. The assumptions are the modules' `Parameters`: limits are numbers, a
plan is a finite sequence, repositories are finitely many and have numbers.

`CollectionService_proofs` proves for an enrichment, for any repositories,
developers, requests, rows of earlier runs, pages and readings of the clock, the
same facts: `TypeCorrect`, `Accounting` (`Spec => []ReceiptMatchesRows`),
`Completeness` (`Spec => []CompletedMeansDone`) and `Records`
(`Spec => [][RecordsAreKept]_vars`); `ReservedBeforeSent` and
`EndingMatchesReceipt` are in the lemma `Consequences`. The invariant `IInv` has these parts beside `RunInv`:

* `PlaceInv`: where the run stands. A repository in hand was met (`seenRepos`), and a
  place at a profile has somebody whose profile it is.
* `ListedInv`: the contributors read so far are at most what `fetched` counts, and no
  more than the limit, although pages repeat people and a batch may be reused.
* `RowsInv`: as in the other kinds, the account holds of memory and record alike. The
  three counts are cardinalities of what is there more than before the run, so each
  needs that an addition is new exactly when it is counted: a batch by the difference
  that `BatchCounted` takes, an observation by `existing`, which was read before the
  request, and a profile because it is fetched once a run.
* `AheadInv` has the facts that were read before a request and are relied on after it:
  `existing` still says whether there is an observation at this instant, the profile
  in hand was not fetched before and is not newer than `now`, and neither is a batch that
  covers the limit. So histories grow at their ends only, up to the exception that
  `HistoryAdvances` names (lemmas `StaleIsOlder`, `AheadKept`).
* `CoverInv`: as long as nothing failed (`Clean`), every repository met has its batch,
  and every contributor met a profile, except for those still in the queue. It is
  what carries "completed" over a repository named twice and a developer who
  contributes to several: the second time neither is fetched again.

The assumption is `Parameters`: repositories and developers are finitely many,
developers are numbered, rows of earlier runs have the shape of rows, none is yet
fetched by this run, and no observation is newer than the instant its profile is
stamped with, which every run preserves (`Accounted`).

On top of that, for a run of any kind (`ServiceSpec`, under `KindParameters`, the
assumptions of the three kinds):

| Theorem | Property of the run `runs` |
|---|---|
| `KindsTyped` | `KindsAreTyped` |
| `EveryRequestReserved` | `ReservedBeforeSent` |
| `EveryEndingMatches` | `EndingMatchesReceipt` |
| `EveryRowCounted` | `RowsAreCounted` |
| `EveryCompletionDone` | `CompletedIsDone` |
| `EveryLimitHolds` | `LimitsHold` |
| `EveryRecordKept` | `EveryRecordIsKept` |

The kind stays what it was (`KindStays`), and a behaviour of the service with one
kind is a behaviour of that kind's specification (`Discovers`, `Refreshes`,
`Enriches`), so its theorems apply (`ServiceKept`). The theorems of
`DiscoverRun_proofs` and `RefreshRun_proofs` are cited under the renaming that
`CollectionService` uses; `SameDiscoveryStep`, `SameRefreshStep` and the lemmas
beside them show that the operators of the two instances are the same. So all
properties of `runs` but `RunEnds` are theorems.

`Synthesis_proofs` proves for any requests, commands and kinds of artifact,
whatever the cap and the attempts (`Sizes`: these are numbers of the right kind, and `None` is none of
the values it stands beside):

* `ArtifactsCurrent`: `SynthesisSpec => []ArtifactsAreCurrent`
* `RepeatsHit`: `SynthesisSpec => []RepeatsAreHits`

What a client may show depends on where it is (`Sound`): before it calls the model it
has spent nothing, on the way there one unit and at most one call for each attempt of
each of two rounds, and from the answer on it holds an artifact of its own evidence and
release (`Owed`). `RowsAreHeld` ties an uncommitted row to the transaction that will
commit or drop it, which belongs to a client at its COMMIT or outlives a request that was cut off there; such a row may be committed
over a newer one, and it still was answered for its key. `StoreIsEarned` says that whoever an artifact is by was
answered with it, and ended without an error or with the one of having been cut off. `StoreRemembers` is what makes repeats hits: the key of a request that was
served is in the store for good, and a client that calls the model
has a key which no request had that was served before it started; the key does not
change once the evidence is read. One lemma, `Steps`, says what a step of one
client must show for all that to be kept, and every action shows it; `LateEndings` does so for a backend that is left.

`Records_proofs` proves what is stored of GitHub for any repositories, names, plans,
listings, numbers of days and readings of the clock (`TrackingAssumption` and
`RecordsParameters`, the assumptions of the parts: names differ at first, a plan is a finite
sequence of positive limits, the repositories tracked at first are listed once each and the
minimum age is at least a day, as the workflow has it):

* `RowsHold`: `RecordsSpec => []RowsAreTheirs`
* `SearchesRead`: `RecordsSpec => []SearchIsRead`
* `PolledInTurn`: `RecordsSpec => TakenInTurn`
* `LogHolds`: `RecordsSpec => []LogIsSound`
* `HistoryStays`: `RecordsSpec => HistoryIsKept`

A row takes a name only when no other row has it (`NameIsFree`), and observations come
from whoever holds the row's name when it is used; since a name is held by one repository, which the
check of the stable ID finds, nothing else is recorded (`NamesIInv`, `TakesAName`).
In a search, `FullPages` says that all pages before the present one were full, so their
number times their size is what was yielded, and no more can be yielded than there are
candidates left. `Counted` holds the requests against the pages of the plan that are
behind (`Behind`): each request is for a page that is not, and puts it there
(`AskedFor`, `Requested`). While a listing holds still, `Beginning` says that what was yielded is its
beginning; the next page continues it (`Continues`), and a search ends only at the
end of the listing or of what is wanted. The turns of a refresh are a count along the order;
that each number up to how many are due is the turn of exactly one (`EachHasATurn`,
`LaterTurn`) makes the targets due, once each and in order (`Selected`), and `RotationIInv`
keeps them so while those polled are moved to the end (`MovedLast`). It adds that every repository that is due and
stands before a target to come was tried or is itself a target before it (`NonePassedOver`), which is `NoOvertaking`, and that an observation
comes a minimum age after the one before, since only who is due is ever a target and nobody twice. In the log a write adds one row
at a new instant or corrects the row of its own (`Wrote`). The rows of one repository are
in the order of their instants only where the clock is compared first, which is
what lets all readers of the collector's log agree (`InOrder`).

Only model-checked:

* Liveness: `LockIsFreed`, `WaitsEnd`, `RunEnds`, `LinksCatchUp`, `NothingStalls`.
  Fairness and ENABLED are out of the provers' reach.
* `ReportIsSound`, `PagesAgree`, `ScoresAreEarned`, `ReportsAreEarned`,
  `GraphIsFaithful`, `ReportsAgree` and `EvidenceDecides`: the coverage, the scores, the graph and the
  evidence are folds over data, and what a fold computes for every input takes an
  induction over data, which the installed provers cannot do.

## 5. Not modelled

Listed with reasons in `PROJECT.json`. In short:

* text and layout: prompts' wording, payload serialisers, command line output, the web client;
* API pagination, text search, readiness, and access checks: they hold no state;
* the iterative centrality of `graph/metrics.py` and floating-point rounding in scores;
* construction and digest of a discovery plan;
* what a run does with a 403 that is a rate limit under another text: `GitHubClient`
  has the answer, but it is not composed with `CollectionRun`;
* deployment checks, engine profiles and settings: configuration, and catalogue
  queries against a live server;
* the developers of a topic (`topic_developer_aggregates`) and the confidence of a relevance;
* momentum while a graph is loaded, a constant of `GraphLoad`;
* initialisation and the recovery drill, operator procedures over files and external tools;
* a database server that acknowledges a COMMIT and then loses it.

## 6. Plan

1. Initialisation and recovery: a drill interrupted at any step.
2. The plan of a discovery and its digest, and its review.
3. `GitHubClient` composed with `CollectionRun`, for rate limits that end a run
   and those that are taken for a missing permission.
4. Pagination of the API over lists that change.

Proofs to add: that the coverage of a report adds up, once what a fold computes can be
proved by induction.
