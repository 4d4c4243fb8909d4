--------------------------- MODULE QualityReport ---------------------------
(***************************************************************************)
(* `collection quality` and `collection stats` (cli/collection.py,         *)
(* services/quality.py, services/collection_diagnostics.py,                *)
(* analytics/quality.py): a report read statement by statement in one      *)
(* REPEATABLE READ transaction while a collection commits.                 *)
(***************************************************************************)
EXTENDS Series

CONSTANTS
  Repo, Developer,
  Category, Recipe,   \* curated categories and the recipes they are found by
  Catalog,            \* the categories of the catalog the report is run with
  Day, Stars,         \* days observed, star counts
  StaleAfter,         \* days after which an observation is stale
  MaxCommits          \* bound: commits of the collection

VARIABLES
  now,        \* the day
  db,         \* tables as committed
  commits,    \* commits so far
  pc,         \* the statement the report is at
  assessed,   \* --as-of, or the day the command was started
  view,       \* the snapshot its transaction reads
  report      \* the parts read so far

vars == <<now, db, commits, pc, assessed, view, report>>

NoRows == [snaps |-> [r \in {} |-> <<>>], prov |-> {}, links |-> [d \in Developer |-> <<>>],
           profiles |-> [d \in Developer |-> {}], receipts |-> <<>>]

TypeOK ==
  /\ now \in Day /\ commits \in 0..MaxCommits /\ assessed \in Day \cup {None}
  /\ pc \in {"idle", "started", "anchor", "graph", "profiles", "receipts", "done", "refused", "failed"}
  /\ \A i \in DOMAIN db.receipts : db.receipts[i].new <= db.receipts[i].requests
  /\ DOMAIN view.snaps \subseteq DOMAIN db.snaps

Init ==
  /\ now = Min(Day) /\ commits = 0
  /\ db = NoRows /\ view = NoRows
  /\ pc = "idle" /\ assessed = None /\ report = <<>>

---------------------------------------------------------------------------
(* The collection: a receipt, a reservation before every request, and the  *)
(* rows of a request together with what the receipt says of them.          *)
Last == Len(db.receipts)
Open == \E i \in DOMAIN db.receipts : db.receipts[i].status = "running"
Running(kind) == Open /\ db.receipts[Last].kind = kind

Used == db.receipts[Last].new + db.receipts[Last].listed + db.receipts[Last].fetched

Commit(tables) ==
  /\ commits < MaxCommits /\ commits' = commits + 1
  /\ db' = tables
  /\ UNCHANGED <<now, pc, assessed, view, report>>

BeginRun(kind) ==
  /\ ~Open
  /\ Commit([db EXCEPT !.receipts =
       Append(@, [kind |-> kind, status |-> "running", requests |-> 0, new |-> 0, listed |-> 0, fetched |-> 0])])

Reserve ==
  /\ Open
  /\ db.receipts[Last].requests = Used
  /\ Commit([db EXCEPT !.receipts[Last].requests = @ + 1])

Answered == db.receipts[Last].requests > Used

SaveRepository(r, category, recipe) ==
  /\ Running("discover") /\ Answered
  /\ r \notin DOMAIN db.snaps
  /\ \E n \in Stars : Commit([db EXCEPT
       !.snaps = [q \in DOMAIN @ \cup {r} |-> IF q = r THEN [day \in {now} |-> [stars |-> n]] ELSE @[q]],
       !.prov = @ \cup {<<r, category, recipe>>},
       !.receipts[Last].new = @ + 1])

MeetAgain(r, category, recipe) ==   \* known already: provenance, and an observation
  /\ Running("discover")
  /\ r \in DOMAIN db.snaps /\ <<r, category, recipe>> \notin db.prov
  /\ \E n \in Stars : Commit([db EXCEPT
       !.prov = @ \cup {<<r, category, recipe>>},
       !.snaps[r] = [day \in DOMAIN @ \cup {now} |-> IF day = now THEN [stars |-> n] ELSE @[day]]])

SaveLink(d) ==
  /\ Running("enrich") /\ Answered
  /\ \E n \in Stars : Commit([db EXCEPT
       !.links[d] = [day \in DOMAIN @ \cup {now} |-> IF day = now THEN [n |-> n] ELSE @[day]],
       !.receipts[Last].listed = @ + 1])

SaveProfile(d) ==
  /\ Running("enrich") /\ Answered
  /\ Commit([db EXCEPT !.profiles[d] = @ \cup {now}, !.receipts[Last].fetched = @ + 1])

FinishRun ==
  /\ Open
  /\ \E status \in {"completed", "partial"} : Commit([db EXCEPT !.receipts[Last].status = status])

Later ==
  /\ pc \in {"idle", "started"} /\ \E day \in Day : day > now
  /\ now' = Min({day \in Day : day > now})
  /\ UNCHANGED <<db, commits, pc, assessed, view, report>>

---------------------------------------------------------------------------
(* analytics/quality.py: coverage of the repositories.                     *)
Windows == {1, 7, 30}
Statuses == {"complete", "partial", "unavailable"}

StatusOf(s, days) ==
  LET d == IF DOMAIN s = {} THEN None ELSE RepositoryDelta(s, "stars", days)
  IN IF d = None THEN "unavailable" ELSE IF d.complete THEN "complete" ELSE "partial"

StarBand(s) ==
  IF DOMAIN s = {} THEN "unknown"
  ELSE LET n == s[Latest(s)].stars
       IN CASE n < 10 -> "0-9" [] n \in 10..99 -> "10-99" [] n \in 100..999 -> "100-999"
            [] n \in 1000..9999 -> "1000-9999" [] OTHER -> "10000+"

Members(prov, category) == {p[1] : p \in {q \in prov : q[2] = category}}

Memberships(prov, categories) == Total(categories, LAMBDA c : Cardinality(Members(prov, c)))

Coverage(snaps, prov) ==
  LET repos == DOMAIN snaps
      found == {p[2] : p \in prov}
  IN [total |-> Cardinality(repos),
      observations |-> Total(repos, LAMBDA r : Cardinality(DOMAIN snaps[r])),
      counts |-> [n \in 0..3 |->
        Cardinality({r \in repos : Min({3, Cardinality(DOMAIN snaps[r])}) = n})],
      windows |-> [w \in Windows |-> [status \in Statuses |->
        Cardinality({r \in repos : StatusOf(snaps[r], w) = status})]],
      bands |-> [b \in {StarBand(snaps[r]) : r \in repos} |->
        Cardinality({r \in repos : StarBand(snaps[r]) = b})],
      stale |-> Cardinality({r \in repos : assessed - Latest(snaps[r]) >= StaleAfter}),
      categories |-> [c \in Catalog \cup found |-> Members(prov, c)],
      outside |-> found \ Catalog,
      with |-> Cardinality({p[1] : p \in prov}),
      without |-> Cardinality(repos) - Cardinality({p[1] : p \in prov}),
      memberships |-> Memberships(prov, Catalog \cup found),
      multiple |-> Cardinality({r \in repos : Cardinality({c \in found : r \in Members(prov, c)}) > 1})]

(* The newest observation of anything.                                     *)
NewestObservation(t) ==
  LET days == UNION ({DOMAIN t.snaps[r] : r \in DOMAIN t.snaps}
                     \cup {DOMAIN t.links[d] : d \in Developer} \cup {t.profiles[d] : d \in Developer})
  IN IF days = {} THEN None ELSE Max(days)

Measured(s, reference, days) ==
  LET w == WindowDelta(s, "n", reference, days) IN IF w = None THEN FALSE ELSE w.delta # None
CompleteIn(s, reference, days) == Measured(s, reference, days) /\ WindowDelta(s, "n", reference, days).complete

DeveloperCoverage(links, profiles, reference) ==
  LET known == {d \in Developer : DOMAIN links[d] # {} \/ profiles[d] # {}}
  IN [total |-> Cardinality(known),
      profiles |-> Total(known, LAMBDA d : Cardinality(profiles[d])),
      observations |-> Total(known, LAMBDA d : Cardinality(DOMAIN links[d])),
      usable |-> [w \in Windows |-> Cardinality({d \in known : Measured(links[d], reference, w)})],
      complete |-> [w \in Windows |-> Cardinality({d \in known : CompleteIn(links[d], reference, w)})]]

(* collection_diagnostics.py: what the receipts say was spent.             *)
Stats(receipts) ==
  LET all == DOMAIN receipts
      discovery == {i \in all : receipts[i].kind = "discover"}
      done == {i \in discovery : receipts[i].status = "completed"}
      spent == Total(done, LAMBDA i : receipts[i].requests)
      measured == Total(done, LAMBDA i : receipts[i].new)
  IN [runs |-> Cardinality(all),
      requests |-> Total(all, LAMBDA i : receipts[i].requests),
      partial |-> Cardinality({i \in all : receipts[i].status # "completed"}),
      new |-> Total(discovery, LAMBDA i : receipts[i].new),
      listed |-> Total(all, LAMBDA i : receipts[i].listed),
      fetched |-> Total(all, LAMBDA i : receipts[i].fetched),
      perNew |-> IF measured = 0 THEN None ELSE <<spent, measured>>]

---------------------------------------------------------------------------
(* The command.  The transaction sees what was committed when its first    *)
(* statement ran.                                                          *)
SeenNow == db   \* mutant: READ COMMITTED
Seen == view

Step(from, to, part) ==
  /\ pc = from /\ pc' = to
  /\ report' = Append(report, part)
  /\ UNCHANGED <<now, db, commits, assessed, view>>

Refuse(from) == pc = from /\ pc' = "refused" /\ UNCHANGED <<now, db, commits, assessed, view, report>>

Start ==
  /\ pc = "idle" /\ pc' = "started"
  /\ \E day \in Day : (day = now \/ day = Min(Day)) /\ assessed' = day   \* default, or an early --as-of
  /\ UNCHANGED <<now, db, commits, view, report>>

Ahead(days) == \E day \in days : day > assessed

ReadCoverage ==
  /\ pc = "started"
  /\ view' = db
  /\ IF \E r \in DOMAIN db.snaps : Ahead(DOMAIN db.snaps[r])
     THEN pc' = "refused" /\ UNCHANGED report
     ELSE pc' = "anchor" /\ report' = <<Coverage(db.snaps, db.prov)>>
  /\ UNCHANGED <<now, db, commits, assessed>>

ReadAnchor ==
  LET anchor == NewestObservation(Seen)
      ahead == IF anchor = None THEN FALSE ELSE anchor > assessed
  IN /\ pc = "anchor"
     /\ IF ahead THEN Refuse("anchor")
        ELSE Step("anchor", "graph", IF anchor = None THEN assessed ELSE anchor)

ReadGraph == Step("graph", "profiles", [repos |-> DOMAIN Seen.snaps, links |-> Seen.links])

ReadProfiles ==
  /\ pc = "profiles"
  /\ IF \E d \in Developer : Ahead(Seen.profiles[d]) THEN Refuse("profiles")
     ELSE Step("profiles", "receipts", DeveloperCoverage(report[3].links, Seen.profiles, report[2]))

ReadReceipts == Step("receipts", "done", Stats(Seen.receipts))

DatabaseFails ==
  /\ pc \in {"started", "anchor", "graph", "profiles", "receipts"} /\ pc' = "failed"
  /\ UNCHANGED <<now, db, commits, assessed, view, report>>

Next ==
  \/ \E kind \in {"discover", "enrich"} : BeginRun(kind)
  \/ Reserve \/ FinishRun \/ Later
  \/ \E r \in Repo, c \in Category, x \in Recipe : SaveRepository(r, c, x) \/ MeetAgain(r, c, x)
  \/ \E d \in Developer : SaveLink(d) \/ SaveProfile(d)
  \/ Start \/ ReadCoverage \/ ReadAnchor \/ ReadGraph \/ ReadProfiles \/ ReadReceipts \/ DatabaseFails

Spec == Init /\ [][Next]_vars
---------------------------------------------------------------------------
Done == pc = "done"

(* DATA_QUALITY.md: a consistent committed snapshot while a collection     *)
(* works.  The receipts account for exactly the repositories and contacts  *)
(* the coverage shows, the graph has the covered repositories, and the     *)
(* anchor is the newest observation the report counts.                     *)
ReportIsOneInstant ==
  Done =>
    /\ report[5].new = report[1].total
    /\ report[5].listed >= report[4].observations /\ report[5].fetched >= report[4].profiles
    /\ Cardinality(report[3].repos) = report[1].total
    /\ report[5].requests >= report[5].new + report[5].listed + report[5].fetched

(* Nothing that was observed after the assessment is in a finished report: *)
(* it is refused, whichever table the observation is in.                   *)
NoFutureInReport ==
  Done => /\ report[2] <= assessed
          /\ \A r \in DOMAIN view.snaps : ~Ahead(DOMAIN view.snaps[r])
          /\ \A d \in Developer : ~Ahead(view.profiles[d])

(* And it is refused for nothing else.                                     *)
RefusedForTheFuture ==
  pc = "refused" => NewestObservation(view) # None /\ NewestObservation(view) > assessed

ReportIsOfOneInstant == TypeOK /\ ReportIsOneInstant /\ NoFutureInReport /\ RefusedForTheFuture

(* DATA_QUALITY.md: a repository found by two recipes of a category counts *)
(* once there, once in each category and once in the total; what is left   *)
(* over by the sum of the categories is in more than one of them.          *)
CoverageAddsUp ==
  Done =>
    LET c == report[1]
    IN /\ Total(0..3, LAMBDA n : c.counts[n]) = c.total
       /\ \A w \in Windows : Total(Statuses, LAMBDA s : c.windows[w][s]) = c.total
       /\ Total(DOMAIN c.bands, LAMBDA b : c.bands[b]) = c.total
       /\ c.with + c.without = c.total
       /\ Cardinality(Category) = 2 => c.memberships = c.with + c.multiple

ReportIsSound == ReportIsOfOneInstant /\ CoverageAddsUp
=============================================================================
