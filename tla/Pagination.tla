----------------------------- MODULE Pagination -----------------------------
(***************************************************************************)
(* The searches of a plan, page by page (paginate in github/client.py),    *)
(* over listings that shift while they are read, with pages that come back *)
(* short or without the link to the next one.  DiscoverRun takes a search  *)
(* for any sequence; this module says which sequence it is.                *)
(***************************************************************************)
EXTENDS Naturals, FiniteSets, Sequences, SequencesExt, Functions

CONSTANTS
  Item,           \* what the searches find
  Limit,          \* the limits of the plan's cohorts, in order, positive
  PerPage,        \* per_page of the plan, positive
  MaxCandidates,  \* limits.max_candidates
  Moved

VARIABLES
  listing,   \* what GitHub lists now for the present cohort
  initial,   \* what it listed when the cohort began, or Moved: it has changed
             \* since, a page was short, or was not linked though more followed
  cohort,    \* the cohort being read, or 0
  most,      \* max_items of its search
  page, got, \* the page to ask for, and what was yielded
  pc,        \* next, ask, truncated, refused, done
  asked,     \* requests, counted as far as one beyond the plan
  examined

github == <<listing, initial>>
vars == <<github, cohort, most, page, got, pc, asked, examined>>

AtMost(a, b) == IF a < b THEN a ELSE b
PageSize == AtMost(PerPage, most)

Listings == {s \in BoundedSeq(Item, Cardinality(Item)) : IsInjective(s)}

Parameters ==
  /\ IsFiniteSet(Item) /\ Moved \notin Listings
  /\ Limit \in Seq(Nat \ {0}) /\ PerPage \in Nat \ {0} /\ MaxCandidates \in Nat

PagesOf(limit) == (limit + PerPage - 1) \div PerPage
PlannedPages == UNION {{c} \X (1..PagesOf(Limit[c])) : c \in DOMAIN Limit}   \* make_plan
Planned == Cardinality(PlannedPages)

TypeOK ==
  /\ listing \in Listings /\ initial \in Listings \cup {Moved}
  /\ cohort \in 0..Len(Limit) /\ most \in 0..MaxCandidates /\ (cohort > 0 => most > 0)
  /\ got \in Seq(Item) /\ page \in 1..Planned + 1
  /\ pc \in {"next", "ask", "truncated", "refused", "done"}
  /\ asked \in 0..Planned + 1 /\ examined \in Nat

Init ==
  /\ listing = <<>> /\ initial = <<>> 
  /\ cohort = 0 /\ most = 0 /\ page = 1 /\ got = <<>> /\ pc = "next"
  /\ asked = 0 /\ examined = 0
---------------------------------------------------------------------------
NextCohort ==
  /\ pc = "next" /\ cohort < Len(Limit) /\ examined < MaxCandidates
  /\ cohort' = cohort + 1 /\ most' = AtMost(Limit[cohort'], MaxCandidates - examined)
  /\ \E s \in Listings : listing' = s /\ initial' = s
  /\ page' = 1 /\ got' = <<>> /\ pc' = "ask"
  /\ UNCHANGED <<asked, examined>>

NoCandidatesLeft ==
  /\ pc = "next" /\ cohort < Len(Limit) /\ examined = MaxCandidates
  /\ pc' = "truncated" /\ UNCHANGED <<github, cohort, most, page, got, asked, examined>>

AllRead ==
  /\ pc = "next" /\ cohort = Len(Limit)
  /\ pc' = "done" /\ UNCHANGED <<github, cohort, most, page, got, asked, examined>>

(* A page of the listing as it is now; GitHub may withhold items of it.    *)
SamePage == SubSeq(listing, 1, AtMost(PageSize, Len(listing)))   \* mutant: no page number is sent

OnPage == SubSeq(listing, (page - 1) * PageSize + 1, AtMost(page * PageSize, Len(listing)))
MoreFollow == Len(listing) > page * PageSize

Wanted == pc = "ask" /\ Len(got) < most

Yielded(items) == SubSeq(items, 1, AtMost(Len(items), most - Len(got)))

EndCohort ==   \* a cohort cut short by the candidates left ends the run
  pc' = (IF most < Limit[cohort] THEN "truncated" ELSE "next") /\ UNCHANGED page

Proceed(items, linked) ==
  IF linked /\ Len(items) = PageSize THEN page' = page + 1 /\ UNCHANGED pc ELSE EndCohort

Ask ==
  /\ Wanted
  /\ asked' = AtMost(asked + 1, Planned + 1)
  /\ \E items \in {OnPage} \cup {RemoveAt(OnPage, i) : i \in DOMAIN OnPage}, linked \in {MoreFollow, FALSE} :
       /\ got' = got \o Yielded(items)
       /\ examined' = examined + Len(Yielded(items))
       /\ initial' = IF Len(items) < Len(OnPage) \/ linked # MoreFollow THEN Moved ELSE initial
       /\ Proceed(items, linked)
  /\ UNCHANGED <<listing, cohort, most>>

Enough ==   \* max_items reached
  /\ pc = "ask" /\ Len(got) = most /\ EndCohort
  /\ UNCHANGED <<github, cohort, most, got, asked, examined>>

Refuse ==   \* incomplete_results, a link to elsewhere, not an array
  /\ Wanted /\ asked' = AtMost(asked + 1, Planned + 1) /\ pc' = "refused"
  /\ UNCHANGED <<github, cohort, most, page, got, examined>>

Shift ==   \* repositories come, go and change places
  /\ pc = "ask"
  /\ \E s \in Listings \ {listing} : listing' = s
  /\ initial' = Moved
  /\ UNCHANGED <<cohort, most, page, got, pc, asked, examined>>

Read == NextCohort \/ NoCandidatesLeft \/ AllRead \/ Ask \/ Enough
Next == Read \/ Refuse \/ Shift
Spec == Init /\ [][Next]_vars
Fairness == WF_vars(Ask) /\ WF_vars(Read)   \* requests are answered or time out
---------------------------------------------------------------------------
(* The plan's count of search requests is an upper bound of those sent, no *)
(* cohort yields more than its limit, and all of them no more than the     *)
(* candidates allowed, however the listings shift.                         *)
WithinPlan ==
  /\ asked <= Planned /\ examined <= MaxCandidates
  /\ cohort > 0 => Len(got) <= Limit[cohort]

(* A listing that holds still, read without short pages, is read from its  *)
(* beginning without a gap or a repetition, as far as the limits allow.    *)
StillListingIsRead ==
  cohort > 0 /\ pc \in {"next", "truncated", "done"} /\ initial # Moved =>
    got = SubSeq(initial, 1, AtMost(most, Len(initial)))

(* A search reads what it was planned to read and asks no more for it.     *)
SearchIsRead == TypeOK /\ WithinPlan /\ StillListingIsRead

(* Listings that never hold still do not keep a search from ending.        *)
ReadingEnds == <>(pc \in {"truncated", "refused", "done"})
=============================================================================
