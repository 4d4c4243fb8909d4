------------------------------ MODULE Tracking ------------------------------
(***************************************************************************)
(* Which repository a row stands for, while GitHub renames and transfers   *)
(* repositories: search results that may be old when they are used, the    *)
(* checks of the stable ID, the unique index on full names, and the link   *)
(* from a repository to its owner, who is known only once some enrichment  *)
(* saw him.  Observations are kept apart: see Observations.                *)
(***************************************************************************)
EXTENDS Naturals

CONSTANTS
  Repo, Name, Developer,
  None,         \* no row, no name, no developer, no search result
  HeldBy,       \* the name each repository has at first
  MaxChanges    \* bound: renames and transfers on GitHub

ASSUME TrackingAssumption ==
  /\ None \notin Repo \cup Name \cup Developer
  /\ HeldBy \in [Repo -> Name]
  /\ \A r, q \in Repo : HeldBy[r] = HeldBy[q] => r = q

VARIABLES
  name, owner,  \* GitHub: the name and the owner of each repository
  changes,
  row,          \* the row of a repository: its name and owner link, or None
  known,        \* developers that have a row
  candidate,    \* the search result in hand, or None
  recorded      \* whose data the observations of each row hold

github == <<name, owner, changes>>
rows == <<row, known, recorded>>
vars == <<github, rows, candidate>>

Init ==
  /\ name = HeldBy
  /\ owner \in [Repo -> Developer]
  /\ changes = 0
  /\ row = [r \in Repo |-> None]
  /\ known = {}
  /\ candidate = None
  /\ recorded = [r \in Repo |-> {}]

Tracked == {r \in Repo : row[r] # None}

(* GET /repos/{owner}/{name}: redirects are not followed.                  *)
At(n) == IF \E r \in Repo : name[r] = n THEN CHOOSE r \in Repo : name[r] = n ELSE None

(* ix_repositories_full_name                                               *)
NameIsFree(r, n) == \A q \in Tracked \ {r} : row[q].name # n

---------------------------------------------------------------------------
(* GitHub.                                                                 *)
Rename(r, n) ==
  /\ changes < MaxChanges
  /\ At(n) = None
  /\ name' = [name EXCEPT ![r] = n]
  /\ changes' = changes + 1
  /\ UNCHANGED <<owner, rows, candidate>>

Transfer(r, d) ==
  /\ changes < MaxChanges
  /\ owner[r] # d
  /\ owner' = [owner EXCEPT ![r] = d]
  /\ changes' = changes + 1
  /\ UNCHANGED <<name, rows, candidate>>

---------------------------------------------------------------------------
(* Discovery: a search result, and stage_lightweight some time later.      *)
Search(r) ==
  /\ candidate = None
  /\ candidate' = [repo |-> r, name |-> name[r]]
  /\ UNCHANGED <<github, rows>>

OwnerLink(r, old) == IF owner[r] \in known THEN owner[r] ELSE old

NeverFollow ==   \* mutant: a known row keeps the name it was found under
  /\ candidate.repo \in Tracked
  /\ UNCHANGED rows

Follow ==
  LET r == candidate.repo IN
  /\ r \in Tracked
  /\ NameIsFree(r, candidate.name)
  /\ row' = [row EXCEPT ![r].name = candidate.name]
  /\ UNCHANGED <<known, recorded>>

AddUnchecked ==   \* mutant: the detail's ID is not compared
  LET r == candidate.repo IN
  /\ r \notin Tracked
  /\ At(candidate.name) # None
  /\ NameIsFree(r, candidate.name)
  /\ row' = [row EXCEPT ![r] = [name |-> candidate.name, owner |-> OwnerLink(r, None)]]
  /\ recorded' = [recorded EXCEPT ![r] = @ \cup {At(candidate.name)}]
  /\ UNCHANGED known

(* get_repository reads the detail under the candidate's name; another ID  *)
(* or a name in use rolls back.                                            *)
Add ==
  LET r == candidate.repo IN
  /\ r \notin Tracked
  /\ At(candidate.name) = r
  /\ NameIsFree(r, candidate.name)
  /\ row' = [row EXCEPT ![r] = [name |-> candidate.name, owner |-> OwnerLink(r, None)]]
  /\ recorded' = [recorded EXCEPT ![r] = @ \cup {At(candidate.name)}]
  /\ UNCHANGED known

Rejected ==
  LET r == candidate.repo IN
  /\ \/ ~NameIsFree(r, candidate.name)
     \/ r \notin Tracked /\ At(candidate.name) # r
  /\ UNCHANGED rows

Stage ==
  /\ candidate # None
  /\ Follow \/ Add \/ Rejected
  /\ candidate' = None
  /\ UNCHANGED github

---------------------------------------------------------------------------
(* A poll reads the repository under the row's name and stops unless it    *)
(* is the same one; then the name is the row's already.                    *)
Refresh(r) ==
  /\ r \in Tracked
  /\ At(row[r].name) = r
  /\ row' = [row EXCEPT ![r].owner = OwnerLink(r, @)]
  /\ recorded' = [recorded EXCEPT ![r] = @ \cup {At(row[r].name)}]
  /\ UNCHANGED <<github, known, candidate>>

(* Enrichment has the same check and gives the contributors rows.          *)
Enrich(r, d) ==
  /\ r \in Tracked
  /\ At(row[r].name) = r
  /\ known' = known \cup {d}
  /\ UNCHANGED <<github, row, recorded, candidate>>

---------------------------------------------------------------------------
Next ==
  \/ Stage
  \/ \E r \in Repo :
       \/ Search(r) \/ Refresh(r)
       \/ \E n \in Name : Rename(r, n)
       \/ \E d \in Developer : Transfer(r, d) \/ Enrich(r, d)

Spec == Init /\ [][Next]_vars

(* A search result that was taken is staged, and a refresh comes to every  *)
(* row that has its repository's name (RefreshRotation).  Nothing says     *)
(* that a search finds a repository again.                                 *)
Fairness ==
  /\ WF_vars(Stage)
  /\ \A r \in Repo : WF_vars(Refresh(r))

(* Behaviours in which every repository is found again and again.          *)
FoundAgain == \A r \in Repo : SF_vars(Search(r))

---------------------------------------------------------------------------
(* Properties.                                                             *)

TypeOK ==
  /\ name \in [Repo -> Name]
  /\ row \in [Repo -> [name : Name, owner : Developer \cup {None}] \cup {None}]
  /\ known \subseteq Developer
  /\ \A r, q \in Tracked : row[r].name = row[q].name => r = q

(* A row never holds observations of another repository, however names     *)
(* moved between a search, a detail request and a poll.                    *)
NoMixUp == \A r \in Repo : recorded[r] \subseteq {r}

(* Once GitHub is quiet, a tracked repository that searches keep finding   *)
(* gets its present name, unless the row of another one has that name,     *)
(* which is then out of date itself.                                       *)
Found(r) == IF candidate = None THEN FALSE ELSE candidate.repo = r
InItsPlace(r) == \E q \in Tracked \ {r} : row[q].name = name[r]

NamesCatchUp ==
  \A r \in Repo :
    []<>Found(r) => <>[](r \in Tracked => row[r].name = name[r] \/ InItsPlace(r))

(* ... and a row that has its name gets the link to the owner, if he has a *)
(* row.                                                                    *)
OwnersCatchUp ==
  <>[](\A r \in Tracked :
         row[r].name = name[r] /\ owner[r] \in known => row[r].owner = owner[r])

(* "Repository renames found through discovery update identity names": no  *)
(* row stays behind for ever.  Rows whose repositories have exchanged      *)
(* their names do: each waits for the other's old one.                     *)
RenamesAreFollowed == <>[](\A r \in Tracked : row[r].name = name[r])
=============================================================================
