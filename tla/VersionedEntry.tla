--------------------------- MODULE VersionedEntry ---------------------------
(***************************************************************************)
(* What an optimistic editor promises: whoever replaces or erases an entry *)
(* had seen exactly the version that goes, and every version is new, so    *)
(* that a version never means two different contents.                      *)
(***************************************************************************)
EXTENDS Naturals

CONSTANTS
  Author, NoAuthor,
  Version            \* the versions an entry can get, natural numbers

VARIABLES
  current,  \* the version of the entry, or 0 when there is none
  newest,   \* the last version the entry had
  seen,     \* the version each author goes by
  last      \* who changed the entry last

vars == <<current, newest, seen, last>>

Init ==
  /\ current = 0 /\ newest = 0
  /\ seen = [a \in Author |-> 0]
  /\ last = NoAuthor

(* An author may look at an old version: a page open for a while.          *)
Look(a) ==
  /\ \E v \in 0..newest : seen' = [seen EXCEPT ![a] = v]
  /\ UNCHANGED <<current, newest, last>>

Change(a) ==
  /\ seen[a] = current
  /\ last' = a
  /\ UNCHANGED seen

Replace(a) ==
  /\ Change(a)
  /\ current' \in Version /\ current' > newest
  /\ newest' = current'

Erase(a) ==
  /\ Change(a)
  /\ current # 0
  /\ current' = 0
  /\ UNCHANGED newest

Next == \E a \in Author : Look(a) \/ Replace(a) \/ Erase(a)

Spec == Init /\ [][Next]_vars
=============================================================================
