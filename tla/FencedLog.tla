----------------------------- MODULE FencedLog -----------------------------
(***************************************************************************)
(* What the collection lock promises, with no connection, backend or       *)
(* cancellation in sight: writers own a shared history of transactions one *)
(* at a time, each at most once, and only the owner extends the history.   *)
(***************************************************************************)
EXTENDS Sequences, Naturals

CONSTANTS Writer, NoWriter

VARIABLES
  owner,    \* the writer that may extend the history, or NoWriter
  retired,  \* writers that may not own the history any more
  history   \* who committed each transaction, in commit order

vars == <<owner, retired, history>>

Init == owner = NoWriter /\ retired = {} /\ history = <<>>

Claim(w) ==
  /\ owner = NoWriter
  /\ w \notin retired
  /\ owner' = w
  /\ UNCHANGED <<retired, history>>

Extend(w) ==
  /\ owner = w
  /\ history' = Append(history, w)
  /\ UNCHANGED <<owner, retired>>

(* A writer is through, whether it owned the history or never came to.     *)
Retire(w) ==
  /\ w \notin retired
  /\ owner' = IF owner = w THEN NoWriter ELSE owner
  /\ retired' = retired \cup {w}
  /\ UNCHANGED history

Next == \E w \in Writer : Claim(w) \/ Extend(w) \/ Retire(w)

Spec == Init /\ [][Next]_vars
=============================================================================
