-------------------------------- MODULE Writers --------------------------------
(***************************************************************************)
(* What keeps writers of one database apart: the collection lock, the      *)
(* sessions it runs on, and the versions of workspace entries.  The three  *)
(* machines share no state: a behaviour moves one of them, the others rest.*)
(***************************************************************************)
EXTENDS CollectionLock

CONSTANTS Host, ConnectSeconds, IoSeconds, Browser, NoBrowser, MaxSends

VARIABLES
  part,
  at, waited, spent, sock, conn, child, woken, cancelled, raised, uncertain,
  asked, abandoned,
  row, newest, locker, shown, request, sends, result, turn, answer, history

session == <<at, waited, spent, sock, conn, child, woken, cancelled, raised,
             uncertain, asked, abandoned>>
entry == <<row, newest, locker, shown, request, sends, result, turn, answer, history>>

D == INSTANCE Deadlines WITH pc <- at
W == INSTANCE Workspace WITH pc <- turn

ASSUME SessionParameters == D!Parameters
ASSUME EntryParameters == W!Parameters

WritersInit == Init /\ D!Init /\ W!Init /\ part \in {"lock", "session", "entry"}

WritersNext ==
  \/ part = "lock" /\ Next /\ UNCHANGED <<part, session, entry>>
  \/ part = "session" /\ D!Next /\ UNCHANGED <<part, vars, entry>>
  \/ part = "entry" /\ W!Next /\ UNCHANGED <<part, vars, session>>

WritersSpec == WritersInit /\ [][WritersNext]_<<part, vars, session, entry>>

WritersFairness == \/ part = "lock" /\ Fairness
                   \/ part = "session" /\ D!Fairness
                   \/ part = "entry" /\ W!Fairness

(* Deadlines: what a session leaves behind and what it says.               *)
EndsCleanly == D!EndsCleanly

(* Workspace: an answer tells what became of the edit, the entry is a      *)
(* versioned entry.                                                        *)
AnswersAreMeant == W!AnswersAreMeant
EntrySpec == W!EntrySpec

(* Both: whoever waits, for a session or for a row, comes to an end.       *)
WaitsEnd == D!CleanupEnds /\ W!EveryRequestEnds
=============================================================================
