------------------------------ MODULE Workspace ------------------------------
(***************************************************************************)
(* Private workspace records (api/routes/workspace.py): browsers that show *)
(* one entry, edit it, delete it and create it again, each request in a    *)
(* transaction of its own.  PostgreSQL gives an uncommitted change its row *)
(* lock, and lets a conditional write that finds the row locked wait and   *)
(* look again.                                                             *)
(***************************************************************************)
EXTENDS Naturals, Sequences

CONSTANTS
  Browser,      \* open editors, each with at most one request in progress
  NoBrowser,    \* stands for no lock, not a browser
  MaxSends      \* bound: requests each browser sends

Parameters == NoBrowser \notin Browser

VARIABLES
  row,      \* the committed version of the entry, or 0 for no row
  newest,   \* the last version drawn (uuid4: never drawn twice)
  locker,   \* whose uncommitted change holds the row, or NoBrowser
  shown,    \* the version each browser shows, 0 for no entry
  request,  \* what each browser sent last
  sends,    \* how often each browser sent one
  result,   \* the version its change gives the entry, 0 if it removes it
  pc,       \* "idle", "sent", "staged" or "answer"
  answer,   \* "none", "ok", "conflict", or "lost" for an error or silence
  history   \* committed changes: who made which edit, from and to what

database == <<row, newest, locker, history>>
browser == <<shown, request, sends, result, answer>>
vars == <<database, browser, pc>>

NoRequest == [kind |-> "none", base |-> 0, edit |-> 0]

Init ==
  /\ row = 0 /\ newest = 0 /\ locker = NoBrowser
  /\ history = <<>>
  /\ shown = [b \in Browser |-> 0]
  /\ request = [b \in Browser |-> NoRequest]
  /\ sends = [b \in Browser |-> 0]
  /\ result = [b \in Browser |-> 0]
  /\ pc = [b \in Browser |-> "idle"]
  /\ answer = [b \in Browser |-> "none"]

Goto(b, l) == pc' = [pc EXCEPT ![b] = l]

---------------------------------------------------------------------------
(* The browser.  A reload shows what is committed; an editor sends the     *)
(* version it was opened with, and sends the same again after an error.    *)
Reload(b) ==
  /\ pc[b] = "idle"
  /\ shown' = [shown EXCEPT ![b] = row]
  /\ answer' = [answer EXCEPT ![b] = "none"]
  /\ UNCHANGED <<database, request, sends, result, pc>>

Send(b) ==
  /\ pc[b] = "idle" /\ sends[b] < MaxSends
  /\ sends' = [sends EXCEPT ![b] = @ + 1]
  /\ Goto(b, "sent")
  /\ UNCHANGED <<database, shown, result, answer>>

Submit(b, kind) ==
  /\ Send(b)
  /\ answer[b] # "lost"
  /\ kind = "delete" => shown[b] # 0
  /\ request' = [request EXCEPT ![b] =
                   [kind |-> kind, base |-> shown[b], edit |-> sends'[b]]]

SubmitAgain(b) ==
  /\ Send(b)
  /\ answer[b] = "lost"
  /\ UNCHANGED request

---------------------------------------------------------------------------
(* The server.                                                             *)
StageAny(b, version) ==   \* mutant: the version is not part of the condition
  /\ locker = NoBrowser
  /\ request[b].base # 0 => row # 0
  /\ request[b].base = 0 => row = 0
  /\ locker' = b
  /\ result' = [result EXCEPT ![b] = version]
  /\ Goto(b, "staged")

(* A conditional write takes the row lock if its condition still holds     *)
(* when the lock is free; an INSERT wants no row, UPDATE and DELETE the    *)
(* version they were given.                                                *)
Stage(b, version) ==
  /\ locker = NoBrowser
  /\ row = request[b].base
  /\ locker' = b
  /\ result' = [result EXCEPT ![b] = version]
  /\ Goto(b, "staged")

NewVersion == newest + 1

Put(b) ==
  /\ pc[b] = "sent" /\ request[b].kind = "put"
  /\ Stage(b, NewVersion)
  /\ newest' = NewVersion
  /\ UNCHANGED <<row, history, shown, request, sends, answer>>

Delete(b) ==
  /\ pc[b] = "sent" /\ request[b].kind = "delete"
  /\ Stage(b, 0)
  /\ UNCHANGED <<row, newest, history, shown, request, sends, answer>>

ConflictIgnored(b) ==   \* mutant: a change of no row is a success
  /\ pc[b] = "sent"
  /\ row # request[b].base
  /\ locker = NoBrowser \/ request[b].base # 0
  /\ answer' = [answer EXCEPT ![b] = "ok"]
  /\ Goto(b, "idle")
  /\ UNCHANGED <<database, shown, request, sends, result>>

(* The condition fails: at once for a version the row does not have, and   *)
(* for an INSERT once the lock is free.                                    *)
Conflict(b) ==
  /\ pc[b] = "sent"
  /\ row # request[b].base
  /\ locker = NoBrowser \/ request[b].base # 0
  /\ answer' = [answer EXCEPT ![b] = "conflict"]
  /\ Goto(b, "idle")
  /\ UNCHANGED <<database, shown, request, sends, result>>

Commit(b) ==
  /\ pc[b] = "staged"
  /\ row' = result[b]
  /\ locker' = NoBrowser
  /\ history' = Append(history, [by |-> b, edit |-> request[b].edit,
                                 from |-> row, to |-> result[b]])
  /\ Goto(b, "answer")
  /\ UNCHANGED <<newest, browser>>

Respond(b) ==
  /\ pc[b] = "answer"
  /\ answer' = [answer EXCEPT ![b] = "ok"]
  /\ shown' = [shown EXCEPT ![b] = result[b]]
  /\ Goto(b, "idle")
  /\ UNCHANGED <<database, request, sends, result>>

(* The request ends without an answer: rolled back, or after its commit.   *)
DropButHold(b) ==   \* mutant: the session is not closed
  /\ pc[b] \in {"sent", "staged", "answer"}
  /\ answer' = [answer EXCEPT ![b] = "lost"]
  /\ Goto(b, "idle")
  /\ UNCHANGED <<database, shown, request, sends, result>>

Drop(b) ==
  /\ pc[b] \in {"sent", "staged", "answer"}
  /\ locker' = IF pc[b] = "staged" THEN NoBrowser ELSE locker
  /\ answer' = [answer EXCEPT ![b] = "lost"]
  /\ Goto(b, "idle")
  /\ UNCHANGED <<row, newest, history, shown, request, sends, result>>

---------------------------------------------------------------------------
Serve(b) == Put(b) \/ Delete(b) \/ Conflict(b) \/ Commit(b) \/ Respond(b)

Step(b) ==
  \/ Reload(b) \/ SubmitAgain(b) \/ Serve(b) \/ Drop(b)
  \/ \E kind \in {"put", "delete"} : Submit(b, kind)

Next == \E b \in Browser : Step(b)

Spec == Init /\ [][Next]_vars

(* The server goes on with a request it has; row locks are granted in the  *)
(* order they were asked for, so a waiter is not passed over for ever.     *)
Fairness == \A b \in Browser : SF_vars(Serve(b)) /\ WF_vars(Commit(b))

---------------------------------------------------------------------------
(* Properties.                                                             *)

TypeOK ==
  /\ newest \in Nat
  /\ row \in 0..newest
  /\ locker \in Browser \cup {NoBrowser}
  /\ locker # NoBrowser => pc[locker] = "staged"
  /\ shown \in [Browser -> 0..newest] /\ result \in [Browser -> 0..newest]
  /\ pc \in [Browser -> {"idle", "sent", "staged", "answer"}]
  /\ answer \in [Browser -> {"none", "ok", "conflict", "lost"}]

(* However often an edit is sent again after a lost answer, it takes       *)
(* effect once; only the creation of an entry may happen again, after      *)
(* somebody deleted what the first one created.                            *)
EditedOnce ==
  \A i, j \in DOMAIN history :
    i < j /\ history[i].by = history[j].by /\ history[i].edit = history[j].edit =>
      /\ history[i].from = 0
      /\ \E k \in i + 1..j - 1 : history[k].to = 0

(* A browser that was told "ok" had its latest edit committed.             *)
AnswersAreTrue ==
  \A b \in Browser : answer[b] = "ok" /\ pc[b] = "idle" =>
    \E i \in DOMAIN history : history[i].by = b /\ history[i].edit = request[b].edit

AnswersAreMeant == TypeOK /\ EditedOnce /\ AnswersAreTrue

(* The records are versioned entries.  Nobody overwrites or deletes what   *)
(* the author of the edit was not shown: an edit is based on the version   *)
(* its editor was opened with, also when it is sent again.                 *)
Committed == {0} \cup {history[i].to : i \in DOMAIN history}
Base(b) == IF pc[b] # "idle" \/ answer[b] = "lost" THEN request[b].base ELSE shown[b]
Entry == INSTANCE VersionedEntry WITH
  Author <- Browser, NoAuthor <- NoBrowser,
  Version <- Nat,
  current <- row,
  newest <- CHOOSE v \in Committed : \A w \in Committed : w <= v,
  seen <- [b \in Browser |-> Base(b)],
  last <- IF history = <<>> THEN NoBrowser ELSE history[Len(history)].by
EntrySpec == Entry!Spec

(* Every request is answered or lost: a lock left behind would make the    *)
(* others wait for ever.                                                   *)
EveryRequestEnds == \A b \in Browser : pc[b] = "sent" ~> pc[b] = "idle"
=============================================================================
