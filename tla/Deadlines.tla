----------------------------- MODULE Deadlines -----------------------------
(***************************************************************************)
(* One use of a database session (storage/deadlines.py, storage/db.py):    *)
(* connecting, statements, and the cleanup in a shielded child, each under *)
(* a deadline of its own, with cancellations at any moment, any number of  *)
(* them, and a server that may never answer.                               *)
(***************************************************************************)
EXTENDS Naturals

CONSTANTS
  Host,            \* addresses the driver tries, 1..n
  ConnectSeconds,  \* connect_seconds, positive
  IoSeconds        \* io_seconds, positive

Parameters == Host \subseteq Nat \ {0} /\ {ConnectSeconds, IoSeconds} \subseteq Nat \ {0}

VARIABLES
  pc,         \* connecting, working, statement, cleanup, ended
  waited,     \* ticks the current I/O has taken
  spent,      \* ticks the cleanup has taken
  sock,       \* the sockets of the attempts: none, open, closed
  conn,       \* the host of the connection, or 0
  child,      \* the cleanup task: none, running, ok, failed
  woken,      \* what wakes the caller from shield: no, value, error, cancel
  cancelled,  \* the flag of finish_cleanup
  raised,     \* the exception on its way: none, cancelled, deadline, failed
  uncertain,  \* outcome_uncertain of that exception and of those behind it
  asked,      \* a cancellation was delivered
  abandoned

clock == <<waited, spent>>
net == <<sock, conn, abandoned>>
task == <<child, woken, cancelled>>
fate == <<raised, uncertain>>
vars == <<pc, clock, net, task, fate, asked>>

TypeOK ==
  /\ pc \in {"connecting", "working", "statement", "cleanup", "ended"}
  /\ waited \in 0..ConnectSeconds + IoSeconds /\ spent \in 0..IoSeconds + 1
  /\ sock \in [Host -> {"none", "open", "closed"}] /\ conn \in Host \cup {0}
  /\ child \in {"none", "running", "ok", "failed"} /\ (child = "none" => pc # "cleanup")
  /\ woken \in {"no", "value", "error", "cancel"} 
  /\ child \in {"ok", "failed"} => woken # "no"
  /\ raised \in {"none", "cancelled", "deadline", "failed"}
  /\ {cancelled, uncertain, asked, abandoned} \subseteq BOOLEAN

Init ==
  /\ pc = "connecting" /\ waited = 0 /\ spent = 0
  /\ sock = [h \in Host |-> "none"] /\ conn = 0 /\ abandoned = FALSE
  /\ child = "none" /\ woken = "no" /\ cancelled = FALSE
  /\ raised = "none" /\ uncertain = FALSE /\ asked = FALSE

AtMost(ticks) == IF ticks > IoSeconds THEN IoSeconds + 1 ELSE ticks   \* bound: more is all alike
Late(seconds) == waited >= seconds
---------------------------------------------------------------------------
(* DeadlineConnection.connect.                                             *)
Try(h) ==   \* _connect_gen, remembered in attempts
  /\ pc = "connecting" /\ sock[h] = "none" /\ \A g \in Host : g < h => sock[g] # "none"
  /\ sock' = [sock EXCEPT ![h] = "open"]
  /\ UNCHANGED <<pc, clock, conn, abandoned, task, fate, asked>>

Closed(keep) ==
  [h \in Host |-> IF sock[h] = "open" /\ h # keep THEN "closed" ELSE sock[h]]

Connected(h) ==
  /\ pc = "connecting" /\ sock[h] = "open" /\ ~Late(ConnectSeconds)
  /\ pc' = "working" /\ conn' = h /\ sock' = Closed(h)
  /\ UNCHANGED <<clock, abandoned, task, fate, asked>>

ConnectEnds(exc) ==
  /\ pc = "connecting"
  /\ pc' = "ended" /\ sock' = Closed(0) /\ raised' = exc
  /\ UNCHANGED <<clock, conn, abandoned, task, uncertain>>

ConnectFails ==   \* no host answers, or not in time
  /\ Late(ConnectSeconds) \/ \A h \in Host : sock[h] # "none"
  /\ ConnectEnds("failed") /\ UNCHANGED asked
---------------------------------------------------------------------------
Begin ==   \* DeadlineConnection.wait
  /\ pc = "working" /\ pc' = "statement" /\ waited' = 0
  /\ UNCHANGED <<spent, net, task, fate, asked>>

Reply ==
  /\ pc = "statement" /\ ~Late(IoSeconds) /\ pc' = "working"
  /\ UNCHANGED <<clock, net, task, fate, asked>>

Abandon ==   \* abandon(): the socket is closed, the server learns nothing
  sock' = [sock EXCEPT ![conn] = "closed"] /\ abandoned' = TRUE /\ UNCHANGED conn

CleanUp(exc, unclear) ==   \* __aexit__ of ManagedSession
  /\ pc' = "cleanup" /\ child' = "running" /\ waited' = 0 /\ spent' = 0
  /\ raised' = exc /\ uncertain' = unclear
  /\ UNCHANGED <<woken, cancelled>>

Leave ==   \* the body ends, or one of its statements fails
  /\ \/ pc = "working" /\ CleanUp("none", FALSE)
     \/ pc = "statement" /\ ~Late(IoSeconds) /\ CleanUp("failed", FALSE)
  /\ UNCHANGED <<net, asked>>

Expire ==
  /\ pc = "statement" /\ Late(IoSeconds) /\ Abandon /\ CleanUp("deadline", TRUE)
  /\ UNCHANGED asked
---------------------------------------------------------------------------
(* finish_cleanup: the child, which nobody cancels, and its caller.        *)
Finish(result) ==
  /\ child' = result
  /\ woken' = IF woken = "cancel" THEN woken ELSE IF result = "ok" THEN "value" ELSE "error"
  /\ UNCHANGED <<pc, clock, cancelled, raised, asked>>

Close ==   \* a closed connection needs no ROLLBACK; an open one is answered
  /\ child = "running"
  /\ \/ Finish("ok")
     \/ sock[conn] = "open" /\ ~Late(IoSeconds) /\ Finish("failed")
  /\ sock[conn] = "open" => ~Late(IoSeconds)
  /\ UNCHANGED <<net, uncertain>>

CloseExpires ==
  /\ child = "running" /\ sock[conn] = "open" /\ Late(IoSeconds)
  /\ Abandon /\ Finish("failed") /\ uncertain' = TRUE

ShieldAgain ==
  /\ woken' = "no" /\ cancelled' = TRUE
  /\ UNCHANGED <<pc, clock, child, raised>>

Ending ==
  IF child = "failed" THEN "failed"
  ELSE IF cancelled \/ woken = "cancel" THEN "cancelled"
  ELSE raised

DetachedResume ==   \* mutant: the second cancellation leaves the loop
  /\ pc = "cleanup" /\ woken # "no"
  /\ IF child = "running" /\ ~cancelled THEN ShieldAgain
     ELSE pc' = "ended" /\ raised' = Ending /\ UNCHANGED <<clock, child, woken, cancelled>>
  /\ UNCHANGED <<net, uncertain, asked>>

Resume ==
  /\ pc = "cleanup" /\ woken # "no"
  /\ IF child = "running" THEN ShieldAgain
     ELSE pc' = "ended" /\ raised' = Ending /\ UNCHANGED <<clock, child, woken, cancelled>>
  /\ UNCHANGED <<net, uncertain, asked>>
---------------------------------------------------------------------------
Cancel ==   \* SIGTERM, max_seconds, the 330 seconds of a scheduled run
  /\ pc # "ended" /\ asked' = TRUE
  /\ CASE pc = "connecting" -> ConnectEnds("cancelled")
       [] pc = "working" -> CleanUp("cancelled", FALSE) /\ UNCHANGED net
       [] pc = "statement" -> Abandon /\ CleanUp("cancelled", TRUE)
       [] pc = "cleanup" -> woken' = "cancel" /\ UNCHANGED <<pc, clock, net, child, cancelled, fate>>

Tick ==   \* time passes while nothing is due
  /\ waited' = waited + 1
  /\ \/ pc = "connecting" /\ ~Late(ConnectSeconds) /\ UNCHANGED spent
     \/ pc = "statement" /\ ~Late(IoSeconds) /\ UNCHANGED spent
     \/ child = "running" /\ ~Late(IoSeconds) /\ woken = "no" /\ spent' = AtMost(spent + 1)
  /\ UNCHANGED <<pc, net, task, fate, asked>>

Progress == (\E h \in Host : Try(h) \/ Connected(h)) \/ ConnectFails
            \/ Begin \/ Reply \/ Leave \/ Expire \/ Close \/ CloseExpires \/ Resume

Next == Progress \/ Cancel \/ Tick

Spec == Init /\ [][Next]_vars

(* The event loop resumes what is ready and runs what is due, and time     *)
(* goes on between cancellations, however many there are.                  *)
Fairness == /\ WF_vars(Resume) /\ WF_vars(CloseExpires) /\ SF_vars(Tick)
            /\ WF_vars(child = "running" /\ sock[conn] = "closed" /\ Close)
---------------------------------------------------------------------------
(* Nothing outlives its owner: neither the cleanup, however often it was   *)
(* cancelled, nor a socket of an attempt to connect that was given up.     *)
NothingLeftBehind ==
  pc = "ended" =>
    child # "running" /\ \A h \in Host : sock[h] = "open" => h = conn

(* The end is told as it was: a cancellation is not swallowed, a failure   *)
(* of the cleanup is not passed over for it, and whoever closed a socket   *)
(* on a statement says that its outcome is uncertain.                      *)
EndingIsHonest ==
  pc = "ended" =>
    /\ asked => raised # "none"
    /\ child = "failed" => raised = "failed"
    /\ abandoned => uncertain

(* Cancellations do not prolong the cleanup beyond its one deadline.       *)
CleanupIsBounded == child = "running" => spent <= IoSeconds

(* A session that ends leaves nothing behind and says what happened.       *)
EndsCleanly == TypeOK /\ NothingLeftBehind /\ EndingIsHonest /\ CleanupIsBounded

(* Every cleanup ends.                                                     *)
CleanupEnds == pc = "cleanup" ~> pc = "ended"
=============================================================================
