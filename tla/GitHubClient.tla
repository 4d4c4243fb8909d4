----------------------------- MODULE GitHubClient -----------------------------
(***************************************************************************)
(* The attempt loop of github/client.py and the request budget of          *)
(* github/budget.py: clients that share one budget and one token, each     *)
(* with its own picture of the quota, which it knows only from responses   *)
(* that arrived.  Each client sends one request at a time.                 *)
(*                                                                         *)
(* Time is the sequence of rate-limit windows of each resource: reset_at   *)
(* lies in the future as long as the window it was sent in lasts.  Back-   *)
(* off and waiting take time and change nothing, so they are not steps.    *)
(***************************************************************************)
EXTENDS Integers, FiniteSets, FiniteSetsExt

CONSTANTS
  Client,      \* the clients that take part in a run
  Kind,        \* the kinds of request they make, of those of ScopeOf
  Limit,       \* cap of each scope of GitHubRequestLimits, a number
  Retries,     \* http_max_retries, a number
  Threshold,   \* pause threshold of each resource
  Quota,       \* GitHub: attempts a window of a resource allows
  MaxWindow    \* bound: windows of each resource

Resource == {"core", "search"}

(* The scopes that consume() finds in the path of a request.               *)
ScopeOf == [search |-> "search", detail |-> "repository_details",
            contributors |-> "contributors", profile |-> "profiles",
            other |-> "total"]
Scopes(k) == {"total", ScopeOf[k]}

(* What the settings accept: caps and quotas are not negative.             *)
Parameters ==
  /\ IsFiniteSet(Client)
  /\ Kind \subseteq DOMAIN ScopeOf
  /\ {"total"} \cup {ScopeOf[k] : k \in Kind} \subseteq DOMAIN Limit
  /\ Limit \in [DOMAIN Limit -> Nat]
  /\ Retries \in Nat /\ Quota \in Nat /\ MaxWindow \in Nat \ {0}
  /\ Threshold \in [Resource -> Nat]

VARIABLES
  used,     \* the budget's counters
  known,    \* each client's last word on each resource, or Unknown
  request,  \* the kind of the present or latest request of each client
  attempt,  \* attempts of the present request that have failed
  pc,       \* "idle", "check", "reserve", "flight" or "closed"
  answer,   \* the response on its way to each client, or NoAnswer
  result,   \* how the latest request ended
  window,   \* GitHub: the present window of each resource
  quota,    \* GitHub: what is left of it
  sent,     \* attempts that went out, counted in each of their scopes
  unsent,   \* attempts charged whose reservation failed, likewise
  served,   \* attempts GitHub saw in the present window of each resource
  failure   \* what the latest attempt of each request failed by, or "none"

budget == <<used, sent, unsent>>
github == <<window, quota, served>>
vars == <<used, known, request, attempt, pc, answer, result,
          window, quota, sent, unsent, served, failure>>

Unknown == [remaining |-> -1, window |-> 0, seen |-> 0]
NoAnswer == [status |-> "none"]
Statuses == {"ok", "unavailable", "later", "limited", "failed"}

ResourceOf(k) == IF k = "search" THEN "search" ELSE "core"

Init ==
  /\ used = [s \in DOMAIN Limit |-> 0]
  /\ known = [c \in Client |-> [r \in Resource |-> Unknown]]
  /\ request = [c \in Client |-> "none"]
  /\ attempt = [c \in Client |-> 0]
  /\ pc = [c \in Client |-> "idle"]
  /\ answer = [c \in Client |-> NoAnswer]
  /\ result = [c \in Client |-> "none"]
  /\ window = [r \in Resource |-> 1]
  /\ quota \in [Resource -> 0..Quota]
  /\ sent = [s \in DOMAIN Limit |-> 0]
  /\ unsent = [s \in DOMAIN Limit |-> 0]
  /\ served = [r \in Resource |-> 0]
  /\ failure = [c \in Client |-> "none"]

---------------------------------------------------------------------------
(* A request starts.                                                       *)
Request(c, k) ==
  /\ pc[c] = "idle"
  /\ request' = [request EXCEPT ![c] = k]
  /\ pc' = [pc EXCEPT ![c] = "check"]
  /\ result' = [result EXCEPT ![c] = "none"]
  /\ failure' = [failure EXCEPT ![c] = "none"]
  /\ UNCHANGED <<budget, known, attempt, answer, github>>

(* The request is over, with a response or an exception, and its locals    *)
(* with it; the fault of the network says what it was.                     *)
End(c, how) ==
  /\ pc' = [pc EXCEPT ![c] = "idle"]
  /\ attempt' = [attempt EXCEPT ![c] = 0]
  /\ result' = [result EXCEPT ![c] = how]
  /\ failure' = IF how = "network" THEN failure ELSE [failure EXCEPT ![c] = "none"]

Resources(c) == ResourceOf(request[c])

(* _check_pause_threshold(): what is known is low, and of a window that    *)
(* still lasts.                                                            *)
LowBelow(c) ==   \* mutant: at the threshold is still enough
  LET state == known[c][Resources(c)]
  IN /\ state # Unknown
     /\ state.remaining < Threshold[Resources(c)]
     /\ state.window = window[Resources(c)]

Low(c) ==
  LET state == known[c][Resources(c)]
  IN /\ state # Unknown
     /\ state.remaining <= Threshold[Resources(c)]
     /\ state.window = window[Resources(c)]

(* At least one, also when nothing is to be tried again.                  *)
Attempts == Max({1, Retries})

Trying(c) == pc[c] = "check" /\ attempt[c] < Attempts

Pause(c) ==
  /\ Trying(c)
  /\ Low(c)
  /\ End(c, "limited")
  /\ UNCHANGED <<budget, known, request, answer, github>>

(* consume(): all scopes are checked before one of them is charged.        *)
Full(k) == {s \in Scopes(k) : used[s] >= Limit[s]}

Refuse(c) ==
  /\ Trying(c)
  /\ ~Low(c)
  /\ Full(request[c]) # {}
  /\ End(c, "budget")
  /\ UNCHANGED <<budget, known, request, answer, github>>

CountIn(counts, scopes) ==
  [s \in DOMAIN counts |-> counts[s] + IF s \in scopes THEN 1 ELSE 0]

ConsumeOneByOne(c) ==   \* mutant: each scope is charged as it is checked
  /\ Trying(c)
  /\ ~Low(c)
  /\ "total" \notin Full(request[c])
  /\ used' = CountIn(used, Scopes(request[c]) \ Full(request[c]))
  /\ IF Full(request[c]) = {}
       THEN pc' = [pc EXCEPT ![c] = "reserve"] /\ UNCHANGED <<attempt, result, failure>>
       ELSE End(c, "budget")
  /\ UNCHANGED <<known, request, answer, github, sent, unsent>>

Consume(c) ==
  /\ Trying(c)
  /\ ~Low(c)
  /\ Full(request[c]) = {}
  /\ used' = CountIn(used, Scopes(request[c]))
  /\ pc' = [pc EXCEPT ![c] = "reserve"]
  /\ UNCHANGED <<known, request, attempt, answer, result, github, sent, unsent, failure>>

(* before_attempt raises, and request() with it: the attempt is charged    *)
(* and never goes out.  A plain error of the database ends the request     *)
(* only: the operation notes it and the run goes on, with the same client  *)
(* and budget.  A lost lock, a cancellation or a RuntimeError ends the     *)
(* run, and its client with it.                                            *)
ReserveFails(c) ==
  /\ pc[c] = "reserve"
  /\ unsent' = CountIn(unsent, Scopes(request[c]))
  /\ \/ End(c, "database")
     \/ /\ pc' = [pc EXCEPT ![c] = "closed"]
        /\ UNCHANGED <<attempt, result, failure>>
  /\ UNCHANGED <<used, sent, known, request, answer, github>>

Send(c) ==
  /\ pc[c] = "reserve"
  /\ pc' = [pc EXCEPT ![c] = "flight"]
  /\ sent' = CountIn(sent, Scopes(request[c]))
  /\ UNCHANGED <<used, unsent, known, request, attempt, answer, result, github, failure>>

---------------------------------------------------------------------------
(* GitHub.  An attempt costs quota; without quota it is answered by a rate *)
(* limit.  "later" is a 429 with time to wait, "limited" a 429 without, or *)
(* a 403 that says so; a secondary limit answers either, or "failed" in    *)
(* other words, whatever is left.                                          *)
Serve(c) ==
  LET r == Resources(c)
  IN /\ pc[c] = "flight" /\ answer[c] = NoAnswer
     /\ quota' = [quota EXCEPT ![r] = Max({0, @ - 1})]
     /\ served' = [served EXCEPT ![r] = @ + 1]
     /\ \E status \in IF quota[r] = 0 THEN {"later", "limited"} ELSE Statuses :
          answer' = [answer EXCEPT ![c] = [status |-> status, remaining |-> quota'[r],
                                           window |-> window[r], seen |-> served'[r]]]
     /\ UNCHANGED <<budget, known, request, attempt, pc, result, window, failure>>

NextWindow(r) ==
  /\ window[r] < MaxWindow
  /\ window' = [window EXCEPT ![r] = @ + 1]
  /\ quota' = [quota EXCEPT ![r] = Quota]
  /\ served' = [served EXCEPT ![r] = 0]
  /\ UNCHANGED <<budget, known, request, attempt, pc, answer, result, failure>>

---------------------------------------------------------------------------
(* What comes back.                                                        *)
TryAgain(c, why) ==
  /\ failure' = [failure EXCEPT ![c] = why]
  /\ attempt' = [attempt EXCEPT ![c] = @ + 1]
  /\ pc' = [pc EXCEPT ![c] = "check"]
  /\ UNCHANGED result

(* A transport error: the attempt may have reached GitHub or not.          *)
Lose(c) ==
  /\ pc[c] = "flight"
  /\ TryAgain(c, "transport")
  /\ answer' = [answer EXCEPT ![c] = NoAnswer]
  /\ UNCHANGED <<budget, known, request, github>>

(* _record_rate_limits().  A 5xx may come without the headers.             *)
Record(c) ==
  \/ known' = [known EXCEPT ![c][Resources(c)] =
                 [remaining |-> answer[c].remaining, window |-> answer[c].window,
                  seen |-> answer[c].seen]]
  \/ answer[c].status = "unavailable" /\ UNCHANGED known

(* _classify_failure().                                                    *)
Receive(c) ==
  /\ pc[c] = "flight" /\ answer[c] # NoAnswer
  /\ Record(c)
  /\ answer' = [answer EXCEPT ![c] = NoAnswer]
  /\ \/ /\ answer[c].status \in {"ok", "limited", "failed"}
        /\ End(c, answer[c].status)
     \/ /\ answer[c].status \in {"unavailable", "later"}
        /\ TryAgain(c, answer[c].status)
  /\ UNCHANGED <<budget, request, github>>

GiveUp(c) ==
  /\ pc[c] = "check"
  /\ attempt[c] >= Attempts
  /\ End(c, "network")
  /\ UNCHANGED <<budget, known, request, answer, github>>

---------------------------------------------------------------------------
Step(c) ==
  \/ \E k \in Kind : Request(c, k)
  \/ Pause(c) \/ Refuse(c) \/ Consume(c) \/ ReserveFails(c) \/ Send(c)
  \/ Serve(c) \/ Lose(c) \/ Receive(c) \/ GiveUp(c)

Next == (\E c \in Client : Step(c)) \/ (\E r \in Resource : NextWindow(r))

Spec == Init /\ [][Next]_vars

---------------------------------------------------------------------------
(* Properties.                                                             *)

TypeOK ==
  /\ used \in [DOMAIN Limit -> Nat]
  /\ known \in [Client -> [Resource -> [remaining : -1..Quota, window : 0..MaxWindow,
                                       seen : Nat]]]
  /\ request \in [Client -> Kind \cup {"none"}]
  /\ attempt \in [Client -> 0..Attempts]
  /\ pc \in [Client -> {"idle", "check", "reserve", "flight", "closed"}]
  /\ answer \in [Client -> {NoAnswer} \cup
                  [status : Statuses, remaining : 0..Quota, window : 1..MaxWindow,
                   seen : Nat]]
  /\ result \in [Client -> {"none", "ok", "limited", "failed", "budget", "database",
                          "network"}]
  /\ window \in [Resource -> 1..MaxWindow] /\ quota \in [Resource -> 0..Quota]
  /\ sent \in [DOMAIN Limit -> Nat] /\ unsent \in [DOMAIN Limit -> Nat] /\ served \in [Resource -> Nat]

(* Clients whose attempt is charged and still to be reserved.              *)
Held(s) == {c \in Client : pc[c] = "reserve" /\ s \in Scopes(request[c])}

(* Requests and clients in any order, retries, refusals and failed         *)
(* reservations together: what is charged stays within every cap, and it   *)
(* is what went out, what is about to, and what a failed reservation kept  *)
(* back; each attempt is charged once to each of its scopes, a refused one *)
(* to none.                                                                *)
CapsHold ==
  \A s \in DOMAIN Limit :
    used[s] = sent[s] + unsent[s] + Cardinality(Held(s)) /\ used[s] <= Limit[s]

BudgetIsKept == TypeOK /\ CapsHold

(* The pause threshold: when a client that has heard of this window takes  *)
(* the quota below it, then only because of attempts its picture misses,   *)
(* lost responses and other clients' attempts.                             *)
PauseSparesTheRest ==
  \A c \in Client :
    LET r == Resources(c)
    IN answer[c] = NoAnswer /\ answer'[c] # NoAnswer /\ known[c][r].window = window[r]
         => quota[r] + (served[r] - known[c][r].seen) > Threshold[r]

PauseKeepsTheRest == [][PauseSparesTheRest]_vars

(* request() promises RateLimitExceeded when the quota is exhausted: a      *)
(* request whose last attempt was answered 429 with nothing left must not   *)
(* end as a fault of the network.                                          *)
RateLimitIsReported ==
  \A c \in Client :
    ~ /\ result[c] = "network" /\ failure[c] = "later"
      /\ known[c][Resources(c)].remaining = 0
=============================================================================
