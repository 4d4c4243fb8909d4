------------------------------ MODULE Unattended ------------------------------
(***************************************************************************)
(* What a collector does unattended: the schedule, and the attempts of its *)
(* clients.  The machines share no state: a behaviour moves one of them.   *)
(***************************************************************************)
EXTENDS Automation

CONSTANTS Client, ClientKind, Limit, Retries, Threshold, Quota, MaxWindow

VARIABLES
  part,
  used, known, request, attempt, at, answer, result, window, quota, sent, unsent, served, failure

client == <<used, known, request, attempt, at, answer, result, window, quota, sent, unsent, served, failure>>

G == INSTANCE GitHubClient WITH Kind <- ClientKind, pc <- at

ASSUME ClientParameters == G!Parameters

UnattendedInit ==
  /\ part \in {"schedule", "client"}
  /\ Init /\ G!Init
  /\ part = "schedule" => quota = [r \in G!Resource |-> 0]

UnattendedNext ==
  \/ part = "schedule" /\ Next /\ UNCHANGED <<part, client>>
  \/ part = "client" /\ G!Next /\ UNCHANGED <<part, vars>>

UnattendedSpec == UnattendedInit /\ [][UnattendedNext]_<<part, vars, client>>

(* GitHubClient, asked of the behaviours that move it.                     *)
BudgetIsKept == part = "client" => G!BudgetIsKept
PauseKeepsTheRest == [][part = "client" => G!PauseSparesTheRest]_client
=============================================================================
