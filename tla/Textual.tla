------------------------------ MODULE Textual ------------------------------
(***************************************************************************)
(* TextualEvidence (ai/textual.py) as it is used: every request for the    *)
(* artifact of a repository (api/routes/ai.py) and every `ai repo` command *)
(* (cli/app.py) wraps a client in one of its own, with a cache of its own, *)
(* and asks it for the three texts of the repository.                      *)
(***************************************************************************)
EXTENDS Naturals, Sequences

CONSTANTS
  Session,   \* requests and commands
  Repo,      \* repositories asked about
  Ttl,       \* TEXTUAL_TTL_SECONDS, in ticks
  MaxTime,   \* bound: ticks of the clock
  None

Kinds == <<"readme", "releases", "commits">>

VARIABLES
  now,
  cache,     \* of every session: <<kind, repository>> -> [fetched, value]
  session,   \* what every session asks for
  reads      \* fetches answered so far, in order

vars == <<now, cache, session, reads>>

Empty == [k \in {} |-> None]
Unused == [pc |-> "idle", repo |-> None, next |-> 1, asked |-> None]

Init ==
  /\ now = 0 /\ reads = <<>>
  /\ cache = [s \in Session |-> Empty] /\ session = [s \in Session |-> Unused]

Open(s, repo) ==
  /\ session[s].pc = "idle"
  /\ session' = [session EXCEPT ![s].pc = "asking", ![s].repo = repo]
  /\ cache' = [cache EXCEPT ![s] = Empty]
  /\ UNCHANGED <<now, reads>>

Source(s) == <<Kinds[session[s].next], session[s].repo>>
Fresh(s) == Source(s) \in DOMAIN cache[s] /\ now - cache[s][Source(s)].fetched < Ttl

After(s) ==
  IF session[s].next = Len(Kinds) THEN [session[s] EXCEPT !.pc = "ended"]
  ELSE [session[s] EXCEPT !.pc = "asking", !.next = @ + 1]

Hit(s) ==
  /\ session[s].pc = "asking" /\ Fresh(s)
  /\ session' = [session EXCEPT ![s] = After(s)]
  /\ UNCHANGED <<now, cache, reads>>

Miss(s) ==
  /\ session[s].pc = "asking" /\ ~Fresh(s)
  /\ session' = [session EXCEPT ![s].pc = "fetching", ![s].asked = now]
  /\ UNCHANGED <<now, cache, reads>>

Store(s) ==   \* a text, or none after a GitHubError, which is kept like a text
  /\ session[s].pc = "fetching"
  /\ \E value \in {"text", ""} :
       cache' = [cache EXCEPT ![s] = [k \in DOMAIN @ \cup {Source(s)} |->
                   IF k = Source(s) THEN [fetched |-> now, value |-> value] ELSE @[k]]]
  /\ reads' = Append(reads, [source |-> Source(s), asked |-> session[s].asked, stored |-> now])
  /\ session' = [session EXCEPT ![s] = After(s)]
  /\ UNCHANGED now

Fail(s) ==   \* any other error: the repository is described without its texts
  /\ session[s].pc = "fetching"
  /\ session' = [session EXCEPT ![s].pc = "ended"]
  /\ UNCHANGED <<now, cache, reads>>

Tick ==
  /\ now < MaxTime /\ now' = now + 1
  /\ UNCHANGED <<cache, session, reads>>

Next ==
  \/ \E s \in Session : (\E repo \in Repo : Open(s, repo)) \/ Hit(s) \/ Miss(s) \/ Store(s) \/ Fail(s)
  \/ Tick

Spec == Init /\ [][Next]_vars
---------------------------------------------------------------------------
(* ai/textual.py: text is read again "only once per TTL window".  A text   *)
(* that was stored is not asked of GitHub again while it is younger than   *)
(* the lifetime of an entry.                                               *)
OncePerWindow ==
  \A i, j \in DOMAIN reads :
    reads[i].source = reads[j].source /\ reads[j].asked > reads[i].stored =>
      reads[j].asked - reads[i].stored >= Ttl
=============================================================================
