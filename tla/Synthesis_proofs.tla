-------------------------- MODULE Synthesis_proofs --------------------------
(***************************************************************************)
(* What holds of the artifacts for every number of requests and commands.  *)
(***************************************************************************)
EXTENDS Synthesis, SequenceTheorems, TLAPS

(* A request or command: what it read, what it spent and what it is owed,  *)
(* by where it is.                                                         *)
FactsOf(c, r) ==
  [text |-> r.text,
   seen |-> IF c \in Request /\ r.kind = "topic" /\ Len(r.seen) = 3 THEN Append(r.seen, r.seen[2]) ELSE r.seen]
KeyOf(c, r) == [kind |-> r.kind, facts |-> FactsOf(c, r), release |-> r.release]

Gathering == {"reading", "text", "lookup"}
Saving == {"saving", "flushing", "flushed", "committed"}

Rec ==
  [pc : {"idle", "posting", "ended"} \cup Gathering \cup Saving, kind : Kind \cup {None}, force : BOOLEAN,
   release : Nat, seen : Seq(Nat), text : {"", "text"}, remaining : 0..Cap, attempt : 0..(MaxAttempts - 1),
   repairing : BOOLEAN, posts : Nat, answer : Artifact \cup {None}, exists : BOOLEAN, hit : BOOLEAN,
   got : Artifact \cup {None}, error : DOMAIN Statuses \cup {None}]

Unspent(r) == r.posts = 0 /\ r.remaining = Cap
Spent(r) == Cap - r.remaining = 1 /\ r.posts <= 2 * MaxAttempts
Owed(c, r, artifact) ==
  artifact \in Artifact /\ artifact.facts = FactsOf(c, r) /\ artifact.release = r.release

Sound(c, r) ==
  /\ r.pc = "idle" => r = Fresh
  /\ r.pc \in Gathering => Unspent(r) /\ r.attempt = 0 /\ ~r.repairing
  /\ r.pc = "posting" => Cap - r.remaining = 1 /\ r.posts <= (IF r.repairing THEN MaxAttempts ELSE 0) + r.attempt
  /\ r.pc \in Saving => Spent(r) /\ Owed(c, r, r.answer) /\ r.answer.by = c
  /\ r.pc \notin {"idle", "ended"} => r.kind \in Kind /\ r.got = None /\ r.error = None /\ ~r.hit
  /\ r.pc = "ended" =>
       /\ Unspent(r) \/ Spent(r)
       /\ r.hit => r.posts = 0
       /\ IF r.error = None THEN Owed(c, r, r.got) /\ r.kind \in Kind ELSE r.got = None /\ r.kind = None

Answers(r) == r.pc = "ended" /\ r.error = None

(* Who called the model, and was not stopped by an error since.            *)
Paying(r) == r.pc \in {"posting"} \cup Saving \/ (Answers(r) /\ r.posts > 0)

ClientsAreSound ==
  /\ req \in [Client -> Rec] /\ \A c \in Client : Sound(c, req[c])
  /\ before \in [Client -> SUBSET Client] /\ \A c \in Client : \A d \in before[c] : Answers(req[d])

(* A row is held by the transaction that wrote it, which may outlive the   *)
(* request; what is stored was answered to the request it names.           *)
Earned(records, k, a) ==
  a \in Artifact /\ a = records[a.by].answer /\ a.facts = k.facts /\ a.release = k.release

Orphaned(records, c) == c \in Request /\ records[c].pc = "ended" /\ records[c].error = "internal"

RowsAreHeld ==
  \A k \in DOMAIN writing :
    /\ Earned(req, k, writing[k])
    /\ \/ req[writing[k].by].pc = "flushed" /\ KeyOf(writing[k].by, req[writing[k].by]) = k
       \/ Orphaned(req, writing[k].by)

StoreIsEarned ==
  \A k \in DOMAIN store :
    /\ Earned(req, k, store[k]) /\ store[k].by \in Request
    /\ req[store[k].by].pc \in {"committed", "ended"} /\ req[store[k].by].error \in {None, "internal"}

Kept(r) == Answers(r) \/ r.pc = "committed"

StoreRemembers ==
  /\ \A d \in Request : Kept(req[d]) => KeyOf(d, req[d]) \in DOMAIN store
  /\ \A c \in Client : \A d \in before[c] \cap Request :
       Paying(req[c]) /\ ~req[c].force => KeyOf(c, req[c]) # KeyOf(d, req[d])

(* The inductive invariant.                                                *)
SynthesisIInv ==
  /\ observed \in 0..MaxObservations /\ release \in 1..MaxReleases
  /\ ClientsAreSound /\ RowsAreHeld /\ StoreIsEarned /\ StoreRemembers
---------------------------------------------------------------------------
LEMMA FactsTyped ==
  ASSUME NEW c, NEW r \in Rec
  PROVE  FactsOf(c, r) \in [text : {"", "text"}, seen : Seq(Nat)]
<1>1. r.seen \in Seq(Nat) /\ r.text \in {"", "text"} BY DEF Rec
<1>2. ASSUME NEW s \in Seq(Nat), Len(s) = 3 PROVE Append(s, s[2]) \in Seq(Nat)
  <2>0. 2 \in 1..Len(s) BY <1>2
  <2>1. s[2] \in Nat BY <1>2, <2>0, ElementOfSeq
  <2> QED BY <1>2, <2>1
<1>3. Len(r.seen) = 3 => Append(r.seen, r.seen[2]) \in Seq(Nat) BY <1>1, <1>2
<1> QED BY <1>1, <1>3 DEF FactsOf

(* A step of one client that was not answered yet: what it has to show.    *)
StepOf(c, r) ==
  /\ Set(c, r) /\ r \in Rec /\ Sound(c, r) /\ req[c].pc # "ended"
  /\ req[c].pc = "committed" => r.pc = "ended" /\ r.answer = req[c].answer /\ r.error \in {None, "internal"}
  /\ observed' = observed /\ release' = release

Holds(c, r) ==
  \A k \in DOMAIN writing' :
    \/ k \in DOMAIN writing /\ writing'[k] = writing[k] /\ writing[k].by # c
    \/ writing'[k] = r.answer /\ r.pc = "flushed" /\ k = KeyOf(c, r)
    \/ /\ k \in DOMAIN writing /\ writing'[k] = writing[k] /\ writing[k].by = c
       /\ c \in Request /\ r.answer = req[c].answer /\ r.pc = "ended" /\ r.error = "internal"

Stores(c, r) ==
  /\ \A k \in DOMAIN store : k \in DOMAIN store'
  /\ \A k \in DOMAIN store' :
       \/ k \in DOMAIN store /\ store'[k] = store[k]
       \/ k = KeyOf(c, r) /\ store'[k] = r.answer /\ r.pc = "committed" /\ c \in Request
  /\ c \in Request /\ Kept(r) => KeyOf(c, r) \in DOMAIN store'

Asks(c, r) ==
  /\ \A d \in Client : d # c => before'[d] = before[d]
  /\ before' \in [Client -> SUBSET Client]
  /\ \A d \in before'[c] : Answers(req[d])
  /\ \A d \in before'[c] \cap Request : Paying(r) /\ ~r.force => KeyOf(c, r) # KeyOf(d, req[d])

LEMMA Steps ==
  ASSUME SynthesisIInv, NEW c \in Client, NEW r, StepOf(c, r), Holds(c, r), Stores(c, r), Asks(c, r)
  PROVE  SynthesisIInv'
<1>1. /\ req' \in [Client -> Rec] /\ req'[c] = r
      /\ \A d \in Client : d # c => req'[d] = req[d]
  BY DEF SynthesisIInv, ClientsAreSound, StepOf, Set
<1>2. \A d \in Client : Answers(req[d]) => d # c /\ req'[d] = req[d]
  BY <1>1 DEF Answers, StepOf
<1>3. ClientsAreSound'
  <2>1. \A d \in Client : Sound(d, req'[d]) BY <1>1 DEF SynthesisIInv, ClientsAreSound, StepOf
  <2>2. \A d \in Client : \A e \in before'[d] : e \in Client /\ Answers(req[e])
    BY DEF Asks, SynthesisIInv, ClientsAreSound
  <2>3. \A d \in Client : \A e \in before'[d] : Answers(req'[e]) BY <1>2, <2>2
  <2>4. before' \in [Client -> SUBSET Client] BY DEF Asks
  <2> QED BY <1>1, <2>1, <2>3, <2>4 DEF ClientsAreSound
<1>4. ASSUME NEW k, NEW a, Earned(req, k, a), a.by # c
      PROVE  a.by \in Client /\ req'[a.by] = req[a.by] /\ Earned(req', k, a)
  <2>1. a.by \in Client BY <1>4 DEF Earned, Artifact
  <2>2. req'[a.by] = req[a.by] BY <1>1, <1>4, <2>1
  <2> QED BY <1>4, <2>1, <2>2 DEF Earned
<1>5. ASSUME r.pc \in Saving
      PROVE  r.answer.by = c /\ Earned(req', KeyOf(c, r), r.answer) /\ r.error = None
  <2>1. Owed(c, r, r.answer) /\ r.answer.by = c /\ r.error = None
    BY <1>5 DEF StepOf, Sound, Saving
  <2> QED BY <1>1, <2>1 DEF Owed, Earned, KeyOf
<1>7. RowsAreHeld'
  <2> SUFFICES ASSUME NEW k \in DOMAIN writing'
               PROVE  /\ Earned(req', k, writing'[k])
                      /\ \/ /\ req'[writing'[k].by].pc = "flushed"
                            /\ KeyOf(writing'[k].by, req'[writing'[k].by]) = k
                         \/ Orphaned(req', writing'[k].by)
    BY DEF RowsAreHeld
  <2>1. CASE k \in DOMAIN writing /\ writing'[k] = writing[k] /\ writing[k].by # c
    <3>1. Earned(req, k, writing[k]) BY <2>1 DEF SynthesisIInv, RowsAreHeld
    <3>2. req'[writing[k].by] = req[writing[k].by] /\ Earned(req', k, writing[k]) BY <1>4, <2>1, <3>1
    <3>3. \/ req[writing[k].by].pc = "flushed" /\ KeyOf(writing[k].by, req[writing[k].by]) = k
          \/ Orphaned(req, writing[k].by)
      BY <2>1 DEF SynthesisIInv, RowsAreHeld
    <3> QED BY <2>1, <3>2, <3>3 DEF Orphaned, Earned
  <2>2. CASE writing'[k] = r.answer /\ r.pc = "flushed" /\ k = KeyOf(c, r)
    <3>1. r.answer.by = c /\ Earned(req', k, r.answer) BY <1>5, <2>2 DEF Saving
    <3> QED BY <1>1, <2>2, <3>1 DEF Earned
  <2>3. CASE /\ k \in DOMAIN writing /\ writing'[k] = writing[k] /\ writing[k].by = c
             /\ c \in Request /\ r.answer = req[c].answer /\ r.pc = "ended" /\ r.error = "internal"
    <3>1. Earned(req, k, writing[k]) BY <2>3 DEF SynthesisIInv, RowsAreHeld
    <3> QED BY <1>1, <2>3, <3>1 DEF Earned, Orphaned
  <2> QED BY <2>1, <2>2, <2>3 DEF Holds
<1>8. StoreIsEarned'
  <2> SUFFICES ASSUME NEW k \in DOMAIN store'
               PROVE  /\ Earned(req', k, store'[k]) /\ store'[k].by \in Request
                      /\ req'[store'[k].by].pc \in {"committed", "ended"}
                      /\ req'[store'[k].by].error \in {None, "internal"}
    BY DEF StoreIsEarned
  <2>1. CASE k \in DOMAIN store /\ store'[k] = store[k]
    <3>1. /\ Earned(req, k, store[k]) /\ store[k].by \in Request
          /\ req[store[k].by].pc \in {"committed", "ended"} /\ req[store[k].by].error \in {None, "internal"}
      BY <2>1 DEF SynthesisIInv, StoreIsEarned
    <3>2. CASE store[k].by = c
      <4>1. req[c].pc = "committed" BY <3>1, <3>2 DEF StepOf
      <4>2. r.pc = "ended" /\ r.answer = req[c].answer /\ r.error \in {None, "internal"} BY <4>1 DEF StepOf
      <4> QED BY <1>1, <2>1, <3>1, <3>2, <4>2 DEF Earned
    <3>3. CASE store[k].by # c
      <4>1. req'[store[k].by] = req[store[k].by] /\ Earned(req', k, store[k]) BY <1>4, <3>1, <3>3
      <4> QED BY <2>1, <3>1, <4>1 DEF Earned
    <3> QED BY <3>2, <3>3
  <2>2. CASE k = KeyOf(c, r) /\ store'[k] = r.answer /\ r.pc = "committed" /\ c \in Request
    <3>1. r.answer.by = c /\ Earned(req', k, r.answer) /\ r.error = None BY <1>5, <2>2 DEF Saving
    <3> QED BY <1>1, <2>2, <3>1 DEF Earned
  <2> QED BY <2>1, <2>2 DEF Stores
<1>6. StoreRemembers'
  <2>1. ASSUME NEW d \in Request, Kept(req'[d]) PROVE KeyOf(d, req'[d]) \in DOMAIN store'
    <3>0. d \in Client BY DEF Client
    <3>1. CASE d = c BY <1>1, <2>1, <3>1 DEF Stores
    <3>2. CASE d # c
      <4>1. req'[d] = req[d] BY <1>1, <3>0, <3>2
      <4>2. KeyOf(d, req[d]) \in DOMAIN store BY <2>1, <4>1 DEF SynthesisIInv, StoreRemembers
      <4> QED BY <4>1, <4>2 DEF Stores
    <3> QED BY <3>1, <3>2
  <2>2. ASSUME NEW a \in Client, NEW d \in before'[a] \cap Request, Paying(req'[a]), ~req'[a].force
        PROVE  KeyOf(a, req'[a]) # KeyOf(d, req'[d])
    <3>1. CASE a = c
      <4>1. d \in Client /\ Answers(req[d]) BY <3>1 DEF Asks, Client
      <4>2. req'[d] = req[d] BY <1>2, <4>1
      <4> QED BY <1>1, <2>2, <3>1, <4>2 DEF Asks
    <3>2. CASE a # c
      <4>1. req'[a] = req[a] /\ before'[a] = before[a] BY <1>1, <3>2 DEF Asks
      <4>2. d \in Client /\ Answers(req[d]) BY <4>1 DEF SynthesisIInv, ClientsAreSound, Client
      <4>3. req'[d] = req[d] BY <1>2, <4>2
      <4> QED BY <2>2, <4>1, <4>3 DEF SynthesisIInv, StoreRemembers
    <3> QED BY <3>1, <3>2
  <2> QED BY <2>1, <2>2 DEF StoreRemembers
<1> QED BY <1>3, <1>6, <1>7, <1>8 DEF SynthesisIInv, StepOf
---------------------------------------------------------------------------
(* Steps that touch neither rows nor the store.                            *)
Remains(c, r) ==
  Paying(r) /\ ~r.force => \A d \in before[c] \cap Request : KeyOf(c, r) # KeyOf(d, req[d])

LEMMA QuietStep ==
  ASSUME SynthesisIInv, NEW c \in Client, NEW r, StepOf(c, r), req[c].pc # "flushed",
         c \in Request /\ Kept(r) => KeyOf(c, r) \in DOMAIN store, Remains(c, r),
         UNCHANGED <<store, writing, before>>
  PROVE  SynthesisIInv'
<1>1. Holds(c, r) BY DEF Holds, SynthesisIInv, RowsAreHeld, Orphaned, StepOf
<1>2. Stores(c, r) BY DEF Stores
<1>3. Asks(c, r) BY DEF Asks, Remains, SynthesisIInv, ClientsAreSound
<1> QED BY <1>1, <1>2, <1>3, Steps

LEMMA Record ==
  ASSUME SynthesisIInv, NEW c \in Client
  PROVE  /\ req[c] \in Rec /\ Sound(c, req[c])
         /\ Paying(req[c]) /\ ~req[c].force =>
              \A d \in before[c] \cap Request : KeyOf(c, req[c]) # KeyOf(d, req[d])
BY DEF SynthesisIInv, ClientsAreSound, StoreRemembers

LEMMA FreshIs ==
  /\ Fresh \in Rec /\ Unspent(Fresh) /\ Fresh.attempt = 0 /\ ~Fresh.repairing /\ ~Fresh.hit /\ Fresh.kind = None
  /\ Fresh.pc = "idle" /\ Fresh.got = None /\ Fresh.error = None
<1>1. 0 \in 0..(MaxAttempts - 1) /\ Cap \in 0..Cap BY Sizes
<1>2. <<>> \in Seq(Nat) OBVIOUS
<1>3. Fresh \in Rec BY <1>1, <1>2 DEF Fresh, Rec
<1> QED BY <1>3 DEF Fresh, Unspent

LEMMA FailureIs ==
  ASSUME NEW c, NEW e \in DOMAIN Statuses, req[c].posts \in Nat, req[c].remaining \in 0..Cap,
         req[c].answer \in Artifact \cup {None}
  PROVE  /\ Failed(c, e) \in Rec
         /\ Failed(c, e).pc = "ended" /\ Failed(c, e).error = e
         /\ Failed(c, e).kind = None /\ Failed(c, e).got = None /\ ~Failed(c, e).hit
         /\ Failed(c, e).posts = req[c].posts /\ Failed(c, e).remaining = req[c].remaining
         /\ Failed(c, e).answer = req[c].answer
<1> DEFINE F1 == [Fresh EXCEPT !.pc = "ended"]
           F2 == [F1 EXCEPT !.error = e]
           F3 == [F2 EXCEPT !.posts = req[c].posts]
           F4 == [F3 EXCEPT !.remaining = req[c].remaining]
           F5 == [F4 EXCEPT !.answer = req[c].answer]
<1>1. F1 \in Rec /\ F1.pc = "ended" /\ F1.kind = None /\ F1.got = None /\ ~F1.hit BY FreshIs DEF Rec
<1>2. F2 \in Rec /\ F2.pc = "ended" /\ F2.kind = None /\ F2.got = None /\ ~F2.hit /\ F2.error = e
  <2> HIDE DEF F1
  <2> QED BY <1>1 DEF Rec
<1>3. F3 \in Rec /\ F3.pc = "ended" /\ F3.kind = None /\ F3.got = None /\ ~F3.hit /\ F3.error = e
      /\ F3.posts = req[c].posts
  <2> HIDE DEF F2
  <2> QED BY <1>2 DEF Rec
<1>4. F4 \in Rec /\ F4.pc = "ended" /\ F4.kind = None /\ F4.got = None /\ ~F4.hit /\ F4.error = e
      /\ F4.posts = req[c].posts /\ F4.remaining = req[c].remaining
  <2> HIDE DEF F3
  <2> QED BY <1>3 DEF Rec
<1>5. F5 \in Rec /\ F5.pc = "ended" /\ F5.kind = None /\ F5.got = None /\ ~F5.hit /\ F5.error = e
      /\ F5.posts = req[c].posts /\ F5.remaining = req[c].remaining /\ F5.answer = req[c].answer
  <2> HIDE DEF F4
  <2> QED BY <1>4 DEF Rec
<1>6. Failed(c, e) = F5 BY DEF Failed
<1> QED BY <1>5, <1>6

LEMMA Ending ==
  ASSUME SynthesisIInv, NEW c \in Client, NEW e \in DOMAIN Statuses, NEW r,
         r = Failed(c, e) \/ r = [Failed(c, e) EXCEPT !.posts = @ + 1], Unspent(r) \/ Spent(r)
  PROVE  r \in Rec /\ Sound(c, r) /\ r.pc = "ended" /\ ~Kept(r) /\ ~Paying(r)
         /\ r.answer = req[c].answer /\ r.error = e
<1>1. r \in Rec /\ r.pc = "ended" /\ r.error = e /\ r.got = None /\ r.kind = None /\ ~r.hit
      /\ r.answer = req[c].answer
  <2>1. req[c].remaining \in 0..Cap /\ req[c].posts \in Nat /\ req[c].answer \in Artifact \cup {None}
    BY Record DEF Rec
  <2> DEFINE f == Failed(c, e)
  <2>2. /\ f \in Rec /\ f.pc = "ended" /\ f.error = e /\ f.got = None /\ f.kind = None /\ ~f.hit
        /\ f.answer = req[c].answer
    BY FailureIs, <2>1
  <2>3. r = f \/ r = [f EXCEPT !.posts = @ + 1] OBVIOUS
  <2> HIDE DEF f
  <2>4. CASE r = f BY <2>2, <2>4
  <2>5. CASE r = [f EXCEPT !.posts = @ + 1]
    <3>0. f.posts \in Nat BY <2>2 DEF Rec
    <3>1. f.posts + 1 \in Nat BY <3>0
    <3> QED BY <2>2, <2>5, <3>1 DEF Rec
  <2> QED BY <2>3, <2>4, <2>5
<1>2. e # None BY Sizes
<1> QED BY <1>1, <1>2 DEF Sound, Answers, Kept, Paying, Gathering, Saving

LEMMA FailStep ==
  ASSUME SynthesisIInv, NEW c \in Client, NEW e \in DOMAIN Statuses, NEW r,
         r = Failed(c, e) \/ r = [Failed(c, e) EXCEPT !.posts = @ + 1], Unspent(r) \/ Spent(r),
         Set(c, r), req[c].pc \notin {"ended", "flushed", "committed"},
         UNCHANGED <<observed, release, store, writing, before>>
  PROVE  SynthesisIInv'
<1>1. r \in Rec /\ Sound(c, r) /\ ~Kept(r) /\ ~Paying(r) BY Ending
<1>2. StepOf(c, r) /\ Remains(c, r) BY <1>1 DEF StepOf, Remains
<1> QED BY <1>1, <1>2, QuietStep

LEMMA UnspentFailure ==
  ASSUME SynthesisIInv, NEW c \in Client, NEW e \in DOMAIN Statuses, Unspent(req[c])
  PROVE  Unspent(Failed(c, e))
<1>1. req[c].remaining \in 0..Cap /\ req[c].posts \in Nat /\ req[c].answer \in Artifact \cup {None}
  BY Record DEF Rec
<1> QED BY <1>1, FailureIs DEF Unspent

LEMMA SpentFailure ==
  ASSUME SynthesisIInv, NEW c \in Client, NEW e \in DOMAIN Statuses, Spent(req[c])
  PROVE  Spent(Failed(c, e))
<1>1. req[c].remaining \in 0..Cap /\ req[c].posts \in Nat /\ req[c].answer \in Artifact \cup {None}
  BY Record DEF Rec
<1> QED BY <1>1, FailureIs DEF Spent

LEMMA Errors ==
  {"limit", "rate", "network", "validation", "provider", "missing", "refused", "internal"} = DOMAIN Statuses
BY DEF Statuses
---------------------------------------------------------------------------
LEMMA Starts ==
  ASSUME SynthesisIInv, NEW c \in Client, NEW k \in Kind, NEW f \in BOOLEAN, Start(c, k, f)
  PROVE  SynthesisIInv'
<1> DEFINE r == [req[c] EXCEPT !.pc = "reading", !.kind = k, !.force = f, !.release = release]
<1>1. req[c] \in Rec /\ req[c] = Fresh BY Record DEF Sound, Start
<1>2. r \in Rec /\ r.pc = "reading" /\ r.kind = k /\ Unspent(r) /\ r.attempt = 0 /\ ~r.repairing
      /\ r.got = None /\ r.error = None /\ ~r.hit
  <2>1. release \in Nat BY Sizes DEF SynthesisIInv
  <2>2. req[c] \in Rec /\ req[c].posts = 0 /\ req[c].remaining = Cap /\ req[c].attempt = 0 /\ ~req[c].repairing
        /\ req[c].got = None /\ req[c].error = None /\ ~req[c].hit
    BY <1>1, FreshIs DEF Unspent
  <2> DEFINE x == [req[c] EXCEPT !.pc = "reading", !.kind = k]
             y == [x EXCEPT !.force = f]
  <2>3. x \in Rec /\ x.posts = 0 /\ x.remaining = Cap /\ x.attempt = 0 /\ ~x.repairing
        /\ x.got = None /\ x.error = None /\ ~x.hit /\ x.pc = "reading" /\ x.kind = k
    BY <2>2 DEF Rec, Gathering
  <2>4. r = [y EXCEPT !.release = release] OBVIOUS
  <2> HIDE DEF x
  <2>5. y \in Rec /\ y.posts = 0 /\ y.remaining = Cap /\ y.attempt = 0 /\ ~y.repairing
        /\ y.got = None /\ y.error = None /\ ~y.hit /\ y.pc = "reading" /\ y.kind = k
    BY <2>3 DEF Rec
  <2> HIDE DEF y
  <2> QED BY <2>1, <2>4, <2>5 DEF Rec, Unspent
<1>3. Sound(c, r) BY <1>2 DEF Sound, Gathering, Saving
<1>4. ~Paying(r) /\ ~Kept(r) BY <1>2 DEF Paying, Kept, Answers, Saving
<1>5. StepOf(c, r) BY <1>2, <1>3 DEF StepOf, Start
<1> HIDE DEF r
<1>6. Holds(c, r) BY DEF Holds, SynthesisIInv, RowsAreHeld, Orphaned, Start
<1>7. Stores(c, r) BY <1>4 DEF Stores, Start
<1>8. Asks(c, r)
  <2>1. before' = [before EXCEPT ![c] = {d \in Client : req[d].pc = "ended" /\ req[d].error = None}] BY DEF Start
  <2> QED BY <1>4, <2>1 DEF Asks, SynthesisIInv, ClientsAreSound, Answers
<1> QED BY <1>5, <1>6, <1>7, <1>8, Steps

LEMMA Refuses ==
  ASSUME SynthesisIInv, NEW c \in Client, Refuse(c)
  PROVE  SynthesisIInv'
<1>1. req[c] = Fresh BY Record DEF Sound, Refuse
<1>2. Unspent(req[c]) BY <1>1, FreshIs
<1> QED BY <1>2, UnspentFailure, FailStep, Errors DEF Refuse, Fail

LEMMA Reads ==
  ASSUME SynthesisIInv, NEW c \in Client, Read(c)
  PROVE  SynthesisIInv'
<1>1. req[c] \in Rec /\ Sound(c, req[c]) /\ req[c].pc = "reading" BY Record DEF Read
<1>2. Unspent(req[c]) BY <1>1 DEF Sound, Gathering
<1>3. CASE observed = 0
  <2>1. Set(c, Failed(c, "missing")) BY <1>3 DEF Read, Fail
  <2> QED BY <1>1, <1>2, <2>1, UnspentFailure, FailStep, Errors DEF Read
<1>4. CASE observed # 0
  <2>1. PICK s \in {Append(req[c].seen, observed)}, p \in Gathering : Set(c, [req[c] EXCEPT !.seen = s, !.pc = p])
    BY <1>4 DEF Read, Gathering
  <2> DEFINE r == [req[c] EXCEPT !.seen = s, !.pc = p]
  <2>2. s \in Seq(Nat)
    <3>1. observed \in Nat BY Sizes DEF SynthesisIInv
    <3>2. req[c].seen \in Seq(Nat) BY <1>1 DEF Rec
    <3>3. \A q \in Seq(Nat), n \in Nat : Append(q, n) \in Seq(Nat) OBVIOUS
    <3> QED BY <3>1, <3>2, <3>3
  <2>3. r \in Rec BY <1>1, <2>2 DEF Rec, Gathering
  <2>4. Sound(c, r) BY <1>1, <2>1 DEF Rec, Sound, Unspent, Gathering, Saving
  <2>5. ~Paying(r) /\ ~Kept(r) BY <1>1, <2>1 DEF Rec, Paying, Kept, Answers, Gathering, Saving
  <2>6. StepOf(c, r) BY <1>1, <2>1, <2>3, <2>4 DEF StepOf, Read
  <2> HIDE DEF r
  <2> QED BY <1>1, <2>5, <2>6, QuietStep DEF Remains, Read
<1> QED BY <1>3, <1>4

LEMMA Fetches ==
  ASSUME SynthesisIInv, NEW c \in Client, FetchText(c)
  PROVE  SynthesisIInv'
<1>1. req[c] \in Rec /\ Sound(c, req[c]) /\ req[c].pc = "text" BY Record DEF FetchText
<1>2. PICK t \in {"", "text"} : Set(c, [req[c] EXCEPT !.text = t, !.pc = "lookup"]) BY DEF FetchText
<1> DEFINE r == [req[c] EXCEPT !.text = t, !.pc = "lookup"]
<1>3. r \in Rec BY <1>1 DEF Rec, Gathering
<1>4. Sound(c, r) BY <1>1 DEF Rec, Sound, Unspent, Gathering, Saving
<1>5. ~Paying(r) /\ ~Kept(r) BY <1>1 DEF Rec, Paying, Kept, Answers, Gathering, Saving
<1>6. StepOf(c, r) BY <1>1, <1>2, <1>3, <1>4 DEF StepOf, FetchText
<1> HIDE DEF r
<1> QED BY <1>1, <1>5, <1>6, QuietStep DEF Remains, FetchText

LEMMA Lookups ==
  ASSUME SynthesisIInv, NEW c \in Client, Lookup(c)
  PROVE  SynthesisIInv'
<1>1. req[c] \in Rec /\ Sound(c, req[c]) /\ req[c].pc = "lookup" BY Record DEF Lookup
<1>2. Unspent(req[c]) /\ req[c].attempt = 0 /\ ~req[c].repairing /\ req[c].kind \in Kind
      /\ req[c].got = None /\ req[c].error = None /\ ~req[c].hit
  BY <1>1 DEF Sound, Gathering
<1>3. Key(c) = KeyOf(c, req[c]) BY DEF Key, KeyOf, Facts, FactsOf
<1>4. CASE ~req[c].force /\ Key(c) \in DOMAIN store
  <2> DEFINE a == store[Key(c)]
             r == [req[c] EXCEPT !.pc = "ended", !.hit = TRUE, !.got = a]
  <2>1. Owed(c, req[c], a)
    <3>1. a \in Artifact /\ a.facts = Key(c).facts /\ a.release = Key(c).release
      BY <1>4 DEF SynthesisIInv, StoreIsEarned, Earned
    <3> QED BY <1>3, <3>1 DEF Owed, KeyOf
  <2> HIDE DEF a
  <2>2. r \in Rec /\ r.pc = "ended" /\ r.hit /\ r.got = a /\ r.error = None
    BY <1>1, <1>2, <2>1 DEF Rec, Owed
  <2>3. KeyOf(c, r) = KeyOf(c, req[c]) /\ FactsOf(c, r) = FactsOf(c, req[c])
    BY <1>1 DEF KeyOf, FactsOf, Rec
  <2>4. r.posts = 0 /\ Unspent(r) /\ r.release = req[c].release /\ r.kind \in Kind BY <1>1, <1>2 DEF Rec, Unspent
  <2>5. Set(c, r) BY <1>4 DEF Lookup, a
  <2> HIDE DEF r
  <2>6. Sound(c, r) BY <2>1, <2>2, <2>3, <2>4 DEF Sound, Owed, Gathering, Saving
  <2>7. ~Paying(r) BY <2>2, <2>4 DEF Paying, Saving, Answers
  <2>8. StepOf(c, r) BY <1>1, <2>2, <2>5, <2>6 DEF StepOf, Lookup
  <2> QED BY <1>1, <1>3, <1>4, <2>3, <2>7, <2>8, QuietStep DEF Remains, Lookup
<1>5. CASE ~(~req[c].force /\ Key(c) \in DOMAIN store) /\ req[c].remaining = 0
  <2>1. Set(c, Failed(c, "limit")) BY <1>5 DEF Lookup, Fail
  <2> QED BY <1>1, <1>2, <2>1, UnspentFailure, FailStep, Errors DEF Lookup
<1>6. CASE ~(~req[c].force /\ Key(c) \in DOMAIN store) /\ req[c].remaining # 0
  <2> DEFINE r == [req[c] EXCEPT !.pc = "posting", !.remaining = @ - 1]
  <2>1. Set(c, r) BY <1>6 DEF Lookup
  <2>2. Cap - 1 \in 0..Cap /\ req[c].remaining = Cap BY <1>2, <1>6, Sizes DEF Unspent
  <2>3. r \in Rec /\ r.pc = "posting" /\ r.posts = 0 /\ r.attempt = 0 /\ ~r.repairing /\ r.kind \in Kind
        /\ r.got = None /\ r.error = None /\ ~r.hit /\ r.remaining = Cap - 1 /\ r.force = req[c].force
    BY <1>1, <1>2, <2>2 DEF Rec, Unspent
  <2>4. KeyOf(c, r) = KeyOf(c, req[c]) BY <1>1 DEF KeyOf, FactsOf, Rec
  <2> HIDE DEF r
  <2>5. Sound(c, r) BY <2>3, Sizes DEF Sound, Gathering, Saving
  <2>6. ~Kept(r) BY <2>3 DEF Answers, Kept
  <2>7. Remains(c, r)
    <3> SUFFICES ASSUME ~r.force, NEW d \in before[c] \cap Request
                 PROVE  KeyOf(c, r) # KeyOf(d, req[d])
      BY DEF Remains
    <3>1. Answers(req[d]) BY DEF SynthesisIInv, ClientsAreSound
    <3>2. KeyOf(d, req[d]) \in DOMAIN store BY <3>1 DEF SynthesisIInv, StoreRemembers, Kept
    <3> QED BY <1>3, <1>6, <2>3, <2>4, <3>2
  <2>8. StepOf(c, r) BY <1>1, <2>1, <2>3, <2>5 DEF StepOf, Lookup
  <2> QED BY <1>1, <2>6, <2>7, <2>8, QuietStep DEF Lookup
<1> QED BY <1>4, <1>5, <1>6
---------------------------------------------------------------------------
(* From the first call of the model to the end, a client keeps its key.    *)
LEMMA KeepsKey ==
  ASSUME SynthesisIInv, NEW c \in Client, NEW r, Paying(req[c]), r.force = req[c].force,
         r.kind = req[c].kind, r.seen = req[c].seen, r.text = req[c].text, r.release = req[c].release
  PROVE  KeyOf(c, r) = KeyOf(c, req[c]) /\ FactsOf(c, r) = FactsOf(c, req[c]) /\ Remains(c, r)
<1>1. KeyOf(c, r) = KeyOf(c, req[c]) /\ FactsOf(c, r) = FactsOf(c, req[c]) BY DEF KeyOf, FactsOf
<1> QED BY <1>1, Record DEF Remains

LEMMA PostingIs ==
  ASSUME SynthesisIInv, NEW c \in Client, Posting(c)
  PROVE  /\ req[c] \in Rec /\ Sound(c, req[c]) /\ req[c].pc = "posting" /\ Paying(req[c])
         /\ Cap - req[c].remaining = 1 /\ req[c].posts \in Nat /\ req[c].attempt \in 0..(MaxAttempts - 1)
         /\ req[c].posts <= (IF req[c].repairing THEN MaxAttempts ELSE 0) + req[c].attempt
         /\ req[c].posts + 1 <= 2 * MaxAttempts
         /\ req[c].kind \in Kind /\ req[c].got = None /\ req[c].error = None /\ ~req[c].hit
<1>1. req[c] \in Rec /\ Sound(c, req[c]) /\ req[c].pc = "posting" BY Record DEF Posting
<1>2. /\ Cap - req[c].remaining = 1
      /\ req[c].posts <= (IF req[c].repairing THEN MaxAttempts ELSE 0) + req[c].attempt
      /\ req[c].kind \in Kind /\ req[c].got = None /\ req[c].error = None /\ ~req[c].hit
  BY <1>1 DEF Sound
<1>3. req[c].posts \in Nat /\ req[c].attempt \in 0..(MaxAttempts - 1) BY <1>1 DEF Rec
<1>4. req[c].posts + 1 <= 2 * MaxAttempts BY <1>2, <1>3, Sizes
<1> QED BY <1>1, <1>2, <1>3, <1>4 DEF Paying

LEMMA PostFails ==
  ASSUME SynthesisIInv, NEW c \in Client, Posting(c), NEW e \in DOMAIN Statuses,
         Set(c, [Failed(c, e) EXCEPT !.posts = @ + 1]), UNCHANGED <<observed, release, store, writing, before>>
  PROVE  SynthesisIInv'
<1> DEFINE f == Failed(c, e)
           r == [f EXCEPT !.posts = @ + 1]
<1>1. req[c].remaining \in 0..Cap /\ req[c].posts \in Nat /\ req[c].answer \in Artifact \cup {None}
  BY Record DEF Rec
<1>2. f \in Rec /\ f.posts = req[c].posts /\ f.remaining = req[c].remaining BY <1>1, FailureIs
<1> HIDE DEF f
<1>3. Spent(r) BY <1>2, PostingIs DEF Spent, Rec
<1> QED BY <1>3, PostingIs, FailStep DEF f

LEMMA PostAgain ==
  ASSUME SynthesisIInv, NEW c \in Client, Posting(c), NEW n \in 0..(MaxAttempts - 1), NEW b \in BOOLEAN, NEW r,
         r = [[req[c] EXCEPT !.posts = @ + 1] EXCEPT !.attempt = n, !.repairing = b],
         req[c].posts + 1 <= (IF b THEN MaxAttempts ELSE 0) + n,
         Set(c, r), UNCHANGED <<observed, release, store, writing, before>>
  PROVE  SynthesisIInv'
<1>1. req[c].posts + 1 \in Nat BY PostingIs
<1>0. req[c] \in Rec BY PostingIs
<1>2. r \in Rec /\ r.posts = req[c].posts + 1 /\ r.attempt = n /\ r.repairing = b
  <2> DEFINE x == [req[c] EXCEPT !.posts = @ + 1]
             y == [x EXCEPT !.attempt = n]
  <2>1. x \in Rec /\ x.posts = req[c].posts + 1 BY <1>0, <1>1 DEF Rec
  <2>2. r = [y EXCEPT !.repairing = b] OBVIOUS
  <2> HIDE DEF x
  <2>3. y \in Rec /\ y.posts = req[c].posts + 1 /\ y.attempt = n BY <2>1 DEF Rec
  <2> HIDE DEF y
  <2> QED BY <2>2, <2>3 DEF Rec
<1>3. r.pc = "posting" /\ r.kind = req[c].kind /\ r.seen = req[c].seen /\ r.text = req[c].text
      /\ r.release = req[c].release /\ r.force = req[c].force /\ r.remaining = req[c].remaining
  BY PostingIs DEF Rec
<1>4. r.got = None /\ r.error = None /\ ~r.hit BY PostingIs DEF Rec
<1>5. Sound(c, r) BY <1>2, <1>3, <1>4, PostingIs DEF Sound, Gathering, Saving
<1>6. StepOf(c, r) BY <1>2, <1>5, PostingIs DEF StepOf
<1>7. Remains(c, r) BY <1>3, PostingIs, KeepsKey
<1> QED BY <1>3, <1>6, <1>7, PostingIs, QuietStep DEF Answers, Kept

LEMMA Transients ==
  ASSUME SynthesisIInv, NEW c \in Client, Transient(c)
  PROVE  SynthesisIInv'
<1>1. Posting(c) BY DEF Transient
<1>2. CASE req[c].attempt + 1 < MaxAttempts
  <2>1. Set(c, [Posted(c) EXCEPT !.attempt = @ + 1]) BY <1>2 DEF Transient
  <2> DEFINE n == req[c].attempt + 1
             b == req[c].repairing
  <2>2. n \in 0..(MaxAttempts - 1) BY <1>1, <1>2, PostingIs, Sizes
  <2>5. b \in BOOLEAN BY <1>1, PostingIs DEF Rec
  <2>3. [Posted(c) EXCEPT !.attempt = @ + 1]
          = [[req[c] EXCEPT !.posts = @ + 1] EXCEPT !.attempt = n, !.repairing = b]
    BY <1>1, PostingIs DEF Posted, Rec
  <2>4. req[c].posts + 1 <= (IF b THEN MaxAttempts ELSE 0) + n BY <1>1, PostingIs, Sizes
  <2> HIDE DEF n, b
  <2> QED BY <1>1, <2>1, <2>2, <2>3, <2>4, <2>5, PostAgain DEF Transient
<1>3. CASE ~(req[c].attempt + 1 < MaxAttempts)
  BY <1>1, <1>3, PostFails, Errors DEF Transient
<1> QED BY <1>2, <1>3

LEMMA Malforms ==
  ASSUME SynthesisIInv, NEW c \in Client, Malformed(c)
  PROVE  SynthesisIInv'
<1>1. Posting(c) BY DEF Malformed
<1>2. CASE req[c].repairing BY <1>1, <1>2, PostFails, Errors DEF Malformed
<1>3. CASE ~req[c].repairing
  <2>1. Set(c, [Posted(c) EXCEPT !.repairing = TRUE, !.attempt = 0]) BY <1>3 DEF Malformed
  <2>2. [Posted(c) EXCEPT !.repairing = TRUE, !.attempt = 0]
          = [[req[c] EXCEPT !.posts = @ + 1] EXCEPT !.attempt = 0, !.repairing = TRUE]
    BY <1>1, PostingIs DEF Posted, Rec
  <2>3. req[c].posts + 1 <= MaxAttempts + 0 /\ 0 \in 0..(MaxAttempts - 1) BY <1>1, <1>3, PostingIs, Sizes
  <2> QED BY <1>1, <2>1, <2>2, <2>3, PostAgain DEF Malformed
<1> QED BY <1>2, <1>3

LEMMA Rejections ==
  ASSUME SynthesisIInv, NEW c \in Client, Rejected(c)
  PROVE  SynthesisIInv'
<1>1. PICK e \in {"rate", "provider", "internal"} : Set(c, [Failed(c, e) EXCEPT !.posts = @ + 1])
  BY DEF Rejected
<1> QED BY <1>1, PostFails, Errors DEF Rejected

LEMMA Answering ==
  ASSUME SynthesisIInv, NEW c \in Client, Answered(c)
  PROVE  SynthesisIInv'
<1>1. Posting(c) BY DEF Answered
<1>2. PICK x \in {"known", "unknown"} :
        Set(c, [Posted(c) EXCEPT !.pc = "saving",
                  !.answer = [by |-> c, cites |-> x, facts |-> Facts(c), release |-> req[c].release]])
  BY DEF Answered
<1> DEFINE a == [by |-> c, cites |-> x, facts |-> Facts(c), release |-> req[c].release]
           r == [Posted(c) EXCEPT !.pc = "saving", !.answer = a]
<1>3. a \in Artifact /\ a.by = c /\ a.facts = FactsOf(c, req[c]) /\ a.release = req[c].release
  <2>1. Facts(c) = FactsOf(c, req[c]) BY DEF Facts, FactsOf
  <2>2. req[c] \in Rec BY Record
  <2>3. FactsOf(c, req[c]) \in [text : {"", "text"}, seen : Seq(Nat)] BY <2>2, FactsTyped
  <2>4. req[c].release \in Nat BY <2>2 DEF Rec
  <2> QED BY <2>1, <2>3, <2>4 DEF Artifact
<1> HIDE DEF a
<1>4. req[c].posts + 1 \in Nat BY <1>1, PostingIs
<1>5. r \in Rec /\ r.pc = "saving" /\ r.answer = a /\ r.posts = req[c].posts + 1
  <2>1. req[c] \in Rec BY <1>1, PostingIs
  <2>2. Posted(c) \in Rec /\ Posted(c).posts = req[c].posts + 1 BY <2>1, <1>4 DEF Posted, Rec
  <2> QED BY <1>3, <2>2 DEF Rec, Saving
<1>6. r.kind = req[c].kind /\ r.seen = req[c].seen /\ r.text = req[c].text
      /\ r.release = req[c].release /\ r.force = req[c].force /\ r.remaining = req[c].remaining
  BY <1>1, PostingIs DEF Rec, Posted
<1>7. r.got = None /\ r.error = None /\ ~r.hit BY <1>1, PostingIs DEF Rec, Posted
<1>8. Set(c, r) BY <1>2 DEF a
<1> HIDE DEF r
<1>9. FactsOf(c, r) = FactsOf(c, req[c]) /\ Remains(c, r) BY <1>1, <1>6, PostingIs, KeepsKey
<1>10. Spent(r) BY <1>1, <1>5, <1>6, PostingIs DEF Spent
<1>11. Sound(c, r)
  BY <1>1, <1>3, <1>5, <1>6, <1>7, <1>9, <1>10, PostingIs DEF Sound, Owed, Gathering, Saving
<1>12. StepOf(c, r) BY <1>1, <1>5, <1>8, <1>11, PostingIs DEF StepOf, Answered
<1> QED BY <1>1, <1>5, <1>9, <1>12, PostingIs, QuietStep DEF Answers, Kept, Answered
---------------------------------------------------------------------------
LEMMA SavingIs ==
  ASSUME SynthesisIInv, NEW c \in Client, req[c].pc \in Saving
  PROVE  /\ req[c] \in Rec /\ Sound(c, req[c]) /\ Paying(req[c]) /\ Spent(req[c])
         /\ Owed(c, req[c], req[c].answer) /\ req[c].answer.by = c
         /\ req[c].kind \in Kind /\ req[c].got = None /\ req[c].error = None /\ ~req[c].hit
         /\ req[c].pc \notin {"idle", "posting", "ended"} \cup Gathering
         /\ Key(c) = KeyOf(c, req[c])
<1>1. req[c] \in Rec /\ Sound(c, req[c]) BY Record
<1>2. Key(c) = KeyOf(c, req[c]) BY DEF Key, KeyOf, Facts, FactsOf
<1> QED BY <1>1, <1>2 DEF Sound, Paying, Saving, Gathering

SavedAs(c, p, b) == [req[c] EXCEPT !.pc = p, !.exists = b]

LEMMA SavingOn ==
  ASSUME SynthesisIInv, NEW c \in Client, req[c].pc \in Saving, NEW p \in Saving, NEW b \in BOOLEAN
  PROVE  /\ SavedAs(c, p, b) \in Rec /\ Sound(c, SavedAs(c, p, b)) /\ SavedAs(c, p, b).pc = p
         /\ KeyOf(c, SavedAs(c, p, b)) = KeyOf(c, req[c]) /\ Remains(c, SavedAs(c, p, b))
         /\ SavedAs(c, p, b).answer = req[c].answer /\ ~Answers(SavedAs(c, p, b))
<1> DEFINE r == SavedAs(c, p, b)
<1>0. req[c] \in Rec /\ req[c].got = None /\ req[c].error = None /\ ~req[c].hit BY SavingIs
<1>1. r \in Rec /\ r.pc = p BY <1>0 DEF Rec, SavedAs
<1>2. r.kind = req[c].kind /\ r.seen = req[c].seen /\ r.text = req[c].text /\ r.answer = req[c].answer
      /\ r.release = req[c].release /\ r.force = req[c].force /\ r.remaining = req[c].remaining
      /\ r.posts = req[c].posts
  BY <1>0 DEF Rec, SavedAs
<1>3. r.got = None /\ r.error = None /\ ~r.hit BY <1>0 DEF Rec, SavedAs
<1> HIDE DEF r
<1>4. KeyOf(c, r) = KeyOf(c, req[c]) /\ FactsOf(c, r) = FactsOf(c, req[c]) /\ Remains(c, r)
  BY <1>2, SavingIs, KeepsKey
<1>5. Sound(c, r) BY <1>1, <1>2, <1>3, <1>4, SavingIs DEF Sound, Owed, Spent, Gathering, Saving
<1>6. ~Answers(r) BY <1>1 DEF Answers, Saving
<1> QED BY <1>1, <1>2, <1>4, <1>5, <1>6 DEF r

LEMMA Selects ==
  ASSUME SynthesisIInv, NEW c \in Client, Select(c)
  PROVE  SynthesisIInv'
<1>1. req[c].pc \in Saving /\ req[c].pc = "saving" BY DEF Select, Saving
<1> DEFINE b == Key(c) \in DOMAIN store
           r == SavedAs(c, "flushing", b)
<1>2. b \in BOOLEAN OBVIOUS
<1>3. Set(c, r) BY DEF Select, SavedAs
<1> HIDE DEF b
<1>4. "flushing" \in Saving BY DEF Saving
<1>5. r \in Rec /\ Sound(c, r) /\ Remains(c, r) /\ r.pc = "flushing" /\ ~Answers(r)
  BY <1>1, <1>2, <1>4, SavingOn
<1> HIDE DEF r
<1>6. StepOf(c, r) BY <1>1, <1>3, <1>5 DEF StepOf, Select
<1> QED BY <1>1, <1>5, <1>6, QuietStep DEF Select, Kept

LEMMA SavingFails ==
  ASSUME SynthesisIInv, NEW c \in Client, req[c].pc \in {"saving", "flushing"}, NEW e \in DOMAIN Statuses,
         Fail(c, e), UNCHANGED <<observed, release, store, writing, before>>
  PROVE  SynthesisIInv'
<1>1. Spent(Failed(c, e)) BY SavingIs, SpentFailure DEF Saving
<1> QED BY <1>1, FailStep DEF Fail

LEMMA Flushes ==
  ASSUME SynthesisIInv, NEW c \in Client, Flush(c)
  PROVE  SynthesisIInv'
<1>1. req[c].pc \in Saving /\ req[c].pc = "flushing" BY DEF Flush, Saving
<1>2. CASE ~req[c].exists /\ Key(c) \in DOMAIN store BY <1>1, <1>2, SavingFails, Errors DEF Flush
<1>3. CASE ~(~req[c].exists /\ Key(c) \in DOMAIN store)
  <2> DEFINE b == req[c].exists
             r == SavedAs(c, "flushed", b)
  <2>0. req[c] \in Rec BY <1>1, SavingIs
  <2>1. b \in BOOLEAN /\ r = [req[c] EXCEPT !.pc = "flushed"] BY <2>0 DEF Rec, SavedAs
  <2>2. writing' = [k \in DOMAIN writing \cup {Key(c)} |-> IF k = Key(c) THEN req[c].answer ELSE writing[k]]
        /\ Set(c, r)
    BY <1>3, <2>1 DEF Flush
  <2> HIDE DEF b
  <2>3. "flushed" \in Saving BY DEF Saving
  <2>4. r \in Rec /\ Sound(c, r) /\ r.pc = "flushed" /\ KeyOf(c, r) = KeyOf(c, req[c]) /\ Remains(c, r)
        /\ r.answer = req[c].answer /\ ~Kept(r)
    BY <1>1, <2>1, <2>3, SavingOn DEF Kept
  <2> HIDE DEF r
  <2>5. StepOf(c, r) BY <1>1, <2>2, <2>4 DEF StepOf, Flush
  <2>6. Key(c) = KeyOf(c, r) BY <1>1, <2>4, SavingIs
  <2>7. Holds(c, r)
    <3> SUFFICES ASSUME NEW k \in DOMAIN writing'
                 PROVE  \/ k \in DOMAIN writing /\ writing'[k] = writing[k] /\ writing[k].by # c
                        \/ writing'[k] = r.answer /\ r.pc = "flushed" /\ k = KeyOf(c, r)
      BY DEF Holds
    <3>1. CASE k = Key(c) BY <2>2, <2>4, <2>6, <3>1
    <3>2. CASE k # Key(c)
      <4>1. k \in DOMAIN writing /\ writing'[k] = writing[k] BY <2>2, <3>2
      <4> QED BY <1>1, <4>1 DEF SynthesisIInv, RowsAreHeld, Orphaned
    <3> QED BY <3>1, <3>2
  <2>8. Stores(c, r) BY <2>4 DEF Stores, Flush
  <2>9. Asks(c, r) BY <2>4 DEF Asks, Remains, Flush, SynthesisIInv, ClientsAreSound
  <2> QED BY <2>5, <2>7, <2>8, <2>9, Steps
<1> QED BY <1>2, <1>3

LEMMA LockTimeouts ==
  ASSUME SynthesisIInv, NEW c \in Client, LockTimeout(c)
  PROVE  SynthesisIInv'
BY SavingFails, Errors DEF LockTimeout

LEMMA Released ==
  ASSUME NEW c, NEW r, Release(c)
  PROVE  Holds(c, r)
BY DEF Release, Holds

LEMMA Serves ==
  ASSUME SynthesisIInv, NEW c \in Client, req[c].pc \in {"flushed", "committed"}, NEW r,
         r = [req[c] EXCEPT !.pc = "ended", !.got = req[c].answer]
  PROVE  /\ r \in Rec /\ Sound(c, r) /\ Answers(r) /\ KeyOf(c, r) = KeyOf(c, req[c]) /\ Remains(c, r)
         /\ r.pc = "ended" /\ r.answer = req[c].answer /\ r.error = None
<1>1. req[c].pc \in Saving BY DEF Saving
<1>0. req[c] \in Rec /\ req[c].error = None /\ ~req[c].hit /\ req[c].answer \in Artifact BY <1>1, SavingIs DEF Owed
<1>2. r \in Rec /\ r.pc = "ended" /\ r.got = req[c].answer
  <2> DEFINE x == [req[c] EXCEPT !.pc = "ended"]
  <2>0. req[c] \in Rec BY <1>0
  <2>1. x \in Rec BY <2>0 DEF Rec
  <2>2. r = [x EXCEPT !.got = req[c].answer] /\ r.pc = "ended" /\ r.got = req[c].answer BY <1>0 DEF Rec
  <2> HIDE DEF x
  <2>3. r \in Rec BY <1>0, <2>1, <2>2 DEF Rec
  <2> QED BY <2>2, <2>3
<1>3. r.kind = req[c].kind /\ r.seen = req[c].seen /\ r.text = req[c].text
      /\ r.release = req[c].release /\ r.force = req[c].force /\ r.remaining = req[c].remaining
      /\ r.posts = req[c].posts /\ r.answer = req[c].answer
  BY <1>0 DEF Rec
<1>4. r.error = None /\ ~r.hit BY <1>0 DEF Rec
<1>5. KeyOf(c, r) = KeyOf(c, req[c]) /\ FactsOf(c, r) = FactsOf(c, req[c]) /\ Remains(c, r)
  BY <1>1, <1>3, SavingIs, KeepsKey
<1>6. Sound(c, r) BY <1>1, <1>2, <1>3, <1>4, <1>5, SavingIs DEF Sound, Owed, Spent, Gathering, Saving
<1> QED BY <1>2, <1>3, <1>4, <1>5, <1>6 DEF Answers

LEMMA Commits ==
  ASSUME SynthesisIInv, NEW c \in Client, Commit(c)
  PROVE  SynthesisIInv'
<1> DEFINE b == req[c].exists
           r == SavedAs(c, "committed", b)
<1>1. req[c].pc = "flushed" /\ req[c].pc \in Saving /\ "committed" \in Saving BY DEF Commit, Saving
<1>2. req[c] \in Rec BY <1>1, SavingIs
<1>3. b \in BOOLEAN /\ r = [req[c] EXCEPT !.pc = "committed"] BY <1>2 DEF Rec, SavedAs
<1>4. Set(c, r) BY <1>3 DEF Commit
<1> HIDE DEF b
<1>5. /\ r \in Rec /\ Sound(c, r) /\ r.pc = "committed" /\ KeyOf(c, r) = KeyOf(c, req[c]) /\ Remains(c, r)
      /\ r.answer = req[c].answer
  BY <1>1, <1>3, SavingOn
<1> HIDE DEF r
<1>6. Key(c) = KeyOf(c, r) BY <1>1, <1>5, SavingIs
<1>7. StepOf(c, r) BY <1>1, <1>4, <1>5 DEF StepOf, Commit
<1>8. Holds(c, r) BY Released DEF Commit
<1>9. Stores(c, r)
  <2>1. store' = [k \in DOMAIN store \cup {Key(c)} |-> IF k = Key(c) THEN req[c].answer ELSE store[k]] /\ c \in Request
    BY DEF Commit, Stored
  <2> QED BY <1>5, <1>6, <2>1 DEF Stores
<1>10. Asks(c, r) BY <1>5 DEF Asks, Remains, Commit, SynthesisIInv, ClientsAreSound
<1> QED BY <1>7, <1>8, <1>9, <1>10, Steps

LEMMA Delivers ==
  ASSUME SynthesisIInv, NEW c \in Client, Deliver(c)
  PROVE  SynthesisIInv'
<1> DEFINE r == [req[c] EXCEPT !.pc = "ended", !.got = req[c].answer]
<1>1. req[c].pc = "committed" BY DEF Deliver
<1>2. Set(c, r) BY DEF Deliver, Serve
<1> HIDE DEF r
<1>3. /\ r \in Rec /\ Sound(c, r) /\ KeyOf(c, r) = KeyOf(c, req[c]) /\ Remains(c, r)
      /\ r.pc = "ended" /\ r.answer = req[c].answer /\ r.error = None
  BY <1>1, Serves DEF r
<1>4. StepOf(c, r) BY <1>1, <1>2, <1>3 DEF StepOf, Deliver
<1>5. c \in Request => KeyOf(c, r) \in DOMAIN store
  BY <1>1, <1>3 DEF SynthesisIInv, StoreRemembers, Kept
<1> QED BY <1>1, <1>3, <1>4, <1>5, QuietStep DEF Deliver

LEMMA Abandons ==
  ASSUME SynthesisIInv, NEW c \in Client, Abandon(c)
  PROVE  SynthesisIInv'
<1> DEFINE r == Failed(c, "internal")
<1>1. req[c].pc = "flushed" /\ req[c].pc \in Saving /\ c \in Request BY DEF Abandon, Saving
<1>2. "internal" \in DOMAIN Statuses BY Errors
<1>3. Spent(r) BY <1>1, <1>2, SavingIs, SpentFailure
<1>4. Set(c, r) BY DEF Abandon, Fail
<1>5. /\ r \in Rec /\ Sound(c, r) /\ r.pc = "ended" /\ ~Kept(r) /\ ~Paying(r)
      /\ r.answer = req[c].answer /\ r.error = "internal"
  BY <1>2, <1>3, Ending
<1> HIDE DEF r
<1>6. StepOf(c, r) BY <1>1, <1>4, <1>5 DEF StepOf, Abandon
<1>7. Holds(c, r) BY <1>1, <1>5 DEF Holds, Abandon
<1>8. Stores(c, r) BY <1>5 DEF Stores, Abandon
<1>9. Asks(c, r) BY <1>5 DEF Asks, Abandon, SynthesisIInv, ClientsAreSound
<1> QED BY <1>6, <1>7, <1>8, <1>9, Steps

(* What the server does with the transaction of an abandoned request.      *)
LEMMA LateEndings ==
  ASSUME SynthesisIInv, NEW k \in DOMAIN writing, LateCommit(k) \/ LateRollback(k)
  PROVE  SynthesisIInv'
<1>1. /\ req[writing[k].by].pc = "ended" /\ writing' = [j \in DOMAIN writing \ {k} |-> writing[j]]
      /\ UNCHANGED <<observed, release, req, before>>
  BY DEF LateCommit, LateRollback, Outlived
<1>2. Earned(req, k, writing[k]) /\ Orphaned(req, writing[k].by) BY <1>1 DEF SynthesisIInv, RowsAreHeld
<1>3. ClientsAreSound' BY <1>1 DEF SynthesisIInv, ClientsAreSound
<1>4. RowsAreHeld' BY <1>1 DEF SynthesisIInv, RowsAreHeld, Earned, Orphaned
<1>5. CASE LateRollback(k)
  <2>1. store' = store BY <1>5 DEF LateRollback
  <2>2. StoreIsEarned' BY <1>1, <2>1 DEF SynthesisIInv, StoreIsEarned, Earned
  <2>3. StoreRemembers' BY <1>1, <2>1 DEF SynthesisIInv, StoreRemembers
  <2> QED BY <1>1, <1>3, <1>4, <2>2, <2>3 DEF SynthesisIInv
<1>6. CASE LateCommit(k)
  <2>1. store' = [j \in DOMAIN store \cup {k} |-> IF j = k THEN writing[k] ELSE store[j]]
    BY <1>6 DEF LateCommit, Stored
  <2>2. StoreIsEarned'
    <3> SUFFICES ASSUME NEW j \in DOMAIN store'
                 PROVE  /\ Earned(req, j, store'[j]) /\ store'[j].by \in Request
                        /\ req[store'[j].by].pc \in {"committed", "ended"}
                        /\ req[store'[j].by].error \in {None, "internal"}
      BY <1>1 DEF StoreIsEarned, Earned
    <3>1. CASE j = k BY <1>2, <2>1, <3>1 DEF Orphaned
    <3>2. CASE j # k
      <4>1. j \in DOMAIN store /\ store'[j] = store[j] BY <2>1, <3>2
      <4> QED BY <4>1 DEF SynthesisIInv, StoreIsEarned
    <3> QED BY <3>1, <3>2
  <2>3. StoreRemembers' BY <1>1, <2>1 DEF SynthesisIInv, StoreRemembers
  <2> QED BY <1>1, <1>3, <1>4, <2>2, <2>3 DEF SynthesisIInv
<1> QED BY <1>5, <1>6

LEMMA Closes ==
  ASSUME SynthesisIInv, NEW c \in Client, CloseSession(c)
  PROVE  SynthesisIInv'
<1> DEFINE r == [req[c] EXCEPT !.pc = "ended", !.got = req[c].answer]
<1>1. req[c].pc = "flushed" /\ c \notin Request BY Sizes DEF CloseSession
<1>2. Set(c, r) BY DEF CloseSession, Serve
<1> HIDE DEF r
<1>3. r \in Rec /\ Sound(c, r) /\ Remains(c, r) /\ r.pc = "ended" BY <1>1, Serves DEF r
<1>4. StepOf(c, r) BY <1>1, <1>2, <1>3 DEF StepOf, CloseSession
<1>5. Holds(c, r) BY Released DEF CloseSession
<1>6. Stores(c, r) BY <1>1 DEF Stores, CloseSession
<1>7. Asks(c, r) BY <1>3 DEF Asks, Remains, CloseSession, SynthesisIInv, ClientsAreSound
<1> QED BY <1>4, <1>5, <1>6, <1>7, Steps

LEMMA Crashes ==
  ASSUME SynthesisIInv, NEW c \in Client, Crash(c)
  PROVE  SynthesisIInv'
<1> DEFINE r == Failed(c, "internal")
<1>1. req[c] \in Rec /\ Sound(c, req[c]) /\ req[c].pc \notin {"idle", "ended"} BY Record DEF Crash
<1>2. "internal" \in DOMAIN Statuses BY Errors
<1>3. Unspent(r) \/ Spent(r)
  <2>1. CASE req[c].pc \in Gathering
    <3>1. Unspent(req[c]) BY <1>1, <2>1 DEF Sound
    <3> QED BY <1>2, <3>1, UnspentFailure
  <2>2. CASE req[c].pc = "posting"
    <3>1. Posting(c) BY <2>2 DEF Posting
    <3>2. Spent(req[c]) BY <3>1, PostingIs, Sizes DEF Spent
    <3> QED BY <1>2, <3>2, SpentFailure
  <2>3. CASE req[c].pc \in Saving BY <1>2, <2>3, SavingIs, SpentFailure
  <2> QED BY <1>1, <2>1, <2>2, <2>3 DEF Rec
<1>4. Set(c, r) BY DEF Crash, Fail
<1>5. /\ r \in Rec /\ Sound(c, r) /\ r.pc = "ended" /\ ~Kept(r) /\ ~Paying(r)
      /\ r.answer = req[c].answer /\ r.error = "internal"
  BY <1>2, <1>3, Ending
<1> HIDE DEF r
<1>6. StepOf(c, r) BY <1>1, <1>4, <1>5 DEF StepOf, Crash
<1>7. Holds(c, r) BY Released DEF Crash
<1>8. Stores(c, r) BY <1>5 DEF Stores, Crash
<1>9. Asks(c, r) BY <1>5 DEF Asks, Crash, SynthesisIInv, ClientsAreSound
<1> QED BY <1>6, <1>7, <1>8, <1>9, Steps
---------------------------------------------------------------------------
LEMMA SynthesisInitially == Init => SynthesisIInv
<1> SUFFICES ASSUME Init PROVE SynthesisIInv OBVIOUS
<1>1. observed \in 0..MaxObservations /\ release \in 1..MaxReleases BY Sizes DEF Init
<1>2. \A c \in Client : req[c] = Fresh /\ before[c] = {} BY DEF Init
<1>3. req \in [Client -> Rec] /\ before \in [Client -> SUBSET Client] BY FreshIs DEF Init
<1>4. \A c \in Client : Sound(c, Fresh) BY FreshIs DEF Sound, Gathering, Saving
<1>5. ClientsAreSound BY <1>2, <1>3, <1>4 DEF ClientsAreSound
<1>6. RowsAreHeld /\ StoreIsEarned BY DEF RowsAreHeld, StoreIsEarned, Init
<1>7. StoreRemembers BY <1>2, FreshIs DEF StoreRemembers, Kept, Answers, Client
<1> QED BY <1>1, <1>5, <1>6, <1>7 DEF SynthesisIInv

LEMMA SynthesisStays ==
  ASSUME SynthesisIInv, UNCHANGED <<store, writing, req, before>>,
         observed' \in 0..MaxObservations, release' \in 1..MaxReleases
  PROVE  SynthesisIInv'
<1>1. ClientsAreSound' BY DEF SynthesisIInv, ClientsAreSound
<1>2. RowsAreHeld' BY DEF SynthesisIInv, RowsAreHeld, Earned, Orphaned
<1>3. StoreIsEarned' BY DEF SynthesisIInv, StoreIsEarned, Earned
<1>4. StoreRemembers' BY DEF SynthesisIInv, StoreRemembers
<1> QED BY <1>1, <1>2, <1>3, <1>4 DEF SynthesisIInv

LEMMA SynthesisInductive == SynthesisIInv /\ [Next]_vars => SynthesisIInv'
<1> SUFFICES ASSUME SynthesisIInv, [Next]_vars PROVE SynthesisIInv' OBVIOUS
<1>1. CASE Observe
  <2>1. observed + 1 \in 0..MaxObservations BY <1>1, Sizes DEF Observe, SynthesisIInv
  <2> QED BY <1>1, <2>1, SynthesisStays DEF Observe, SynthesisIInv
<1>2. CASE Upgrade
  <2>1. release + 1 \in 1..MaxReleases BY <1>2, Sizes DEF Upgrade, SynthesisIInv
  <2> QED BY <1>2, <2>1, SynthesisStays DEF Upgrade, SynthesisIInv
<1>3. ASSUME NEW c \in Client, NEW k \in Kind, NEW f \in BOOLEAN, Start(c, k, f) PROVE SynthesisIInv'
  BY <1>3, Starts
<1>4. ASSUME NEW c \in Client, Refuse(c) PROVE SynthesisIInv' BY <1>4, Refuses
<1>5. ASSUME NEW c \in Client, Proceed(c) PROVE SynthesisIInv'
  BY <1>5, Reads, Fetches, Lookups, Transients, Rejections, Malforms, Answering, Selects, Flushes,
     LockTimeouts, Commits, Delivers, Abandons, Closes DEF Proceed
<1>6. ASSUME NEW c \in Client, Crash(c) PROVE SynthesisIInv' BY <1>6, Crashes
<1>7. ASSUME NEW k \in DOMAIN writing, LateCommit(k) \/ LateRollback(k) PROVE SynthesisIInv'
  BY <1>7, LateEndings
<1>8. CASE UNCHANGED vars BY <1>8, SynthesisStays DEF vars, SynthesisIInv
<1> QED BY <1>1, <1>2, <1>3, <1>4, <1>5, <1>6, <1>7, <1>8 DEF Next

(* The evidence moves beside the artifacts.                                *)
LEMMA AsPart == SynthesisSpec => Spec
<1>1. SynthesisInit => Init BY DEF SynthesisInit
<1>2. [SynthesisNext]_<<vars, evidence>> => [Next]_vars BY DEF SynthesisNext, vars, evidence
<1> QED BY <1>1, <1>2, PTL DEF SynthesisSpec, Spec

LEMMA SynthesisInvariant == SynthesisSpec => []SynthesisIInv
<1> QED BY SynthesisInitially, SynthesisInductive, AsPart, PTL DEF Spec
---------------------------------------------------------------------------
LEMMA KeyIs ==
  ASSUME NEW c
  PROVE  Facts(c) = FactsOf(c, req[c]) /\ Key(c) = KeyOf(c, req[c]) /\ (Served(c) <=> Answers(req[c]))
BY DEF Facts, FactsOf, Key, KeyOf, Served, Answers

LEMMA IsTyped == SynthesisIInv => TypeOK
<1> SUFFICES ASSUME SynthesisIInv PROVE TypeOK OBVIOUS
<1>1. \A k \in DOMAIN writing : \A c \in {writing[k].by} :
        writing[k] = req[c].answer /\ ((req[c].pc = "flushed" /\ Key(c) = k) \/ req[c].error = "internal")
  BY KeyIs DEF SynthesisIInv, RowsAreHeld, Earned, Orphaned
<1>2. ASSUME NEW c \in Client
      PROVE  /\ req[c].attempt \in 0..(MaxAttempts - 1) /\ req[c].remaining \in 0..Cap
             /\ req[c].error \in DOMAIN Statuses \cup {None}
  BY Record DEF Rec
<1>3. ASSUME NEW c \in Client, req[c].pc = "ended"
      PROVE  (req[c].got = None) # (req[c].error = None)
  <2>1. Sound(c, req[c]) BY Record
  <2>2. CASE req[c].error = None
    <3>1. req[c].got \in Artifact BY <1>3, <2>1, <2>2 DEF Sound, Owed
    <3> QED BY <2>2, <3>1, Sizes
  <2>3. CASE req[c].error # None BY <1>3, <2>1, <2>3 DEF Sound
  <2> QED BY <2>2, <2>3
<1>4. observed \in 0..MaxObservations /\ release \in 1..MaxReleases BY DEF SynthesisIInv
<1> QED BY <1>1, <1>2, <1>3, <1>4 DEF TypeOK

LEMMA IsCurrent == SynthesisIInv => StaleNeverServed /\ OnlyAnswersAreStored
<1> SUFFICES ASSUME SynthesisIInv PROVE StaleNeverServed /\ OnlyAnswersAreStored OBVIOUS
<1>1. ASSUME NEW c \in Client, Served(c)
      PROVE  req[c].got.facts = Facts(c) /\ req[c].got.release = req[c].release
  <2>1. Sound(c, req[c]) /\ Answers(req[c]) BY <1>1, Record, KeyIs
  <2> QED BY <2>1, KeyIs DEF Sound, Answers, Owed
<1>2. StaleNeverServed BY <1>1 DEF StaleNeverServed
<1>3. OnlyAnswersAreStored BY DEF OnlyAnswersAreStored, SynthesisIInv, StoreIsEarned, Earned
<1> QED BY <1>2, <1>3

LEMMA IsBounded == SynthesisIInv => SpendBounded
<1> SUFFICES ASSUME SynthesisIInv, NEW c \in Client
             PROVE  /\ req[c].posts <= 2 * MaxAttempts * (Cap - req[c].remaining)
                    /\ req[c].hit => req[c].posts = 0
  BY DEF SpendBounded
<1>1. req[c] \in Rec /\ Sound(c, req[c]) BY Record
<1>2. (Unspent(req[c]) \/ Spent(req[c])) /\ (req[c].hit => req[c].posts = 0)
  <2>1. CASE req[c].pc = "idle"
    <3>1. req[c] = Fresh BY <1>1, <2>1 DEF Sound
    <3> QED BY <3>1, FreshIs
  <2>2. CASE req[c].pc \in Gathering BY <1>1, <2>2 DEF Sound, Gathering
  <2>3. CASE req[c].pc = "posting"
    <3>1. Posting(c) BY <2>3 DEF Posting
    <3> QED BY <3>1, PostingIs, Sizes DEF Spent
  <2>4. CASE req[c].pc \in Saving BY <2>4, SavingIs
  <2>5. CASE req[c].pc = "ended" BY <1>1, <2>5 DEF Sound
  <2> QED BY <1>1, <2>1, <2>2, <2>3, <2>4, <2>5 DEF Rec
<1>3. MaxAttempts \in Nat /\ Cap \in Nat BY Sizes
<1>4. CASE Unspent(req[c])
  <2>1. Cap - req[c].remaining = 0 /\ req[c].posts = 0 BY <1>3, <1>4 DEF Unspent
  <2> QED BY <1>2, <1>3, <2>1
<1>5. CASE Spent(req[c])
  <2>1. Cap - req[c].remaining = 1 /\ req[c].posts <= 2 * MaxAttempts BY <1>5 DEF Spent
  <2>2. 2 * MaxAttempts * 1 = 2 * MaxAttempts BY <1>3
  <2> QED BY <1>2, <2>1, <2>2
<1> QED BY <1>2, <1>4, <1>5

(* docs/AI.md: what is served is of the evidence and the release asked     *)
(* for; what is stored was answered by the model to a request for exactly  *)
(* its key, which was served unless it was cut off at its COMMIT or after; *)
(* and one unit of the budget buys at most two rounds of attempts, however *)
(* many requests and commands are in flight.                               *)
THEOREM ArtifactsCurrent == SynthesisSpec => []ArtifactsAreCurrent
<1>1. SynthesisIInv => ArtifactsAreCurrent BY IsTyped, IsCurrent, IsBounded DEF ArtifactsAreCurrent
<1> QED BY <1>1, SynthesisInvariant, PTL

(* docs/AI.md: a repeated request is answered from the store.              *)
THEOREM RepeatsHit == SynthesisSpec => []RepeatsAreHits
<1>1. ASSUME SynthesisIInv, NEW c \in Client, NEW d \in Request, req[c].kind # None, d \in before[c],
             ~req[c].force, Key(c) = Key(d)
      PROVE  req[c].posts = 0
  <2>1. ~Paying(req[c]) BY <1>1, Record, KeyIs
  <2>2. req[c] \in Rec /\ Sound(c, req[c]) BY <1>1, Record
  <2>3. CASE req[c].pc = "idle"
    <3>1. req[c] = Fresh BY <2>2, <2>3 DEF Sound
    <3> QED BY <3>1, FreshIs DEF Unspent
  <2>4. CASE req[c].pc \in Gathering BY <2>2, <2>4 DEF Sound, Unspent
  <2>5. CASE req[c].pc = "ended"
    <3>1. req[c].error = None BY <1>1, <2>2, <2>5 DEF Sound
    <3>2. req[c].posts \in Nat BY <2>2 DEF Rec
    <3>3. ~(req[c].posts > 0) BY <2>1, <2>5, <3>1 DEF Paying, Answers
    <3> QED BY <3>2, <3>3
  <2>6. req[c].pc \in {"idle", "ended"} \cup Gathering BY <2>1, <2>2 DEF Rec, Paying
  <2> QED BY <2>3, <2>4, <2>5, <2>6
<1>2. SynthesisIInv => RepeatsAreHits BY <1>1 DEF RepeatsAreHits, RepeatsIn
<1> QED BY <1>2, SynthesisInvariant, PTL
=============================================================================
