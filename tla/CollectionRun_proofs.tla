------------------------- MODULE CollectionRun_proofs -------------------------
(***************************************************************************)
(* What every kind of run has, whatever its body does.  A kind is told by  *)
(* four parameters: the counters C of its report, the report empty it      *)
(* starts with, the places cp of its body that run _checkpoint(), and the  *)
(* places fetch where it may be waiting for GitHub.  RunMove says what a   *)
(* step of such a run may be; the modules of the kinds show that their     *)
(* steps are moves, and take the theorems on receipts from here.           *)
(***************************************************************************)
EXTENDS CollectionRun, TLAPS

Statuses == {"running", "completed", "partial"}
Reasons == {"none", "error", "ratelimit", "budget", "limit", "deadline", "interrupted"}
Special == {"start", "unwind", "finish", "end"}

KindOK(C, empty, cp, fetch) ==
  /\ MaxRequests \in Nat
  /\ empty \in [C -> Nat]
  /\ \A c \in C : empty[c] = 0
  /\ cp \cap (Special \cup fetch) = {}
  /\ fetch \cap Special = {}

ReceiptType(C) ==
  [status : Statuses, finished : BOOLEAN, stop : Reasons,
   report : [C -> Nat], requests : 0..MaxRequests]

---------------------------------------------------------------------------
(* The inductive invariant.  The account in memory is never behind the     *)
(* receipt, and a charged attempt is not yet a sent one.                   *)
TypesKept(C) ==
  /\ receipt \in ReceiptType(C) \cup {NoReceipt}
  /\ report \in [C -> Nat]
  /\ used \in 0..MaxRequests
  /\ sent \in Nat
  /\ http \in {"idle", "reserve", "flight"}
  /\ stop \in Reasons

PlacesKept(fetch) ==
  /\ http # "idle" => pc \in fetch
  /\ pc = "start" => ~HasReceipt
  /\ ~HasReceipt => pc \in {"start", "end"} /\ sent = 0
  /\ HasReceipt /\ receipt.finished => pc = "end"
  /\ ending # "none" => pc = "end"

CountsKept(C) ==
  /\ HasReceipt => sent <= receipt.requests /\ receipt.requests <= used
  /\ http = "reserve" => sent + 1 <= used
  /\ HasReceipt /\ pc # "end" => \A c \in C : receipt.report[c] <= report[c]

RunInv(C, fetch) ==
  TypesKept(C) /\ PlacesKept(fetch) /\ CountsKept(C) /\ EndingMatchesReceipt

(* A step of the body, between the commits.                                *)
BodyMove(C, fetch) ==
  /\ pc \notin Special
  /\ pc' \notin {"start", "unwind", "end"}
  /\ UNCHANGED <<receipt, store, used, sent, stop, ending>>
  /\ report' \in [C -> Nat]
  /\ \A c \in C : report'[c] >= receipt.report[c]
  /\ http' \in {http, "idle"}
  /\ http' # "idle" => pc' \in fetch

CheckpointMove(cp) ==
  /\ pc \in cp
  /\ pc' \notin Special
  /\ Checkpoint(pc')

ChargeMove(fetch) == pc \in fetch /\ Charge

StopMove == pc \notin Special /\ \E reason \in Reasons : StopWith(reason)

RunMove(C, empty, cp, fetch) ==
  \/ Begin(cp, empty) \/ BodyMove(C, fetch) \/ CheckpointMove(cp)
  \/ ChargeMove(fetch) \/ Reserve \/ Retry \/ StopMove
  \/ Unwind \/ Finish(cp, empty) \/ Raises
  \/ LoseOwnership(cp, empty) \/ Crash(cp, empty)

---------------------------------------------------------------------------
(* The counters of a report are numbers, also after one of them is counted *)
(* up.                                                                     *)
LEMMA CountType ==
  ASSUME NEW C, NEW r \in [C -> Nat], NEW cs
  PROVE /\ Count(r, cs) \in [C -> Nat]
        /\ \A c \in C : Count(r, cs)[c] = IF c \in cs THEN r[c] + 1 ELSE r[c]
  BY DEF Count

(* A run starts with no receipt, no attempt and an empty report.           *)
LEMMA RunStarts ==
  ASSUME NEW C, NEW empty, NEW cp, NEW fetch, NEW rows,
         KindOK(C, empty, cp, fetch), RunInit(empty, rows)
  PROVE RunInv(C, fetch)
<1>1. /\ report \in [C -> Nat] /\ MaxRequests \in Nat
      /\ used = 0 /\ sent = 0 /\ http = "idle" /\ stop = "none" /\ ending = "none"
      /\ pc = "start" /\ ~HasReceipt /\ receipt = NoReceipt
  BY DEF KindOK, RunInit, HasReceipt
<1>2. TypesKept(C)
  BY <1>1 DEF TypesKept, Reasons
<1> QED BY <1>1, <1>2 DEF RunInv, PlacesKept, CountsKept, EndingMatchesReceipt

(* Every receipt that may be on its way to the database.                   *)
LEMMA InFlightKept ==
  ASSUME NEW C, NEW empty, NEW cp, NEW fetch,
         KindOK(C, empty, cp, fetch), RunInv(C, fetch),
         NEW r \in InFlightReceipt(cp, empty)
  PROVE /\ r \in ReceiptType(C) /\ r # NoReceipt
        /\ HasReceipt => /\ r.requests >= receipt.requests
                         /\ \A c \in C : r.report[c] >= receipt.report[c]
                         /\ ~receipt.finished
        /\ sent <= r.requests /\ r.requests <= used
        /\ \A c \in C : r.report[c] <= report[c]
        /\ pc = "finish" => r.finished /\ r.stop = stop /\ r.status = Status
        /\ pc # "finish" => ~r.finished /\ r.status = "running"
        /\ pc # "end"
<1>0. /\ MaxRequests \in Nat /\ empty \in [C -> Nat] /\ \A c \in C : empty[c] = 0
      /\ \A l \in Special : l \notin cp /\ l \notin fetch
      /\ \A l \in cp : l \notin fetch
  BY DEF KindOK
<1>1. /\ receipt \in ReceiptType(C) \cup {NoReceipt} /\ report \in [C -> Nat]
      /\ used \in 0..MaxRequests /\ sent \in Nat /\ stop \in Reasons
      /\ PlacesKept(fetch) /\ CountsKept(C)
  BY DEF RunInv, TypesKept
<1>2. pc # "end"
  BY <1>0, <1>1 DEF PlacesKept, InFlightReceipt, Special
<1>3. HasReceipt => ~receipt.finished /\ receipt.status = "running"
  BY <1>1, <1>2 DEF PlacesKept, RunInv, EndingMatchesReceipt
<1> DEFINE Sound ==
      /\ r \in ReceiptType(C)
      /\ HasReceipt => /\ r.requests >= receipt.requests
                       /\ \A c \in C : r.report[c] >= receipt.report[c]
      /\ sent <= r.requests /\ r.requests <= used
      /\ \A c \in C : r.report[c] <= report[c]
      /\ pc = "finish" => r.finished /\ r.stop = stop /\ r.status = Status
      /\ pc # "finish" => ~r.finished /\ r.status = "running"
<1>a. HasReceipt =>
        /\ receipt \in ReceiptType(C)
        /\ sent <= receipt.requests /\ receipt.requests <= used
        /\ \A c \in C : receipt.report[c] <= report[c]
  BY <1>1, <1>2 DEF HasReceipt, CountsKept
<1>b. HasReceipt =>
        /\ receipt.requests \in 0..MaxRequests /\ receipt.report \in [C -> Nat]
        /\ receipt = [status |-> receipt.status, finished |-> receipt.finished,
                      stop |-> receipt.stop, report |-> receipt.report,
                      requests |-> receipt.requests]
  BY <1>a DEF ReceiptType
<1>4. ASSUME http = "reserve" PROVE Sound
  <2>1. HasReceipt /\ pc # "finish"
    BY <1>0, <1>1, <1>2, <1>4 DEF PlacesKept, Special
  <2>2. r = [receipt EXCEPT !.requests = used]
    BY <1>4 DEF InFlightReceipt
  <2>3. r \in ReceiptType(C)
    BY <1>1, <1>a, <2>1, <2>2 DEF ReceiptType
  <2>4. /\ r.report = receipt.report /\ r.requests = used
        /\ r.finished = receipt.finished /\ r.status = receipt.status
    BY <1>a, <2>1, <2>2 DEF ReceiptType
  <2> QED BY <1>0, <1>1, <1>3, <1>a, <1>b, <2>1, <2>3, <2>4
<1>5. ASSUME http # "reserve" /\ pc = "start" PROVE Sound
  <2>1. ~HasReceipt /\ sent = 0 /\ pc # "finish"
    BY <1>1, <1>5 DEF PlacesKept
  <2>2. r = NewReceipt(empty)
    BY <1>5 DEF InFlightReceipt
  <2>3. r \in ReceiptType(C)
    BY <1>0, <2>2 DEF ReceiptType, NewReceipt, Statuses, Reasons
  <2>4. r.report = empty /\ r.requests = 0 /\ ~r.finished /\ r.status = "running"
    BY <2>2 DEF NewReceipt
  <2>5. \A c \in C : empty[c] <= report[c]
    BY <1>0, <1>1
  <2> QED BY <1>0, <1>1, <2>1, <2>3, <2>4, <2>5
<1>6. ASSUME http # "reserve" /\ pc \in cp PROVE Sound
  <2>1. HasReceipt /\ pc # "finish" /\ pc # "start"
    BY <1>0, <1>1, <1>2, <1>6 DEF PlacesKept, Special
  <2>2. r = [receipt EXCEPT !.report = report]
    BY <1>6, <2>1 DEF InFlightReceipt
  <2>3. r \in ReceiptType(C)
    BY <1>1, <1>a, <2>1, <2>2 DEF ReceiptType
  <2>4. /\ r.report = report /\ r.requests = receipt.requests
        /\ r.finished = receipt.finished /\ r.status = receipt.status
    BY <1>a, <2>1, <2>2 DEF ReceiptType
  <2> QED BY <1>0, <1>1, <1>3, <1>a, <1>b, <2>1, <2>3, <2>4
<1>7. ASSUME http # "reserve" /\ pc = "finish" PROVE Sound
  <2>1. HasReceipt /\ pc \notin cp
    BY <1>0, <1>1, <1>7 DEF PlacesKept, Special
  <2>2. r = [receipt EXCEPT !.report = report, !.stop = stop,
                            !.status = Status, !.finished = TRUE]
    BY <1>7, <2>1 DEF InFlightReceipt
  <2>3. Status \in Statuses
    BY DEF Status, Statuses
  <2>4. r \in ReceiptType(C)
    BY <1>1, <1>a, <2>1, <2>2, <2>3 DEF ReceiptType
  <2>5. /\ r.report = report /\ r.requests = receipt.requests
        /\ r.finished /\ r.status = Status /\ r.stop = stop
    BY <1>a, <2>1, <2>2 DEF ReceiptType
  <2> QED BY <1>0, <1>1, <1>7, <1>a, <1>b, <2>1, <2>4, <2>5
<1>8. Sound
  <2>1. \/ http = "reserve"
        \/ http # "reserve" /\ pc = "start"
        \/ http # "reserve" /\ pc \in cp
        \/ http # "reserve" /\ pc = "finish"
    BY DEF InFlightReceipt
  <2> QED BY ONLY <2>1, <1>4, <1>5, <1>6, <1>7
<1>9. r # NoReceipt
  BY <1>8 DEF ReceiptType, NoReceipt
<1> QED BY <1>2, <1>3, <1>8, <1>9

(* The report in it: the last one again for a reservation, the empty one   *)
(* for a new receipt, the one in memory at a checkpoint.                   *)
LEMMA InFlightReport ==
  ASSUME NEW C, NEW empty, NEW cp, NEW fetch,
         KindOK(C, empty, cp, fetch), RunInv(C, fetch),
         NEW r \in InFlightReceipt(cp, empty)
  PROVE \/ http = "reserve" /\ pc \in fetch /\ HasReceipt /\ r.report = receipt.report
        \/ http # "reserve" /\ pc = "start" /\ ~HasReceipt /\ r.report = empty
        \/ http # "reserve" /\ pc \in cp \cup {"finish"} /\ HasReceipt /\ r.report = report
<1>1. /\ http # "idle" => pc \in fetch
      /\ pc = "start" => ~HasReceipt
      /\ ~HasReceipt => pc \in {"start", "end"}
      /\ HasReceipt => receipt \in ReceiptType(C)
  BY DEF RunInv, PlacesKept, TypesKept, HasReceipt
<1>2. /\ "start" \notin fetch \cup cp /\ "end" \notin fetch \cup cp
      /\ "finish" \notin cp
  BY DEF KindOK, Special
<1>3. CASE http = "reserve"
  <2>1. r = [receipt EXCEPT !.requests = used]
    BY <1>3 DEF InFlightReceipt
  <2>2. pc \in fetch /\ HasReceipt
    BY <1>1, <1>2, <1>3
  <2>3. r.report = receipt.report
    BY <1>1, <2>1, <2>2 DEF ReceiptType
  <2> QED BY <1>3, <2>2, <2>3
<1>4. CASE http # "reserve" /\ pc = "start"
  BY <1>1, <1>4 DEF InFlightReceipt, NewReceipt
<1>5. CASE http # "reserve" /\ pc # "start"
  <2>1. pc \in cp \cup {"finish"}
    BY <1>5 DEF InFlightReceipt
  <2>2. HasReceipt /\ receipt \in ReceiptType(C)
    BY <1>1, <1>2, <1>5, <2>1
  <2>3. \/ r = [receipt EXCEPT !.report = report]
        \/ r = [receipt EXCEPT !.report = report, !.stop = stop,
                               !.status = Status, !.finished = TRUE]
    BY <1>5 DEF InFlightReceipt
  <2>4. r.report = report
    BY <2>2, <2>3 DEF ReceiptType
  <2> QED BY <1>5, <2>1, <2>2, <2>4
<1> QED BY <1>3, <1>4, <1>5

(* What a step commits is such a receipt; what it does not leaves the      *)
(* receipt as it was.                                                      *)
LEMMA CommitsInFlight ==
  ASSUME NEW C, NEW empty, NEW cp, NEW fetch,
         KindOK(C, empty, cp, fetch), RunInv(C, fetch), RunMove(C, empty, cp, fetch)
  PROVE \/ UNCHANGED <<receipt, store>>
        \/ \E r \in InFlightReceipt(cp, empty) : Committed(r)
<1>1. CASE UNCHANGED <<receipt, store>>
  BY <1>1
<1>2. CASE CheckpointMove(cp)
  <2>1. http = "idle" /\ pc \in cp /\ pc # "start" /\ pc # "finish"
    BY <1>2 DEF CheckpointMove, RunInv, PlacesKept, TypesKept, KindOK, Special
  <2>2. InFlightReceipt(cp, empty) = {[receipt EXCEPT !.report = report]}
    BY <2>1 DEF InFlightReceipt
  <2>3. Committed([receipt EXCEPT !.report = report])
    BY <1>2 DEF CheckpointMove, Checkpoint
  <2> QED BY <2>2, <2>3
<1>3. CASE Reserve
  <2>1. InFlightReceipt(cp, empty) = {[receipt EXCEPT !.requests = used]}
    BY <1>3 DEF Reserve, InFlightReceipt
  <2> QED BY <1>3, <2>1 DEF Reserve
<1>4. CASE Begin(cp, empty) \/ Finish(cp, empty)
  BY <1>4 DEF Begin, Finish
<1>5. CASE LoseOwnership(cp, empty) \/ Crash(cp, empty)
  BY <1>5 DEF LoseOwnership, Crash, Vanish
<1> QED BY <1>1, <1>2, <1>3, <1>4, <1>5
        DEF RunMove, BodyMove, ChargeMove, Charge, Retry, StopMove, StopWith, Unwind, Raises

(* Every move of a run preserves the invariant: a charged request, a       *)
(* checkpoint that executes or is lost, a rollback and an ending.          *)
LEMMA RunKept ==
  ASSUME NEW C, NEW empty, NEW cp, NEW fetch,
         KindOK(C, empty, cp, fetch), RunInv(C, fetch), RunMove(C, empty, cp, fetch)
  PROVE RunInv(C, fetch)'
<1>0. /\ MaxRequests \in Nat
      /\ \A l \in Special : l \notin cp /\ l \notin fetch
      /\ \A l \in cp : l \notin fetch
  BY DEF KindOK
<1>1. /\ TypesKept(C) /\ PlacesKept(fetch) /\ CountsKept(C) /\ EndingMatchesReceipt
  BY DEF RunInv
<1>2. HasReceipt => /\ receipt \in ReceiptType(C) /\ receipt.report \in [C -> Nat]
                    /\ receipt.requests \in 0..MaxRequests
  BY <1>1 DEF TypesKept, HasReceipt, ReceiptType
<1>3. CASE BodyMove(C, fetch)
  <2>1. TypesKept(C)'
    BY <1>1, <1>3 DEF BodyMove, TypesKept
  <2>2. PlacesKept(fetch)'
    BY <1>1, <1>3 DEF BodyMove, PlacesKept, HasReceipt, Special
  <2>3. CountsKept(C)'
    <3>1. HasReceipt' => HasReceipt /\ UNCHANGED <<receipt, used, sent>>
      BY <1>3 DEF BodyMove, HasReceipt
    <3>2. http' = "reserve" => http = "reserve" /\ UNCHANGED <<used, sent>>
      BY <1>3 DEF BodyMove
    <3>3. HasReceipt => \A c \in C : receipt.report[c] <= report'[c]
      BY <1>2, <1>3 DEF BodyMove
    <3> QED BY <1>1, <3>1, <3>2, <3>3 DEF CountsKept
  <2>4. EndingMatchesReceipt'
    BY <1>1, <1>3 DEF BodyMove, EndingMatchesReceipt, HasReceipt
  <2> QED BY <2>1, <2>2, <2>3, <2>4 DEF RunInv
<1>4. CASE CheckpointMove(cp) \/ Begin(cp, empty)
  <2>1. PICK r \in InFlightReceipt(cp, empty) : Committed(r)
    <3>1. CASE CheckpointMove(cp)
      <4>1. http = "idle" /\ pc \in cp /\ pc # "start"
        BY <1>0, <1>1, <3>1 DEF CheckpointMove, PlacesKept, TypesKept, Special
      <4> QED BY <3>1, <4>1 DEF CheckpointMove, Checkpoint, InFlightReceipt
    <3> QED BY <1>4, <3>1 DEF Begin
  <2>2. /\ pc' \notin Special /\ UNCHANGED <<memory, ending>> /\ pc \notin fetch
        /\ pc # "finish"
    BY <1>0, <1>4 DEF CheckpointMove, Checkpoint, Begin, Special
  <2>3. r \in ReceiptType(C) /\ r # NoReceipt /\ receipt' = r /\ HasReceipt'
    BY <2>1, InFlightKept DEF Committed, HasReceipt
  <2>4. /\ sent <= r.requests /\ r.requests <= used
        /\ \A c \in C : r.report[c] <= report[c]
        /\ ~r.finished /\ r.status = "running" /\ pc # "end"
    BY <2>1, <2>2, InFlightKept
  <2>5. http = "idle" /\ ending = "none"
    BY <1>1, <2>2, <2>4 DEF PlacesKept, TypesKept
  <2>6. TypesKept(C)'
    BY <1>1, <2>2, <2>3 DEF TypesKept, memory
  <2>7. PlacesKept(fetch)'
    BY <2>2, <2>3, <2>4, <2>5 DEF PlacesKept, memory, Special
  <2>8. CountsKept(C)'
    BY <2>2, <2>3, <2>4, <2>5 DEF CountsKept, memory
  <2>9. EndingMatchesReceipt'
    BY <2>2, <2>3, <2>4, <2>5 DEF EndingMatchesReceipt
  <2> QED BY <2>6, <2>7, <2>8, <2>9 DEF RunInv
<1>5. CASE ChargeMove(fetch) \/ Retry
  <2>1. /\ UNCHANGED <<receipt, report, sent, stop, pc, ending>>
        /\ HasReceipt' = HasReceipt
        /\ \/ used' = used + 1 /\ used < MaxRequests /\ http' = "reserve" /\ pc \in fetch
           \/ used' = used /\ http' = "idle"
    <3>1. CASE ChargeMove(fetch) BY <3>1 DEF ChargeMove, Charge, HasReceipt
    <3>2. CASE Retry BY <3>2 DEF Retry, HasReceipt
    <3> QED BY <1>5, <3>1, <3>2
  <2>2. TypesKept(C)'
    BY <1>0, <1>1, <2>1 DEF TypesKept
  <2>3. PlacesKept(fetch)'
    BY <1>1, <2>1 DEF PlacesKept
  <2>4. CountsKept(C)'
    <3>1. used' \in Nat /\ used \in Nat /\ used' >= used /\ sent \in Nat
      BY <1>0, <1>1, <2>1 DEF TypesKept
    <3>2. http' = "reserve" => used' = used + 1 /\ HasReceipt
      BY <1>0, <1>1, <2>1 DEF PlacesKept, Special
    <3> QED BY <1>1, <1>2, <2>1, <3>1, <3>2 DEF CountsKept
  <2>5. EndingMatchesReceipt'
    BY <1>1, <2>1 DEF EndingMatchesReceipt
  <2> QED BY <2>2, <2>3, <2>4, <2>5 DEF RunInv
<1>6. CASE Reserve
  <2>1. InFlightReceipt(cp, empty) = {[receipt EXCEPT !.requests = used]}
    BY <1>6 DEF Reserve, InFlightReceipt
  <2>2. PICK r \in InFlightReceipt(cp, empty) : Committed(r)
    BY <1>6, <2>1 DEF Reserve
  <2>3. /\ UNCHANGED <<report, used, stop, pc, ending>>
        /\ sent' = sent + 1 /\ http' = "flight" /\ http = "reserve"
    BY <1>6 DEF Reserve
  <2>4. pc \in fetch /\ pc \notin Special /\ HasReceipt
    BY <1>0, <1>1, <2>3 DEF PlacesKept, Special
  <2>5. r \in ReceiptType(C) /\ r # NoReceipt /\ receipt' = r /\ HasReceipt'
    BY <2>2, InFlightKept DEF Committed, HasReceipt
  <2>6. /\ \A c \in C : r.report[c] <= report[c]
        /\ ~r.finished /\ r.status = "running"
    BY <2>2, <2>4, InFlightKept DEF Special
  <2>7. r.requests = used
    BY <1>2, <2>1, <2>2, <2>4 DEF ReceiptType
  <2>8. TypesKept(C)'
    BY <1>1, <2>3, <2>5 DEF TypesKept
  <2>9. PlacesKept(fetch)'
    BY <1>1, <2>3, <2>4, <2>5, <2>6 DEF PlacesKept, Special
  <2>10. CountsKept(C)'
    BY <1>0, <1>1, <2>3, <2>5, <2>6, <2>7 DEF CountsKept, TypesKept
  <2>11. EndingMatchesReceipt'
    BY <1>1, <2>3, <2>4, <2>5, <2>6 DEF EndingMatchesReceipt, PlacesKept, Special
  <2> QED BY <2>8, <2>9, <2>10, <2>11 DEF RunInv
<1>7. CASE StopMove
  <2>1. /\ UNCHANGED <<receipt, report, used, sent, ending>> /\ stop' \in Reasons
        /\ pc' = "unwind" /\ http' = "idle" /\ pc \notin Special
        /\ HasReceipt' = HasReceipt
    BY <1>7 DEF StopMove, StopWith, HasReceipt
  <2> QED BY <1>1, <2>1 DEF RunInv, TypesKept, PlacesKept, CountsKept, EndingMatchesReceipt, Special
<1>8. CASE Unwind
  <2>1. /\ UNCHANGED <<receipt, used, sent, http, stop, ending>>
        /\ pc = "unwind" /\ pc' = "finish" /\ report' = Count(receipt.report, Noted)
        /\ HasReceipt' = HasReceipt
    BY <1>8 DEF Unwind, Rollback, HasReceipt
  <2>2. HasReceipt /\ http = "idle"
    BY <1>0, <1>1, <2>1 DEF PlacesKept, Special, TypesKept
  <2>3. /\ report' \in [C -> Nat]
        /\ \A c \in C : receipt.report[c] <= report'[c]
    BY <1>2, <2>1, <2>2, CountType
  <2>4. TypesKept(C)'
    BY <1>1, <2>1, <2>3 DEF TypesKept
  <2>5. PlacesKept(fetch)'
    BY <1>1, <2>1, <2>2 DEF PlacesKept
  <2>6. CountsKept(C)'
    BY <1>1, <2>1, <2>2, <2>3 DEF CountsKept
  <2>7. EndingMatchesReceipt'
    BY <1>1, <2>1 DEF EndingMatchesReceipt
  <2> QED BY <2>4, <2>5, <2>6, <2>7 DEF RunInv
<1>9. CASE Finish(cp, empty)
  <2>1. PICK r \in InFlightReceipt(cp, empty) : Committed(r)
    BY <1>9 DEF Finish
  <2>2. /\ pc = "finish" /\ pc' = "end" /\ UNCHANGED memory
        /\ ending' = IF stop = "interrupted" THEN "cancelled" ELSE "returned"
    BY <1>9 DEF Finish
  <2>3. r \in ReceiptType(C) /\ r # NoReceipt /\ receipt' = r /\ HasReceipt'
    BY <2>1, InFlightKept DEF Committed, HasReceipt
  <2>4. /\ sent <= r.requests /\ r.requests <= used
        /\ r.finished /\ r.status = Status /\ r.stop = stop
    BY <2>1, <2>2, InFlightKept
  <2>5. http = "idle"
    BY <1>0, <1>1, <2>2 DEF PlacesKept, Special, TypesKept
  <2>6. TypesKept(C)'
    BY <1>1, <2>2, <2>3 DEF TypesKept, memory
  <2>7. EndingMatchesReceipt'
    BY <2>2, <2>3, <2>4 DEF EndingMatchesReceipt, Status
  <2>8. PlacesKept(fetch)'
    BY <2>2, <2>3, <2>4, <2>5 DEF PlacesKept, memory
  <2>9. CountsKept(C)'
    BY <2>2, <2>3, <2>4, <2>5 DEF CountsKept, memory
  <2> QED BY <2>6, <2>7, <2>8, <2>9 DEF RunInv
<1>10. CASE Raises
  <2>1. /\ UNCHANGED <<receipt, memory>> /\ pc' = "end" /\ ending' = "raised"
        /\ HasReceipt' = HasReceipt /\ http = "idle"
    BY <1>0, <1>1, <1>10 DEF Raises, HasReceipt, PlacesKept, Special, TypesKept
  <2> QED BY <1>1, <2>1 DEF RunInv, TypesKept, PlacesKept, CountsKept, EndingMatchesReceipt, memory
<1>11. CASE LoseOwnership(cp, empty) \/ Crash(cp, empty)
  <2>1. PICK how \in {"lost", "crashed"} : pc # "end" /\ Vanish(how, cp, empty)
    BY <1>11 DEF LoseOwnership, Crash
  <2>2. /\ pc' = "end" /\ http' = "idle" /\ ending' = how
        /\ UNCHANGED <<report, used, sent, stop>>
    BY <2>1 DEF Vanish
  <2>3. CASE UNCHANGED <<receipt, store>>
    <3>1. HasReceipt' = HasReceipt /\ receipt' = receipt
      BY <2>3 DEF HasReceipt
    <3> QED BY <1>1, <2>2, <3>1
            DEF RunInv, TypesKept, PlacesKept, CountsKept, EndingMatchesReceipt
  <2>4. CASE \E r \in InFlightReceipt(cp, empty) : Committed(r)
    <3>1. PICK r \in InFlightReceipt(cp, empty) : Committed(r)
      BY <2>4
    <3>2. r \in ReceiptType(C) /\ r # NoReceipt /\ receipt' = r /\ HasReceipt'
      BY <3>1, InFlightKept DEF Committed, HasReceipt
    <3>3. /\ sent <= r.requests /\ r.requests <= used
          /\ r.finished \/ r.status = "running"
      BY <3>1, InFlightKept
    <3>4. TypesKept(C)'
      BY <1>1, <2>2, <3>2 DEF TypesKept
    <3> QED BY <2>2, <3>2, <3>3, <3>4
            DEF RunInv, PlacesKept, CountsKept, EndingMatchesReceipt
  <2> QED BY <2>1, <2>3, <2>4 DEF Vanish
<1> QED BY <1>3, <1>4, <1>5, <1>6, <1>7, <1>8, <1>9, <1>10, <1>11 DEF RunMove

(* A step that moves nothing preserves the invariant.                      *)
LEMMA RunRests ==
  ASSUME NEW C, NEW fetch, RunInv(C, fetch), UNCHANGED runVars
  PROVE RunInv(C, fetch)'
<1>1. HasReceipt' = HasReceipt
  BY DEF runVars, HasReceipt
<1> QED BY <1>1 DEF runVars, RunInv, TypesKept, PlacesKept, CountsKept, EndingMatchesReceipt

---------------------------------------------------------------------------
(* What the invariant says of the requests and of the ending of a run.     *)
LEMMA RunIsAccounted ==
  ASSUME NEW C, NEW fetch, MaxRequests \in Nat, RunInv(C, fetch)
  PROVE ReservedBeforeSent /\ EndingMatchesReceipt
<1>1. HasReceipt => receipt.requests <= MaxRequests
  BY DEF RunInv, TypesKept, ReceiptType, HasReceipt
<1> QED BY <1>1 DEF RunInv, PlacesKept, CountsKept, TypesKept, ReservedBeforeSent

(* Nothing is committed once the receipt is finished, and what is, never   *)
(* says less than the receipt did.                                         *)
LEMMA RunKeepsRecords ==
  ASSUME NEW C, NEW empty, NEW cp, NEW fetch,
         KindOK(C, empty, cp, fetch), RunInv(C, fetch),
         RunMove(C, empty, cp, fetch) \/ UNCHANGED runVars
  PROVE FinalIsFinal /\ AccountGrows
<1>1. HasReceipt => /\ receipt.report \in [C -> Nat] /\ receipt.requests \in Nat
  BY DEF RunInv, TypesKept, ReceiptType, HasReceipt
<1>2. CASE UNCHANGED <<receipt, store>>
  BY <1>1, <1>2 DEF FinalIsFinal, AccountGrows
<1>3. CASE \E r \in InFlightReceipt(cp, empty) : Committed(r)
  <2>1. PICK r \in InFlightReceipt(cp, empty) : receipt' = r
    BY <1>3 DEF Committed
  <2>2. HasReceipt => /\ r.requests >= receipt.requests
                      /\ \A c \in C : r.report[c] >= receipt.report[c]
                      /\ ~receipt.finished
    BY InFlightKept
  <2>3. HasReceipt => DOMAIN receipt.report = C
    BY <1>1
  <2> QED BY <2>1, <2>2, <2>3 DEF FinalIsFinal, AccountGrows
<1> QED BY <1>2, <1>3, CommitsInFlight DEF runVars

---------------------------------------------------------------------------
(* What a kind has to show of its body's counting: counting on from the    *)
(* memory, or from the receipt, never falls behind the receipt.            *)
LEMMA CountingOn ==
  ASSUME NEW C, NEW fetch, RunInv(C, fetch), pc \notin Special, NEW cs
  PROVE /\ HasReceipt
        /\ receipt.report \in [C -> Nat] /\ report \in [C -> Nat]
        /\ \A c \in C : report[c] >= receipt.report[c]
        /\ Count(report, cs) \in [C -> Nat]
        /\ \A c \in C : Count(report, cs)[c] >= receipt.report[c]
        /\ Count(receipt.report, cs) \in [C -> Nat]
        /\ \A c \in C : Count(receipt.report, cs)[c] >= receipt.report[c]
<1>1. HasReceipt /\ report \in [C -> Nat]
  BY DEF RunInv, TypesKept, PlacesKept, Special
<1>2. receipt.report \in [C -> Nat]
  BY <1>1 DEF RunInv, TypesKept, HasReceipt, ReceiptType
<1>3. \A c \in C : report[c] >= receipt.report[c]
  BY <1>1, <1>2 DEF RunInv, CountsKept, Special
<1> QED BY <1>1, <1>2, <1>3, CountType
=============================================================================
