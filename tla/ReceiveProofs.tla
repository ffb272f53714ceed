---------------------------- MODULE ReceiveProofs ----------------------------
(***************************************************************************)
(* Proofs about ReceiveNotifications, for any requests, transfers,         *)
(* subscriptions, processes, calls, attempts and faults.                   *)
(*                                                                         *)
(* Payment: every transaction moves each request along its life, and a     *)
(* transfer is matched once, to a request whose reference no other request *)
(* has (Moves).  Delivery: the calls that have not sent yet, and what was  *)
(* sent, are together covered by the attempts the row counts (Counted).    *)
(***************************************************************************)
EXTENDS ReceiveNotifications, FiniteSetTheorems, TLAPS

\* A leaf is left to Zenon, unless it names SMT: those need arithmetic, or terms of
\* records and functions that Zenon does not simplify.
USE ZenonT(60)

-----------------------------------------------------------------------------
(* The invariants. *)

Transfer == [managed: BOOLEAN, reference: STRING, cents: Nat, at: Int,
             created: Nat, confirmed: Nat]

Request == [status: Statuses, created: Nat, matched: Nat]

Tables == [incoming: [Slots -> Requests \cup {Unseen, Nothing}],
           requests: [Requests -> Request], events: SUBSET Events]

TablesType ==
    /\ now \in Nat
    /\ chain \in Seq(Transfer)
    /\ DOMAIN chain \subseteq Slots
    /\ db \in Tables

\* A PAID request and its transfer name each other; the transfer has the amount
\* the request was stored with and came in time.
Settled(r) ==
    LET request == db.requests[r]
        i == request.matched
    IN IF request.status # "PAID" THEN i = 0
       ELSE /\ i \in DOMAIN chain /\ db.incoming[i] = r
            /\ AmountFits(r, chain[i]) /\ InTime(request, r, chain[i])

\* What is stored has landed, and a transfer that is matched is named by its request.
Named(i) ==
    /\ db.incoming[i] # Unseen => i \in DOMAIN chain
    /\ db.incoming[i] \in Requests => db.requests[db.incoming[i]].matched = i

\* Requests that were created have different references.
Distinct(q, r) ==
    q # r /\ db.requests[q].status # "NONE" /\ db.requests[r].status # "NONE"
        => Terms[q].reference # Terms[r].reference

MoneyInv ==
    /\ TablesType
    /\ \A r \in Requests : Settled(r)
    /\ \A i \in Slots : Named(i)
    /\ \A q, r \in Requests : Distinct(q, r)

DeliveryRow ==
    [status: {"AVAILABLE", "CLAIMED", "RETRY_WAIT", "DELIVERED", "EXHAUSTED"},
     attempts: Int, owner: Owners \cup {Nothing, Gone}, live: BOOLEAN, due: BOOLEAN]

\* A call that is under way works on a delivery that exists.
CallOK(c) == calls[c].pc # "idle" => calls[c].delivery \in DOMAIN deliveries

\* Calls that have claimed delivery d and not sent it yet.
Unsent(d) == {c \in Calls : calls[c].pc = "prepare" /\ calls[c].delivery = d}

Counted(d) ==
    /\ sends[d] + Cardinality(Unsent(d)) <= deliveries[d].attempts
    /\ deliveries[d].attempts <= MaxAttempts

\* Calls on deliveries of D.
Call(D) == [pc: {"idle", "prepare", "accepted", "refused"}, owner: Owners \cup {Nothing},
            delivery: D \cup {<<>>}, stray: BOOLEAN]

DeliveryInv ==
    /\ deliveries \in [DOMAIN deliveries -> DeliveryRow]
    /\ sends \in [DOMAIN deliveries -> Nat]
    /\ calls \in [Calls -> Call(DOMAIN deliveries)]
    /\ \A c \in Calls : CallOK(c)
    /\ \A d \in DOMAIN deliveries : Counted(d)

ReceiveInv == MoneyInv /\ DeliveryInv

-----------------------------------------------------------------------------
(* What a transaction may do to the tables. *)

\* One step in the life of request r.
RequestStep(r) ==
    LET b == db.requests[r]
        a == db'.requests[r]
    IN \/ a = b
       \/ /\ b.status = "NONE" /\ a.status = "OPEN" /\ a.matched = b.matched
          /\ \A q \in Requests : Terms[q].reference = Terms[r].reference =>
                                   db.requests[q].status = "NONE"
          /\ \A q \in Requests \ {r} : db'.requests[q] = db.requests[q]
       \/ /\ b.status = "OPEN" /\ a.status \in {"CANCELLED", "EXPIRED"}
          /\ a.matched = b.matched
       \/ /\ b.status \in {"OPEN", "EXPIRED"} /\ a.status = "PAID"
          /\ a.matched \in DOMAIN chain /\ db'.incoming[a.matched] = r
          /\ AmountFits(r, chain[a.matched]) /\ InTime(a, r, chain[a.matched])

\* A transfer is stored or matched once.
TransferStep(i) ==
    \/ db'.incoming[i] = db.incoming[i]
    \/ /\ db.incoming[i] \notin Requests /\ i \in DOMAIN chain
       /\ db'.incoming[i] \in Requests => db'.requests[db'.incoming[i]].matched = i

Moves ==
    /\ db' \in Tables
    /\ \A r \in Requests : RequestStep(r)
    /\ \A i \in Slots : TransferStep(i)

\* Every transaction of the database keeps the invariant of the tables.
LEMMA MovesKeep ==
    ASSUME MoneyInv, Moves, UNCHANGED money
    PROVE  MoneyInv'
<1>1. TablesType'
  BY DEF MoneyInv, TablesType, Moves, money
<1>2. ASSUME NEW r \in Requests PROVE Settled(r)'
  <2> DEFINE b == db.requests[r]
             a == db'.requests[r]
             i == b.matched
  <2>1. Settled(r) /\ RequestStep(r) /\ chain' = chain
    BY DEF MoneyInv, Moves, money
  <2>2. CASE a = b /\ b.status # "PAID"
    BY <2>1, <2>2 DEF Settled
  <2>3. CASE a = b /\ b.status = "PAID"
    <3>1. i \in DOMAIN chain /\ db.incoming[i] = r /\ i \in Slots
      BY <2>1, <2>3 DEF Settled, MoneyInv, TablesType
    <3>2. db'.incoming[i] = r
      BY <3>1 DEF Moves, TransferStep
    <3> QED
      BY <2>1, <2>3, <3>1, <3>2 DEF Settled
  <2>4. CASE a # b
    BY <2>1, <2>4 DEF Settled, RequestStep
  <2> QED
    BY <2>2, <2>3, <2>4
<1>3. ASSUME NEW i \in Slots PROVE Named(i)'
  <2>1. Named(i) /\ TransferStep(i) /\ chain' = chain
    BY <1>3 DEF MoneyInv, Moves, money
  <2>2. CASE db'.incoming[i] # db.incoming[i]
    BY <2>1, <2>2 DEF Named, TransferStep
  <2>3. CASE db'.incoming[i] = db.incoming[i] /\ db.incoming[i] \notin Requests
    BY <2>1, <2>3 DEF Named
  <2>4. CASE db'.incoming[i] = db.incoming[i] /\ db.incoming[i] \in Requests
    <3> DEFINE r == db.incoming[i]
    <3>1. db.requests[r].matched = i /\ i # 0
      BY <2>1, <2>4, TablesAssumption DEF Named
    <3>2. db.requests[r].status = "PAID"
      BY <2>4, <3>1 DEF MoneyInv, Settled
    <3>3. db'.requests[r] = db.requests[r]
      BY <2>4, <3>2 DEF Moves, RequestStep
    <3> QED
      BY <2>1, <2>4, <3>1, <3>3 DEF Named
  <2> QED
    BY <2>2, <2>3, <2>4
<1>4. ASSUME NEW q \in Requests, NEW r \in Requests PROVE Distinct(q, r)'
  <2> SUFFICES ASSUME q # r, db'.requests[q].status # "NONE", db'.requests[r].status # "NONE"
               PROVE  Terms[q].reference # Terms[r].reference
    BY DEF Distinct
  <2>1. RequestStep(q) /\ RequestStep(r) /\ Distinct(q, r)
    BY DEF MoneyInv, Moves
  <2>2. CASE db.requests[q].status = "NONE"
    BY <2>1, <2>2 DEF RequestStep
  <2>3. CASE db.requests[r].status = "NONE"
    BY <2>1, <2>3 DEF RequestStep
  <2> QED
    BY <2>1, <2>2, <2>3 DEF Distinct
<1> QED
  BY <1>1, <1>2, <1>3, <1>4 DEF MoneyInv

\* ... and leaves outcomes alone.
LEMMA MovesAreFinal ==
    ASSUME Moves, NEW r \in Requests
    PROVE  RequestMoves(r)
  BY DEF Moves, RequestStep, RequestMoves

-----------------------------------------------------------------------------
(* The transactions. *)

\* Enqueueing an event touches nothing else (enqueueReceiveRequestWebhookEvent,
\* enqueueIncomingPaymentWebhookEvent).
LEMMA EnqueueFields ==
    ASSUME NEW d \in Tables, NEW S \in SUBSET Events
    PROVE  LET e == [d EXCEPT !.events = @ \union S]
           IN e \in Tables /\ e.incoming = d.incoming /\ e.requests = d.requests
  BY DEF Tables

LEMMA RequestEvent ==
    ASSUME NEW d \in Tables, NEW r \in Requests,
           NEW tr \in {"created", "updated", "cancelled", "expired"}
    PROVE  LET e == enqueueReceiveRequestWebhookEvent(d, r, tr)
           IN e \in Tables /\ e.incoming = d.incoming /\ e.requests = d.requests
<1>1. {<<"receive_request", r, tr>>} \in SUBSET Events
  BY SMTT(30) DEF Events
<1> QED
  BY <1>1, EnqueueFields DEF enqueueReceiveRequestWebhookEvent

LEMMA IncomingEvent ==
    ASSUME NEW d \in Tables, NEW i \in Slots, NEW tr \in {"created", "updated"}
    PROVE  LET e == enqueueIncomingPaymentWebhookEvent(d, i, tr)
           IN e \in Tables /\ e.incoming = d.incoming /\ e.requests = d.requests
<1>1. {<<"incoming", i, tr>>} \in SUBSET Events
  BY SMTT(30) DEF Events
<1> QED
  BY <1>1, EnqueueFields DEF enqueueIncomingPaymentWebhookEvent

\* Expiry turns OPEN requests into EXPIRED ones and does nothing else
\* (the updateMany of matchIncomingPaymentInTransaction and of
\* expireOpenReceiveRequests).
LEMMA ExpireFields ==
    ASSUME NEW d \in Tables, NEW time
    PROVE  LET e == ExpireBy(d, time)
           IN /\ e \in Tables /\ e.incoming = d.incoming
              /\ \A r \in Requests :
                   \/ e.requests[r] = d.requests[r]
                   \/ /\ d.requests[r].status = "OPEN"
                      /\ e.requests[r] = [d.requests[r] EXCEPT !.status = "EXPIRED"]
<1> DEFINE R == [r \in Requests |->
                   IF d.requests[r].status = "OPEN" /\ EndsBy(d.requests[r], r, time)
                   THEN [d.requests[r] EXCEPT !.status = "EXPIRED"] ELSE d.requests[r]]
<1>1. ExpireBy(d, time) = [d EXCEPT !.requests = R]
  BY DEF ExpireBy
<1>2. \A r \in Requests :
        \/ R[r] = d.requests[r]
        \/ d.requests[r].status = "OPEN" /\ R[r] = [d.requests[r] EXCEPT !.status = "EXPIRED"]
  OBVIOUS
<1>3. ASSUME NEW r \in Requests PROVE R[r] \in Request
  <2>1. d.requests[r] \in Request
    BY DEF Tables
  <2> QED
    BY <1>2, <2>1 DEF Request, Statuses
<1>4. R \in [Requests -> Request]
  BY <1>3
<1> HIDE DEF R
<1>5. [d EXCEPT !.requests = R] \in Tables
  BY <1>4 DEF Tables
<1>6. [d EXCEPT !.requests = R].incoming = d.incoming
      /\ [d EXCEPT !.requests = R].requests = R
  BY DEF Tables
<1> QED
  BY SMTT(30), <1>1, <1>2, <1>5, <1>6

\* The candidate query of matchIncomingPaymentInTransaction asks for a transfer
\* in time.
LEMMA AnswersInTime ==
    ASSUME NEW d, NEW r \in Requests, NEW t, Answers(d, r, t),
           NEW a, a.created = d.requests[r].created
    PROVE  AmountFits(r, t) /\ InTime(a, r, t)
  BY DEF Answers, InTime, UseManagedTime, LatestReceiveCreation, MatchConfirmedAt, EndsBy

\* createReceiveRequest: one request is opened, under a free reference.
LEMMA CreateMoves ==
    ASSUME MoneyInv, NEW r \in Requests, CreateRequest(r)
    PROVE  Moves
<1> DEFINE d == [db EXCEPT !.requests[r].status = "OPEN", !.requests[r].created = now]
           a == [db.requests[r] EXCEPT !.status = "OPEN", !.created = now]
<1>1. db \in Tables /\ now \in Nat
  BY DEF MoneyInv, TablesType
<1>2. d = [db EXCEPT !.requests = [db.requests EXCEPT ![r] = a]]
  BY <1>1 DEF Tables, Request
<1>3. a \in Request /\ a.status = "OPEN" /\ a.matched = db.requests[r].matched
  BY <1>1 DEF Tables, Request, Statuses
<1> HIDE DEF a
<1>4. d \in Tables /\ d.incoming = db.incoming /\ d.requests = [db.requests EXCEPT ![r] = a]
  BY <1>1, <1>2, <1>3 DEF Tables
<1>5. db' = enqueueReceiveRequestWebhookEvent(d, r, "created")
  BY DEF CreateRequest, Commit, createReceiveRequest
<1> HIDE DEF d
<1>6. db' \in Tables /\ db'.incoming = db.incoming
      /\ db'.requests = [db.requests EXCEPT ![r] = a]
  BY <1>4, <1>5, RequestEvent
<1>7. \A q \in Requests : db'.requests[q] = IF q = r THEN a ELSE db.requests[q]
  BY <1>1, <1>6 DEF Tables
<1>8. \A q \in Requests : Terms[q].reference = Terms[r].reference => db.requests[q].status = "NONE"
  BY DEF CreateRequest, ReferenceFree
<1>9. \A q \in Requests : RequestStep(q)
  BY <1>3, <1>7, <1>8 DEF RequestStep
<1> QED
  BY <1>6, <1>9 DEF Moves, TransferStep

\* cancelReceiveRequest: one OPEN request is cancelled.
LEMMA CancelMoves ==
    ASSUME MoneyInv, NEW r \in Requests, CancelRequest(r)
    PROVE  Moves
<1> DEFINE d == [db EXCEPT !.requests[r].status = "CANCELLED"]
           a == [db.requests[r] EXCEPT !.status = "CANCELLED"]
<1>1. db \in Tables /\ db.requests[r].status = "OPEN"
  BY DEF MoneyInv, TablesType, CancelRequest
<1>2. d = [db EXCEPT !.requests = [db.requests EXCEPT ![r] = a]]
  BY <1>1 DEF Tables, Request
<1>3. a \in Request /\ a.status = "CANCELLED" /\ a.matched = db.requests[r].matched
  BY <1>1 DEF Tables, Request, Statuses
<1> HIDE DEF a
<1>4. d \in Tables /\ d.incoming = db.incoming /\ d.requests = [db.requests EXCEPT ![r] = a]
  BY <1>1, <1>2, <1>3 DEF Tables
<1>5. db' = enqueueReceiveRequestWebhookEvent(d, r, "cancelled")
  BY DEF CancelRequest, Commit, cancelReceiveRequest
<1> HIDE DEF d
<1>6. db' \in Tables /\ db'.incoming = db.incoming
      /\ db'.requests = [db.requests EXCEPT ![r] = a]
  BY <1>4, <1>5, RequestEvent
<1>7. \A q \in Requests : db'.requests[q] = IF q = r THEN a ELSE db.requests[q]
  BY <1>1, <1>6 DEF Tables
<1>8. \A q \in Requests : RequestStep(q)
  BY <1>1, <1>3, <1>7 DEF RequestStep
<1> QED
  BY <1>6, <1>8 DEF Moves, TransferStep

\* expireOpenReceiveRequests: OPEN requests expire.
LEMMA ReadMoves ==
    ASSUME MoneyInv, ReadRequests
    PROVE  Moves
<1> DEFINE e == ExpireBy(db, now)
           S == {<<"receive_request", r, "expired">> :
                    r \in {q \in Requests : e.requests[q] # db.requests[q]}}
<1>1. db \in Tables
  BY DEF MoneyInv, TablesType
<1>2. /\ e \in Tables /\ e.incoming = db.incoming
      /\ \A r \in Requests :
           \/ e.requests[r] = db.requests[r]
           \/ /\ db.requests[r].status = "OPEN"
              /\ e.requests[r] = [db.requests[r] EXCEPT !.status = "EXPIRED"]
  BY SMTT(30), <1>1, ExpireFields
<1>3. S \in SUBSET Events
  BY SMTT(30) DEF Events
<1>4. db' = [e EXCEPT !.events = @ \union S]
  BY DEF ReadRequests, Commit, expireOpenReceiveRequests
<1> HIDE DEF e, S
<1>5. db' \in Tables /\ db'.incoming = db.incoming /\ db'.requests = e.requests
  BY <1>2, <1>3, <1>4, EnqueueFields
<1>6. ASSUME NEW r \in Requests PROVE RequestStep(r)
  <2>1. db.requests[r] \in Request
    BY <1>1 DEF Tables
  <2> QED
    BY <1>2, <1>5, <2>1 DEF RequestStep, Request
<1> QED
  BY <1>5, <1>6 DEF Moves, TransferStep

\* The updates of a match: the request and the transfer name each other.
LEMMA PayFields ==
    ASSUME NEW d \in Tables, NEW r \in Requests, NEW i \in Slots, Slots \subseteq Nat
    PROVE  LET e == Pay(d, r, i)
           IN /\ e \in Tables /\ e.incoming = [d.incoming EXCEPT ![i] = r]
              /\ e.requests[r].status = "PAID" /\ e.requests[r].matched = i
              /\ e.requests[r].created = d.requests[r].created
              /\ \A q \in Requests \ {r} : e.requests[q] = d.requests[q]
<1> DEFINE a == [d.requests[r] EXCEPT !.status = "PAID", !.matched = i]
<1>1. Pay(d, r, i) = [d EXCEPT !.incoming = [d.incoming EXCEPT ![i] = r],
                               !.requests = [d.requests EXCEPT ![r] = a]]
  BY DEF Pay, Tables, Request
<1>2. a \in Request /\ a.status = "PAID" /\ a.matched = i /\ a.created = d.requests[r].created
  BY DEF Tables, Request, Statuses
<1> HIDE DEF a
<1>3. [d.incoming EXCEPT ![i] = r] \in [Slots -> Requests \cup {Unseen, Nothing}]
  BY DEF Tables
<1>4. [d.requests EXCEPT ![r] = a] \in [Requests -> Request]
  BY <1>2 DEF Tables
<1>5. /\ Pay(d, r, i) \in Tables
      /\ Pay(d, r, i).incoming = [d.incoming EXCEPT ![i] = r]
      /\ Pay(d, r, i).requests = [d.requests EXCEPT ![r] = a]
  BY <1>1, <1>3, <1>4 DEF Tables
<1> QED
  BY <1>2, <1>5 DEF Tables

\* A stored transfer is matched, in the transaction that stores it, to a request
\* that answers it, or to none (matchIncomingPaymentInTransaction).
LEMMA MatchFields ==
    ASSUME NEW d \in Tables, NEW i \in Slots, NEW t, d.incoming[i] = Nothing
    PROVE  LET e == matchIncomingPaymentInTransaction(d, i, t)
           IN /\ e \in Tables
              /\ \A j \in Slots \ {i} : e.incoming[j] = d.incoming[j]
              /\ e.incoming[i] \in Requests => e.requests[e.incoming[i]].matched = i
              /\ \A r \in Requests :
                   LET b == d.requests[r]
                       a == e.requests[r]
                   IN \/ a = b
                      \/ /\ b.status = "OPEN" /\ a.status = "EXPIRED" /\ a.matched = b.matched
                      \/ /\ b.status \in {"OPEN", "EXPIRED"} /\ a.status = "PAID"
                         /\ a.matched = i /\ e.incoming[i] = r
                         /\ AmountFits(r, t) /\ InTime(a, r, t)
<1> DEFINE x == ExpireBy(d, MatchConfirmedAt(t))
           C == {r \in Requests : Answers(x, r, t)}
           e == matchIncomingPaymentInTransaction(d, i, t)
<1>1. Nothing \notin Requests /\ Slots \subseteq Nat
  BY TablesAssumption
<1>2. /\ x \in Tables /\ x.incoming = d.incoming
      /\ \A r \in Requests :
           \/ x.requests[r] = d.requests[r]
           \/ /\ d.requests[r].status = "OPEN"
              /\ x.requests[r] = [d.requests[r] EXCEPT !.status = "EXPIRED"]
  BY SMTT(30), ExpireFields
<1>3. CASE t.reference = ""
  <2>1. e = d
    BY <1>3 DEF matchIncomingPaymentInTransaction
  <2> QED
    BY <1>1, <2>1
<1>4. ASSUME NEW r \in Requests
      PROVE  /\ d.requests[r].status = "OPEN" \/ x.requests[r] = d.requests[r]
             /\ x.requests[r].matched = d.requests[r].matched
             /\ x.requests[r] = d.requests[r] \/ x.requests[r].status = "EXPIRED"
  <2>1. d.requests[r] \in Request
    BY DEF Tables
  <2> QED
    BY <1>2, <2>1 DEF Request
<1>5. CASE t.reference # "" /\ C = {}
  <2>1. e = x
    BY <1>5 DEF matchIncomingPaymentInTransaction
  <2> QED
    BY <1>1, <1>2, <1>4, <2>1
<1>6. CASE t.reference # "" /\ C # {}
  <2>1. PICK r : r = CHOOSE c \in C : TRUE
    OBVIOUS
  <2>2. r \in Requests /\ Answers(x, r, t)
    BY <1>6, <2>1
  <2> DEFINE p == Pay(x, r, i)
             f == enqueueIncomingPaymentWebhookEvent(p, i, "updated")
  <2>3. e = enqueueReceiveRequestWebhookEvent(f, r, "updated")
    BY <1>2, <1>6, <2>1 DEF matchIncomingPaymentInTransaction
  <2>4. /\ p \in Tables /\ p.incoming = [x.incoming EXCEPT ![i] = r]
        /\ p.requests[r].status = "PAID" /\ p.requests[r].matched = i
        /\ p.requests[r].created = x.requests[r].created
        /\ \A q \in Requests \ {r} : p.requests[q] = x.requests[q]
    BY SMTT(30), <1>1, <1>2, <2>2, PayFields
  <2> HIDE DEF p
  <2>5. f \in Tables /\ f.incoming = p.incoming /\ f.requests = p.requests
    BY <2>4, IncomingEvent
  <2> HIDE DEF f, e
  <2>6. e \in Tables /\ e.incoming = p.incoming /\ e.requests = p.requests
    BY <2>2, <2>3, <2>5, RequestEvent
  <2>7. AmountFits(r, t) /\ InTime(p.requests[r], r, t)
    BY <2>2, <2>4, AnswersInTime
  <2>8. d.requests[r].status \in {"OPEN", "EXPIRED"}
    BY <1>4, <2>2 DEF Answers
  <2>9. e.incoming[i] = r /\ \A j \in Slots \ {i} : e.incoming[j] = d.incoming[j]
    BY SMTT(30), <1>2, <2>4, <2>6 DEF Tables
  <2> QED
    BY SMTT(30), <1>4, <2>2, <2>4, <2>6, <2>7, <2>8, <2>9 DEF e
<1> QED
  BY <1>3, <1>5, <1>6

\* createIncomingPayment: a transfer is stored once.
LEMMA PersistMoves ==
    ASSUME MoneyInv, NEW i \in Slots, persistTransfer(i)
    PROVE  Moves
<1> DEFINE n == [db EXCEPT !.incoming[i] = Nothing]
           d == enqueueIncomingPaymentWebhookEvent(n, i, "created")
<1>1. db \in Tables /\ i \in DOMAIN chain /\ db.incoming[i] = Unseen /\ Unseen \notin Requests
  BY TablesAssumption DEF MoneyInv, TablesType, persistTransfer
<1>2. n = [db EXCEPT !.incoming = [db.incoming EXCEPT ![i] = Nothing]]
  BY <1>1 DEF Tables
<1>3. n \in Tables /\ n.incoming = [db.incoming EXCEPT ![i] = Nothing] /\ n.requests = db.requests
  <2>1. [db.incoming EXCEPT ![i] = Nothing] \in [Slots -> Requests \cup {Unseen, Nothing}]
    BY <1>1 DEF Tables
  <2> QED
    BY <1>1, <1>2, <2>1 DEF Tables
<1> HIDE DEF n
<1>4. d \in Tables /\ d.incoming = n.incoming /\ d.requests = n.requests
  BY <1>3, IncomingEvent
<1>5. d.incoming[i] = Nothing /\ \A j \in Slots \ {i} : d.incoming[j] = db.incoming[j]
  BY <1>1, <1>3, <1>4 DEF Tables
<1>6. db' = matchIncomingPaymentInTransaction(d, i, chain[i])
  BY <1>1 DEF persistTransfer, Commit, createIncomingPayment, n
<1> HIDE DEF d
<1>7. /\ db' \in Tables
      /\ \A j \in Slots \ {i} : db'.incoming[j] = d.incoming[j]
      /\ db'.incoming[i] \in Requests => db'.requests[db'.incoming[i]].matched = i
      /\ \A r \in Requests :
           LET b == d.requests[r]
               a == db'.requests[r]
           IN \/ a = b
              \/ /\ b.status = "OPEN" /\ a.status = "EXPIRED" /\ a.matched = b.matched
              \/ /\ b.status \in {"OPEN", "EXPIRED"} /\ a.status = "PAID"
                 /\ a.matched = i /\ db'.incoming[i] = r
                 /\ AmountFits(r, chain[i]) /\ InTime(a, r, chain[i])
  BY SMTT(30), <1>4, <1>5, <1>6, MatchFields
<1>8. \A r \in Requests : RequestStep(r)
  BY SMTT(30), <1>1, <1>3, <1>4, <1>7 DEF RequestStep
<1>9. \A j \in Slots : TransferStep(j)
  BY <1>1, <1>5, <1>7 DEF TransferStep
<1> QED
  BY <1>7, <1>8, <1>9 DEF Moves

\* reconcileUnmatchedManagedIncoming: each request that is answered is paid by
\* one candidate, and no candidate pays two, because their references differ.
LEMMA ReconcileMoves ==
    ASSUME MoneyInv, reconcileUnmatchedManagedIncoming
    PROVE  Moves
<1> DEFINE A == {r \in Requests : \E i \in Candidates : Answers(db, r, chain[i])}
           Ended(r) == \E i \in Candidates :
                         EndsBy(db.requests[r], r, MatchConfirmedAt(chain[i]))
<1>1. PICK winner \in [A -> Candidates] :
        /\ \A r \in A : Answers(db, r, chain[winner[r]])
        /\ db' = [incoming |-> [i \in Slots |->
                     IF \E r \in A : winner[r] = i
                     THEN CHOOSE r \in A : winner[r] = i ELSE db.incoming[i]],
                  requests |-> [r \in Requests |->
                     IF r \in A
                     THEN [db.requests[r] EXCEPT !.status = "PAID", !.matched = winner[r]]
                     ELSE IF db.requests[r].status = "OPEN" /\ Ended(r)
                     THEN [db.requests[r] EXCEPT !.status = "EXPIRED"]
                     ELSE db.requests[r]],
                  events |-> db.events
                     \union {<<"receive_request", r, "updated">> : r \in A}
                     \union {<<"incoming", winner[r], "updated">> : r \in A}]
  BY DEF reconcileUnmatchedManagedIncoming, Commit
<1>2. /\ db \in Tables /\ DOMAIN chain \subseteq Slots /\ Slots \subseteq Nat
      /\ Nothing \notin Requests
  BY TablesAssumption DEF MoneyInv, TablesType
<1>3. ASSUME NEW r \in A
      PROVE  /\ r \in Requests /\ winner[r] \in DOMAIN chain /\ winner[r] \in Slots
             /\ db.incoming[winner[r]] = Nothing
             /\ db.requests[r].status \in {"OPEN", "EXPIRED"}
             /\ Terms[r].reference = chain[winner[r]].reference
  <2>1. winner[r] \in Candidates /\ Answers(db, r, chain[winner[r]])
    BY <1>1, <1>3
  <2> QED
    BY <1>2, <2>1 DEF Candidates, ManagedCandidate, Answers
<1>4. ASSUME NEW q \in A, NEW r \in A, winner[q] = winner[r] PROVE q = r
  <2>1. Distinct(q, r)
    BY <1>3 DEF MoneyInv
  <2> QED
    BY <1>3, <1>4, <2>1 DEF Distinct
<1>5. ASSUME NEW r \in A PROVE (CHOOSE q \in A : winner[q] = winner[r]) = r
  BY <1>4
<1>6. ASSUME NEW r \in Requests
      PROVE  /\ db'.requests[r] \in Request
             /\ r \in A => /\ db'.requests[r].status = "PAID"
                           /\ db'.requests[r].matched = winner[r]
                           /\ db'.requests[r].created = db.requests[r].created
             /\ r \notin A => \/ db'.requests[r] = db.requests[r]
                              \/ /\ db.requests[r].status = "OPEN"
                                 /\ db'.requests[r].status = "EXPIRED"
                                 /\ db'.requests[r].matched = db.requests[r].matched
  <2>1. db.requests[r] \in Request
    BY <1>2 DEF Tables
  <2>2. CASE r \in A
    <3>1. db'.requests[r] = [db.requests[r] EXCEPT !.status = "PAID", !.matched = winner[r]]
      BY <1>1, <2>2
    <3>2. winner[r] \in Nat
      BY <1>2, <1>3, <2>2
    <3> QED
      BY <2>1, <2>2, <3>1, <3>2 DEF Request, Statuses
  <2>3. CASE r \notin A
    <3>1. \/ db'.requests[r] = db.requests[r]
          \/ /\ db.requests[r].status = "OPEN"
             /\ db'.requests[r] = [db.requests[r] EXCEPT !.status = "EXPIRED"]
      BY <1>1, <2>3
    <3> QED
      BY <2>1, <2>3, <3>1 DEF Request, Statuses
  <2> QED
    BY <2>2, <2>3
<1>7. ASSUME NEW i \in Slots
      PROVE  /\ db'.incoming[i] \in Requests \cup {Unseen, Nothing}
             /\ \A r \in A : winner[r] = i => db'.incoming[i] = r
             /\ (\A r \in A : winner[r] # i) => db'.incoming[i] = db.incoming[i]
  <2>1. db'.incoming[i] = IF \E r \in A : winner[r] = i
                          THEN CHOOSE r \in A : winner[r] = i ELSE db.incoming[i]
    BY <1>1
  <2>2. db.incoming[i] \in Requests \cup {Unseen, Nothing}
    BY <1>2 DEF Tables
  <2> QED
    BY SMTT(30), <1>5, <2>1, <2>2
<1>8. db'.events \in SUBSET Events
  <2>1. \A r \in A : <<"receive_request", r, "updated">> \in Events
    BY DEF Events
  <2>2. \A r \in A : <<"incoming", winner[r], "updated">> \in Events
    BY <1>3 DEF Events
  <2>3. db.events \in SUBSET Events
    BY <1>2 DEF Tables
  <2> QED
    BY <1>1, <2>1, <2>2, <2>3
<1>9. db' \in Tables
  <2>1. db' = [incoming |-> db'.incoming, requests |-> db'.requests, events |-> db'.events]
    BY <1>1
  <2>2. db'.incoming \in [Slots -> Requests \cup {Unseen, Nothing}]
    BY <1>1, <1>7
  <2>3. db'.requests \in [Requests -> Request]
    BY <1>1, <1>6
  <2> QED
    BY <1>8, <2>1, <2>2, <2>3 DEF Tables
<1>10. ASSUME NEW r \in Requests PROVE RequestStep(r)
  <2>1. CASE r \in A
    <3>1. /\ db'.requests[r].status = "PAID" /\ db'.requests[r].matched = winner[r]
          /\ db'.requests[r].created = db.requests[r].created
      BY <1>6, <2>1
    <3>2. Answers(db, r, chain[winner[r]])
      BY <1>1, <2>1
    <3>3. AmountFits(r, chain[winner[r]]) /\ InTime(db'.requests[r], r, chain[winner[r]])
      BY <3>1, <3>2, AnswersInTime
    <3>4. db'.incoming[winner[r]] = r
      BY <1>3, <1>7, <2>1
    <3> QED
      BY <1>3, <2>1, <3>1, <3>3, <3>4 DEF RequestStep
  <2>2. CASE r \notin A
    BY <1>6, <2>2 DEF RequestStep
  <2> QED
    BY <2>1, <2>2
<1>11. ASSUME NEW i \in Slots PROVE TransferStep(i)
  <2>1. CASE \A r \in A : winner[r] # i
    BY <1>7, <2>1 DEF TransferStep
  <2>2. CASE \E r \in A : winner[r] = i
    <3>1. PICK r \in A : winner[r] = i
      BY <2>2
    <3>2. db'.incoming[i] = r /\ db'.requests[r].matched = i
      BY <1>3, <1>6, <1>7, <3>1
    <3> QED
      BY <1>2, <1>3, <3>1, <3>2 DEF TransferStep
  <2> QED
    BY <2>1, <2>2
<1> QED
  BY <1>9, <1>10, <1>11 DEF Moves

-----------------------------------------------------------------------------
(* The chain. *)

\* The chain grows, and a transfer changes only when its managed payment is
\* confirmed: matches stay as they were.
LEMMA ChainKeeps ==
    ASSUME MoneyInv, UNCHANGED db, now' \in Nat, chain' \in Seq(Transfer),
           DOMAIN chain' \subseteq Slots, DOMAIN chain \subseteq DOMAIN chain',
           \A i \in DOMAIN chain :
             /\ chain'[i].cents = chain[i].cents /\ chain'[i].at = chain[i].at
             /\ chain[i].managed /\ chain[i].confirmed # 0 => chain'[i] = chain[i]
    PROVE  MoneyInv'
<1>1. TablesType'
  BY DEF MoneyInv, TablesType
<1>2. ASSUME NEW r \in Requests PROVE Settled(r)'
  <2>1. Settled(r)
    BY DEF MoneyInv
  <2> QED
    BY <2>1 DEF Settled, AmountFits, InTime
<1>3. \A i \in Slots : Named(i)'
  BY DEF MoneyInv, Named
<1>4. \A q, r \in Requests : Distinct(q, r)'
  BY DEF MoneyInv, Distinct
<1> QED
  BY <1>1, <1>2, <1>3, <1>4 DEF MoneyInv

\* A transfer to the account lands.
LEMMA LandKeeps ==
    ASSUME MoneyInv, NEW t \in Transfers, NEW created \in 0..now, Land(t, created)
    PROVE  MoneyInv'
<1> DEFINE x == [managed |-> t.managed, reference |-> t.reference, cents |-> t.cents,
                 at |-> now - t.skew, created |-> created, confirmed |-> 0]
<1>1. now \in Nat /\ chain \in Seq(Transfer) /\ DOMAIN chain \subseteq Slots
  BY DEF MoneyInv, TablesType
<1>2. x \in Transfer
  BY SMTT(30), <1>1, NotificationsAssumption DEF Transfer
<1>3. chain' = Append(chain, x) /\ Len(chain) + 1 \in Slots /\ UNCHANGED <<db, now>>
  BY DEF Land
<1> HIDE DEF x
<1>4. /\ chain' \in Seq(Transfer) /\ DOMAIN chain' = 1..(Len(chain) + 1)
      /\ DOMAIN chain = 1..Len(chain) /\ Len(chain) \in Nat
      /\ \A i \in 1..Len(chain) : chain'[i] = chain[i]
  BY SMTT(30), <1>1, <1>2, <1>3
<1>5. DOMAIN chain' \subseteq Slots /\ DOMAIN chain \subseteq DOMAIN chain'
  BY SMTT(30), <1>1, <1>3, <1>4
<1> QED
  BY <1>1, <1>3, <1>4, <1>5, ChainKeeps

\* The outgoing side confirms the managed payment behind a transfer.
LEMMA ConfirmKeeps ==
    ASSUME MoneyInv, NEW i \in Slots, ConfirmManaged(i)
    PROVE  MoneyInv'
<1>1. now \in Nat /\ chain \in Seq(Transfer) /\ DOMAIN chain \subseteq Slots
      /\ i \in DOMAIN chain /\ chain[i].confirmed = 0
  BY DEF MoneyInv, TablesType, ConfirmManaged
<1> DEFINE x == [chain[i] EXCEPT !.confirmed = now]
<1>2. chain[i] \in Transfer
  BY SMTT(30), <1>1
<1>3. x \in Transfer /\ x.cents = chain[i].cents /\ x.at = chain[i].at
  BY <1>1, <1>2 DEF Transfer
<1>4. chain' = [chain EXCEPT ![i] = x] /\ UNCHANGED <<db, now>>
  BY DEF ConfirmManaged
<1> HIDE DEF x
<1>5. /\ chain' \in Seq(Transfer) /\ DOMAIN chain' = DOMAIN chain
      /\ \A j \in DOMAIN chain : chain'[j] = IF j = i THEN x ELSE chain[j]
  BY SMTT(30), <1>1, <1>3, <1>4
<1> QED
  BY <1>1, <1>3, <1>4, <1>5, ChainKeeps

LEMMA MoneyInitially == Init => MoneyInv
<1> SUFFICES ASSUME Init PROVE MoneyInv
  OBVIOUS
<1>1. db \in Tables
  BY DEF Init, EmptyTables, Tables, Request, Statuses
<1>2. now \in Nat /\ chain = <<>> /\ DOMAIN chain = {} /\ chain \in Seq(Transfer)
  BY SMTT(30) DEF Init
<1>3. /\ \A i \in Slots : db.incoming[i] = Unseen
      /\ \A r \in Requests : db.requests[r].status = "NONE" /\ db.requests[r].matched = 0
  BY DEF Init, EmptyTables
<1>4. Unseen \notin Requests
  BY TablesAssumption
<1> QED
  BY <1>1, <1>2, <1>3, <1>4 DEF MoneyInv, TablesType, Settled, Named, Distinct

\* A step is a transaction of the tables, a change of the chain, or leaves both alone.
LEMMA MoneyStep ==
    ASSUME MoneyInv, [Next]_vars
    PROVE  MoneyInv' /\ \A r \in Requests : RequestMoves(r)
<1>1. CASE Moves /\ UNCHANGED money
  BY <1>1, MovesKeep, MovesAreFinal
<1>2. ASSUME UNCHANGED db PROVE \A r \in Requests : RequestMoves(r)
  BY <1>2 DEF RequestMoves
<1>3. now \in Nat /\ chain \in Seq(Transfer) /\ DOMAIN chain \subseteq Slots
  BY DEF MoneyInv, TablesType
<1>4. CASE UNCHANGED <<chain, db>> /\ now' \in Nat
  BY <1>2, <1>3, <1>4, ChainKeeps
<1>5. CASE Tick
  BY SMTT(30), <1>3, <1>4, <1>5 DEF Tick
<1>6. ASSUME NEW r \in Requests, CreateRequest(r) \/ CancelRequest(r)
      PROVE  Moves /\ UNCHANGED money
  BY <1>6, CreateMoves, CancelMoves DEF CreateRequest, CancelRequest
<1>7. CASE ReadRequests
  BY <1>1, <1>7, ReadMoves DEF ReadRequests
<1>8. ASSUME NEW t \in Transfers, NEW created \in 0..now, Land(t, created)
      PROVE  MoneyInv' /\ UNCHANGED db
  BY <1>8, LandKeeps DEF Land
<1>9. ASSUME NEW i \in Slots, ConfirmManaged(i) PROVE MoneyInv' /\ UNCHANGED db
  BY <1>9, ConfirmKeeps DEF ConfirmManaged
<1>10. ASSUME NEW i \in Slots, persistTransfer(i) PROVE Moves /\ UNCHANGED money
  BY <1>10, PersistMoves DEF persistTransfer
<1>11. CASE reconcileUnmatchedManagedIncoming
  BY <1>1, <1>11, ReconcileMoves DEF reconcileUnmatchedManagedIncoming
<1>12. ASSUME NEW s \in Subscriptions, createWebhookSubscription(s) \/ archiveWebhookSubscription(s)
       PROVE  UNCHANGED <<chain, db, now>>
  BY <1>12 DEF createWebhookSubscription, archiveWebhookSubscription, money
<1>13. ASSUME NEW o, claimWebhookDeliveries(o) \/ Crash(o) \/ LeasesExpire(o)
       PROVE  UNCHANGED <<chain, db, now>>
  BY <1>13 DEF claimWebhookDeliveries, Crash, LeasesExpire, money
<1>14. ASSUME NEW c \in Calls, Deliver(c) \/ deferWebhookDelivery(c)
       PROVE  UNCHANGED <<chain, db, now>>
  BY <1>14 DEF Deliver, PrepareFails, markWebhookDelivered, AttemptFails, sendWebhookRequest,
               deferWebhookDelivery, money
<1>15. ASSUME NEW d, BackoffElapses(d) PROVE UNCHANGED <<chain, db, now>>
  BY <1>15 DEF BackoffElapses, money
<1>16. CASE UNCHANGED vars
  BY <1>3, <1>4, <1>16 DEF vars
<1> QED
  BY <1>1, <1>2, <1>3, <1>4, <1>5, <1>6, <1>7, <1>8, <1>9, <1>10, <1>11, <1>12, <1>13,
     <1>14, <1>15, <1>16 DEF Next

-----------------------------------------------------------------------------
(* Deliveries. *)

\* The set of calls that still have to send is finite.
LEMMA UnsentFinite ==
    ASSUME NEW d
    PROVE  /\ IsFiniteSet(Unsent(d)) /\ IsFiniteSet(Unsent(d)')
           /\ Cardinality(Unsent(d)) \in Nat /\ Cardinality(Unsent(d)') \in Nat
<1>1. Unsent(d) \subseteq Calls /\ Unsent(d)' \subseteq Calls
  BY DEF Unsent
<1>2. IsFiniteSet(Calls)
  BY NotificationsAssumption
<1>3. IsFiniteSet(Unsent(d)) /\ IsFiniteSet(Unsent(d)')
  BY <1>1, <1>2, FS_Subset
<1> QED
  BY <1>3, FS_CardinalityType

\* Steps that claim and send nothing: rows keep their attempts, and calls go on
\* or end.
LEMMA RowsKeep ==
    ASSUME DeliveryInv, UNCHANGED sends,
           deliveries' \in [DOMAIN deliveries -> DeliveryRow],
           \A d \in DOMAIN deliveries : deliveries'[d].attempts = deliveries[d].attempts,
           calls' \in [Calls -> Call(DOMAIN deliveries)],
           \A c \in Calls : \/ calls'[c].pc = "idle"
                            \/ /\ calls'[c].pc = calls[c].pc
                               /\ calls'[c].delivery = calls[c].delivery
    PROVE  DeliveryInv'
<1>1. DOMAIN deliveries' = DOMAIN deliveries
  OBVIOUS
<1>2. ASSUME NEW d \in DOMAIN deliveries PROVE Counted(d)'
  <2>1. Unsent(d)' \subseteq Unsent(d)
    BY DEF Unsent
  <2>2. Cardinality(Unsent(d)') <= Cardinality(Unsent(d))
    BY <2>1, UnsentFinite, FS_Subset
  <2>3. Counted(d) /\ sends[d] \in Nat /\ deliveries[d].attempts \in Int /\ MaxAttempts \in Nat
    BY NotificationsAssumption DEF DeliveryInv, DeliveryRow
  <2> QED
    BY SMTT(30), <2>2, <2>3, UnsentFinite DEF Counted
<1>3. \A c \in Calls : CallOK(c)'
  BY <1>1 DEF DeliveryInv, CallOK
<1> QED
  BY <1>1, <1>2, <1>3 DEF DeliveryInv

\* A step of one call on its delivery.
LEMMA OneCallKeeps ==
    ASSUME DeliveryInv, NEW c \in Calls, calls[c].pc # "idle",
           NEW row \in DeliveryRow, NEW k \in Nat, NEW d, d = calls[c].delivery,
           deliveries' = [deliveries EXCEPT ![d] = row],
           sends' = [sends EXCEPT ![d] = k],
           calls' \in [Calls -> Call(DOMAIN deliveries)],
           \A b \in Calls \ {c} : calls'[b].pc = calls[b].pc
                                  /\ calls'[b].delivery = calls[b].delivery,
           calls'[c].pc # "prepare",
           calls'[c].pc # "idle" => calls'[c].delivery = d,
           row.attempts <= MaxAttempts,
           k + Cardinality(Unsent(d)) - (IF calls[c].pc = "prepare" THEN 1 ELSE 0)
             <= row.attempts
    PROVE  DeliveryInv'
<1>1. /\ d \in DOMAIN deliveries /\ sends \in [DOMAIN deliveries -> Nat]
      /\ deliveries \in [DOMAIN deliveries -> DeliveryRow]
  BY DEF DeliveryInv, CallOK
<1>2. /\ DOMAIN deliveries' = DOMAIN deliveries
      /\ deliveries' \in [DOMAIN deliveries -> DeliveryRow]
      /\ sends' \in [DOMAIN deliveries -> Nat]
      /\ deliveries'[d] = row /\ sends'[d] = k
      /\ \A e \in DOMAIN deliveries \ {d} : deliveries'[e] = deliveries[e] /\ sends'[e] = sends[e]
  BY <1>1
<1>3. Counted(d)'
  <2>1. Unsent(d)' = Unsent(d) \ {c}
    BY DEF Unsent
  <2>2. Cardinality(Unsent(d)') =
          Cardinality(Unsent(d)) - (IF calls[c].pc = "prepare" THEN 1 ELSE 0)
    <3>1. c \in Unsent(d) <=> calls[c].pc = "prepare"
      BY DEF Unsent
    <3>2. PICK U : U = Unsent(d)
      OBVIOUS
    <3>3. IsFiniteSet(U) /\ Cardinality(U) \in Nat
      BY <3>2, UnsentFinite
    <3>4. Cardinality(U \ {c}) = IF c \in U THEN Cardinality(U) - 1 ELSE Cardinality(U)
      BY <3>3, FS_RemoveElement
    <3> QED
      BY SMTT(30), <2>1, <3>1, <3>2, <3>3, <3>4
  <2>3. row.attempts \in Int /\ MaxAttempts \in Nat
    BY NotificationsAssumption DEF DeliveryRow
  <2> QED
    BY <1>2, <2>2, <2>3, UnsentFinite DEF Counted
<1>4. ASSUME NEW e \in DOMAIN deliveries, e # d PROVE Counted(e)'
  <2>1. Unsent(e)' = Unsent(e)
    BY <1>4 DEF Unsent
  <2>2. Counted(e)
    BY DEF DeliveryInv
  <2> QED
    BY <1>2, <1>4, <2>1, <2>2 DEF Counted
<1>5. \A b \in Calls : CallOK(b)'
  BY SMTT(30), <1>1, <1>2 DEF DeliveryInv, CallOK
<1> QED
  BY <1>2, <1>3, <1>4, <1>5 DEF DeliveryInv

\* A transaction adds deliveries that nobody has claimed.
LEMMA CommitKeeps ==
    ASSUME DeliveryInv, NEW after, Commit(after)
    PROVE  DeliveryInv'
<1> DEFINE new == after.events \ db.events
           added == {d \in new \X Subscriptions :
                       subscriptions[d[2]] = "ACTIVE"
                       /\ <<d[1][1], d[1][3]>> \in EventTypes[d[2]]}
           D == DOMAIN deliveries \union added
<1>1. /\ deliveries' = [d \in D |-> IF d \in DOMAIN deliveries THEN deliveries[d]
                                    ELSE NewDelivery]
      /\ UNCHANGED calls
      /\ sends' = [d \in DOMAIN deliveries' |-> IF d \in DOMAIN sends THEN sends[d] ELSE 0]
  BY DEF Commit, Enqueued
<1> HIDE DEF D
<1>2. DOMAIN deliveries \subseteq D
  BY DEF D
<1>3. NewDelivery \in DeliveryRow /\ NewDelivery.attempts = 0
  BY SMTT(30) DEF NewDelivery, DeliveryRow
<1>4. /\ deliveries \in [DOMAIN deliveries -> DeliveryRow]
      /\ sends \in [DOMAIN deliveries -> Nat]
      /\ calls \in [Calls -> Call(DOMAIN deliveries)]
  BY DEF DeliveryInv
<1>5. DOMAIN deliveries' = D /\ deliveries' \in [D -> DeliveryRow]
  BY <1>1, <1>3, <1>4
<1>6. sends' \in [D -> Nat]
  BY <1>1, <1>4, <1>5
<1>7. calls' \in [Calls -> Call(D)]
  BY <1>1, <1>2, <1>4 DEF Call
<1>8. ASSUME NEW d \in D PROVE Counted(d)'
  <2>1. Unsent(d)' = Unsent(d)
    BY <1>1 DEF Unsent
  <2>2. CASE d \in DOMAIN deliveries
    <3>1. deliveries'[d] = deliveries[d] /\ sends'[d] = sends[d]
      BY <1>1, <1>4, <1>5, <2>2
    <3> QED
      BY <2>1, <2>2, <3>1 DEF DeliveryInv, Counted
  <2>3. CASE d \notin DOMAIN deliveries
    <3>1. deliveries'[d].attempts = 0 /\ sends'[d] = 0
      BY <1>1, <1>3, <1>4, <1>5, <2>3
    <3>2. Unsent(d) = {}
      BY <2>3 DEF DeliveryInv, CallOK, Unsent
    <3>3. Cardinality(Unsent(d)') = 0
      BY <2>1, <3>2, FS_EmptySet
    <3> QED
      BY SMTT(30), <3>1, <3>3, NotificationsAssumption DEF Counted
  <2> QED
    BY <2>2, <2>3
<1>9. \A c \in Calls : CallOK(c)'
  BY <1>1, <1>2, <1>5 DEF DeliveryInv, CallOK
<1> QED
  BY <1>5, <1>6, <1>7, <1>8, <1>9 DEF DeliveryInv

\* A call that returns or throws ends, and the others of its batch go on.
LEMMA EndKeeps ==
    ASSUME DeliveryInv, NEW c \in Calls, calls[c].pc # "idle", Return(c) \/ Throw(c),
           NEW row \in DeliveryRow, ChangeRow(c, row), UNCHANGED sends,
           \/ row.attempts = Row(c).attempts
           \/ calls[c].pc = "prepare" /\ row.attempts = Row(c).attempts - 1
    PROVE  DeliveryInv'
<1>1. PICK d : d = calls[c].delivery
  OBVIOUS
<1>2. /\ d \in DOMAIN deliveries /\ sends \in [DOMAIN deliveries -> Nat]
      /\ calls \in [Calls -> Call(DOMAIN deliveries)]
      /\ deliveries[d].attempts \in Int /\ Counted(d) /\ MaxAttempts \in Nat
  BY <1>1, NotificationsAssumption DEF DeliveryInv, CallOK, DeliveryRow
<1>3. NoCall \in Call(DOMAIN deliveries) /\ NoCall.pc = "idle"
  BY DEF NoCall, Call
<1>4. /\ calls' \in [Calls -> Call(DOMAIN deliveries)]
      /\ calls'[c].pc = "idle"
      /\ \A b \in Calls \ {c} : calls'[b].pc = calls[b].pc
                                /\ calls'[b].delivery = calls[b].delivery
  <2>1. CASE Return(c)
    BY <1>2, <1>3, <2>1 DEF Return
  <2>2. CASE Throw(c)
    <3>1. ASSUME NEW b \in Calls \ {c}
          PROVE  /\ calls'[b] \in Call(DOMAIN deliveries)
                 /\ calls'[b].pc = calls[b].pc /\ calls'[b].delivery = calls[b].delivery
      <4>1. calls'[b] = calls[b] \/ calls'[b] = [calls[b] EXCEPT !.stray = TRUE]
        BY <2>2 DEF Throw
      <4>2. calls[b] \in Call(DOMAIN deliveries)
        BY <1>2
      <4> QED
        BY <4>1, <4>2 DEF Call
    <3>2. calls'[c] = NoCall
      BY <2>2 DEF Throw
    <3>3. calls' = [b \in Calls |-> calls'[b]]
      BY <2>2 DEF Throw
    <3>4. \A b \in Calls : calls'[b] \in Call(DOMAIN deliveries)
      BY <1>3, <3>1, <3>2
    <3> QED
      BY <1>3, <3>1, <3>2, <3>3, <3>4
  <2> QED
    BY <2>1, <2>2
<1>5. deliveries' = [deliveries EXCEPT ![d] = row]
  BY <1>1 DEF ChangeRow
<1>6. sends' = [sends EXCEPT ![d] = sends[d]] /\ sends[d] \in Nat
  BY <1>2
<1>7. row.attempts <= MaxAttempts
      /\ sends[d] + Cardinality(Unsent(d)) - (IF calls[c].pc = "prepare" THEN 1 ELSE 0)
           <= row.attempts
  <2>1. row.attempts \in Int /\ Cardinality(Unsent(d)) \in Nat
    BY UnsentFinite DEF DeliveryRow
  <2>2. \/ row.attempts = deliveries[d].attempts
        \/ calls[c].pc = "prepare" /\ row.attempts = deliveries[d].attempts - 1
    BY <1>1 DEF Row
  <2>3. /\ sends[d] + Cardinality(Unsent(d)) <= deliveries[d].attempts
        /\ deliveries[d].attempts <= MaxAttempts
    BY <1>2 DEF Counted
  <2> QED
    BY SMTT(30), <1>2, <1>6, <2>1, <2>2, <2>3
<1> QED
  BY <1>1, <1>4, <1>5, <1>6, <1>7, OneCallKeeps

\* What the updates of a delivery leave alone.
LEMMA RowFields ==
    ASSUME NEW row \in DeliveryRow
    PROVE  /\ Exhausted(row) \in DeliveryRow /\ Exhausted(row).attempts = row.attempts
           /\ Waiting(row) \in DeliveryRow /\ Waiting(row).attempts = row.attempts
           /\ [Waiting(row) EXCEPT !.attempts = @ - 1] \in DeliveryRow
           /\ [Waiting(row) EXCEPT !.attempts = @ - 1].attempts = row.attempts - 1
           /\ LET done == [row EXCEPT !.status = "DELIVERED", !.owner = Nothing, !.live = FALSE]
              IN done \in DeliveryRow /\ done.attempts = row.attempts
           /\ \A o \in Owners : Claimed(row, o) \in DeliveryRow
                                /\ Claimed(row, o).attempts = row.attempts + 1
           /\ [row EXCEPT !.live = FALSE] \in DeliveryRow
           /\ [row EXCEPT !.live = FALSE].attempts = row.attempts
           /\ [row EXCEPT !.due = TRUE] \in DeliveryRow
           /\ [row EXCEPT !.due = TRUE].attempts = row.attempts
           /\ [row EXCEPT !.owner = Gone] \in DeliveryRow
           /\ [row EXCEPT !.owner = Gone].attempts = row.attempts
<1>1. Exhausted(row) \in DeliveryRow /\ Exhausted(row).attempts = row.attempts
  BY DEF DeliveryRow, Exhausted
<1>2. Waiting(row) \in DeliveryRow /\ Waiting(row).attempts = row.attempts
  BY DEF DeliveryRow, Waiting
<1>3. PICK w \in DeliveryRow : w = Waiting(row)
  BY <1>2
<1>4. [w EXCEPT !.attempts = @ - 1] \in DeliveryRow
      /\ [w EXCEPT !.attempts = @ - 1].attempts = w.attempts - 1
  BY SMTT(30) DEF DeliveryRow
<1>5. LET done == [row EXCEPT !.status = "DELIVERED", !.owner = Nothing, !.live = FALSE]
      IN done \in DeliveryRow /\ done.attempts = row.attempts
  BY DEF DeliveryRow
<1>6. ASSUME NEW o \in Owners
      PROVE  Claimed(row, o) \in DeliveryRow /\ Claimed(row, o).attempts = row.attempts + 1
  <2> DEFINE n == row.attempts + 1
  <2>1. n \in Int
    BY SMTT(30) DEF DeliveryRow
  <2>2. Claimed(row, o) = [row EXCEPT !.status = "CLAIMED", !.owner = o, !.live = TRUE,
                                      !.attempts = n]
    BY DEF Claimed
  <2> HIDE DEF n
  <2>3. Claimed(row, o) \in DeliveryRow /\ Claimed(row, o).attempts = n
    BY <2>1, <2>2 DEF DeliveryRow
  <2> QED
    BY <2>3 DEF n
<1>7. /\ [row EXCEPT !.live = FALSE] \in DeliveryRow
      /\ [row EXCEPT !.live = FALSE].attempts = row.attempts
      /\ [row EXCEPT !.due = TRUE] \in DeliveryRow
      /\ [row EXCEPT !.due = TRUE].attempts = row.attempts
      /\ [row EXCEPT !.owner = Gone] \in DeliveryRow
      /\ [row EXCEPT !.owner = Gone].attempts = row.attempts
  BY DEF DeliveryRow
<1>8. [Waiting(row) EXCEPT !.attempts = @ - 1] \in DeliveryRow
      /\ [Waiting(row) EXCEPT !.attempts = @ - 1].attempts = row.attempts - 1
  BY <1>2, <1>3, <1>4
<1> QED
  BY <1>1, <1>2, <1>5, <1>6, <1>7, <1>8

\* retryWebhookDelivery: the attempt stays counted.
LEMMA RetryKeeps ==
    ASSUME DeliveryInv, NEW c \in Calls, calls[c].pc # "idle", retryWebhookDelivery(c),
           UNCHANGED sends
    PROVE  DeliveryInv'
<1>1. calls[c].delivery \in DOMAIN deliveries /\ Row(c) \in DeliveryRow
  BY DEF DeliveryInv, CallOK, Row
<1>2. CASE Owned(c)
  <2>1. PICK row : row = IF Row(c).attempts >= MaxAttempts THEN Exhausted(Row(c))
                         ELSE Waiting(Row(c))
    OBVIOUS
  <2>2. ChangeRow(c, row) /\ Return(c)
    BY <1>2, <2>1 DEF retryWebhookDelivery
  <2>3. row \in DeliveryRow /\ row.attempts = Row(c).attempts
    BY <1>1, <2>1, RowFields
  <2> QED
    BY <2>2, <2>3, EndKeeps
<1>3. CASE ~Owned(c)
  <2>1. UNCHANGED deliveries /\ Throw(c)
    BY <1>3 DEF retryWebhookDelivery
  <2>2. ChangeRow(c, Row(c))
    BY <1>1, <2>1 DEF ChangeRow, Row, DeliveryInv
  <2> QED
    BY <1>1, <2>1, <2>2, EndKeeps
<1> QED
  BY <1>2, <1>3

\* deferWebhookDelivery: the attempt that is given back was never sent.
LEMMA DeferKeeps ==
    ASSUME DeliveryInv, NEW c \in Calls, deferWebhookDelivery(c)
    PROVE  DeliveryInv'
<1>1. calls[c].pc = "prepare" /\ UNCHANGED sends
  BY DEF deferWebhookDelivery
<1>2. Row(c) \in DeliveryRow
  BY <1>1 DEF DeliveryInv, CallOK, Row
<1>3. CASE Owned(c) /\ Row(c).attempts >= 1
  <2>1. PICK row : row = [Waiting(Row(c)) EXCEPT !.attempts = @ - 1]
    OBVIOUS
  <2>2. ChangeRow(c, row) /\ Return(c)
    BY <1>3, <2>1 DEF deferWebhookDelivery
  <2>3. row \in DeliveryRow /\ row.attempts = Row(c).attempts - 1
    BY <1>2, <2>1, RowFields
  <2> QED
    BY <1>1, <2>2, <2>3, EndKeeps
<1>4. CASE ~(Owned(c) /\ Row(c).attempts >= 1)
  BY <1>1, <1>4, RetryKeeps DEF deferWebhookDelivery
<1> QED
  BY <1>3, <1>4

\* markWebhookDelivered.
LEMMA DeliveredKeeps ==
    ASSUME DeliveryInv, NEW c \in Calls, markWebhookDelivered(c)
    PROVE  DeliveryInv'
<1>1. calls[c].pc = "accepted" /\ UNCHANGED sends
  BY DEF markWebhookDelivered
<1>2. Row(c) \in DeliveryRow
  BY <1>1 DEF DeliveryInv, CallOK, Row
<1>3. CASE Owned(c)
  <2>1. PICK row : row = [Row(c) EXCEPT !.status = "DELIVERED", !.owner = Nothing, !.live = FALSE]
    OBVIOUS
  <2>2. ChangeRow(c, row) /\ Return(c)
    BY <1>3, <2>1 DEF markWebhookDelivered
  <2>3. row \in DeliveryRow /\ row.attempts = Row(c).attempts
    BY <1>2, <2>1, RowFields
  <2> QED
    BY <1>1, <2>2, <2>3, EndKeeps
<1>4. CASE ~Owned(c)
  BY <1>1, <1>4, RetryKeeps DEF markWebhookDelivered
<1> QED
  BY <1>3, <1>4

\* sendWebhookRequest: what was claimed and not sent is now sent.
LEMMA SendKeeps ==
    ASSUME DeliveryInv, NEW c \in Calls, NEW accepted \in BOOLEAN,
           sendWebhookRequest(c, accepted)
    PROVE  DeliveryInv'
<1>1. PICK d : d = calls[c].delivery
  OBVIOUS
<1>2. PICK pc \in {"accepted", "refused"} : pc = IF accepted THEN "accepted" ELSE "refused"
  OBVIOUS
<1>3. /\ calls[c].pc = "prepare" /\ UNCHANGED deliveries
      /\ sends' = [sends EXCEPT ![d] = sends[d] + 1]
      /\ calls' = [calls EXCEPT ![c].pc = pc]
  BY <1>1, <1>2 DEF sendWebhookRequest
<1>4. /\ d \in DOMAIN deliveries /\ sends \in [DOMAIN deliveries -> Nat]
      /\ calls \in [Calls -> Call(DOMAIN deliveries)] /\ calls[c] \in Call(DOMAIN deliveries)
      /\ deliveries[d] \in DeliveryRow /\ deliveries = [deliveries EXCEPT ![d] = deliveries[d]]
      /\ Counted(d)
  BY <1>1, <1>3 DEF DeliveryInv, CallOK
<1>5. /\ calls' \in [Calls -> Call(DOMAIN deliveries)]
      /\ calls'[c].pc = pc /\ calls'[c].delivery = d
      /\ \A b \in Calls \ {c} : calls'[b] = calls[b]
  <2>1. [calls[c] EXCEPT !.pc = pc] \in Call(DOMAIN deliveries)
        /\ [calls[c] EXCEPT !.pc = pc].pc = pc /\ [calls[c] EXCEPT !.pc = pc].delivery = d
    BY <1>1, <1>4 DEF Call
  <2> QED
    BY <1>3, <1>4, <2>1
<1>6. sends[d] + 1 \in Nat
  BY SMTT(30), <1>4
<1>7. deliveries[d].attempts <= MaxAttempts
      /\ (sends[d] + 1) + Cardinality(Unsent(d)) - (IF calls[c].pc = "prepare" THEN 1 ELSE 0)
           <= deliveries[d].attempts
  <2>1. Cardinality(Unsent(d)) \in Nat /\ sends[d] \in Nat /\ deliveries[d].attempts \in Int
    BY <1>4, UnsentFinite DEF DeliveryRow
  <2>2. /\ sends[d] + Cardinality(Unsent(d)) <= deliveries[d].attempts
        /\ deliveries[d].attempts <= MaxAttempts
    BY <1>4 DEF Counted
  <2> QED
    BY SMTT(30), <1>3, <2>1, <2>2
<1>8. deliveries' = [deliveries EXCEPT ![d] = deliveries[d]]
  BY <1>3, <1>4
<1> QED
  BY <1>1, <1>3, <1>4, <1>5, <1>6, <1>7, <1>8, OneCallKeeps

\* claimWebhookDeliveries: every delivery of the batch is counted once more, for
\* the one call that will send it.
LEMMA ClaimKeeps ==
    ASSUME DeliveryInv, NEW o \in Owners, claimWebhookDeliveries(o)
    PROVE  DeliveryInv'
<1> DEFINE D == DOMAIN deliveries
<1>a. PICK batch \in SUBSET Due :
        \E call \in [batch -> {c \in Calls : Idle(c)}] : ClaimBatch(o, batch, call)
  BY DEF claimWebhookDeliveries
<1>1. PICK call \in [batch -> {c \in Calls : Idle(c)}] : ClaimBatch(o, batch, call)
  BY <1>a
<1>2. /\ \A d, e \in batch : call[d] = call[e] => d = e
      /\ deliveries' = [d \in D |->
           IF d \in Swept THEN Exhausted(deliveries[d])
           ELSE IF d \in batch THEN Claimed(deliveries[d], o) ELSE deliveries[d]]
      /\ calls' = [c \in Calls |->
           IF \E d \in batch : call[d] = c
           THEN [pc |-> "prepare", owner |-> o, stray |-> FALSE,
                 delivery |-> CHOOSE d \in batch : call[d] = c]
           ELSE calls[c]]
  BY <1>1 DEF ClaimBatch
<1>3. /\ deliveries \in [D -> DeliveryRow] /\ sends \in [D -> Nat] /\ UNCHANGED sends
      /\ calls \in [Calls -> Call(D)] /\ MaxAttempts \in Nat
  BY NotificationsAssumption DEF DeliveryInv, claimWebhookDeliveries
<1>4. ASSUME NEW d \in batch
      PROVE  /\ d \in D /\ d \notin Swept /\ deliveries[d].attempts < MaxAttempts
             /\ call[d] \in Calls /\ calls[call[d]].pc = "idle"
             /\ calls'[call[d]].pc = "prepare" /\ calls'[call[d]].delivery = d
             /\ calls'[call[d]] \in Call(D)
  <2>1. d \in D /\ Claimable(d) /\ call[d] \in Calls /\ calls[call[d]].pc = "idle"
    BY DEF Due, Idle
  <2>2. deliveries[d].attempts < MaxAttempts /\ deliveries[d].attempts \in Int
    BY <1>3, <2>1 DEF Claimable, DeliveryRow
  <2>3. d \notin Swept
    BY SMTT(30), <1>3, <2>2 DEF Swept, ExpiredFinal
  <2>4. (CHOOSE e \in batch : call[e] = call[d]) = d
    BY <1>2
  <2>5. calls'[call[d]] = [pc |-> "prepare", owner |-> o, stray |-> FALSE, delivery |-> d]
    BY <1>2, <2>1, <2>4
  <2> QED
    BY SMTT(30), <2>1, <2>2, <2>3, <2>5 DEF Call
<1>5. ASSUME NEW c \in Calls, \A d \in batch : call[d] # c
      PROVE  calls'[c] = calls[c]
  BY <1>2, <1>5
<1>6. DOMAIN deliveries' = D
  BY <1>2
<1>7. ASSUME NEW d \in D
      PROVE  /\ deliveries'[d] \in DeliveryRow
             /\ d \in batch => deliveries'[d].attempts = deliveries[d].attempts + 1
             /\ d \notin batch => deliveries'[d].attempts = deliveries[d].attempts
  <2>1. deliveries[d] \in DeliveryRow
    BY <1>3
  <2>2. deliveries'[d] = IF d \in Swept THEN Exhausted(deliveries[d])
                         ELSE IF d \in batch THEN Claimed(deliveries[d], o) ELSE deliveries[d]
    BY <1>2
  <2>3. d \in batch => d \notin Swept
    BY <1>4
  <2>4. CASE d \in Swept
    <3>1. deliveries'[d] = Exhausted(deliveries[d]) /\ d \notin batch
      BY <2>2, <2>3, <2>4
    <3> QED
      BY <2>1, <3>1, RowFields
  <2>5. CASE d \in batch
    <3>1. deliveries'[d] = Claimed(deliveries[d], o)
      BY <2>2, <2>3, <2>5
    <3>2. Claimed(deliveries[d], o) \in DeliveryRow
          /\ Claimed(deliveries[d], o).attempts = deliveries[d].attempts + 1
      BY <2>1, RowFields
    <3> QED
      BY <2>5, <3>1, <3>2
  <2>6. CASE d \notin Swept /\ d \notin batch
    BY <2>1, <2>2, <2>6
  <2> QED
    BY <2>4, <2>5, <2>6
<1>8. deliveries' \in [D -> DeliveryRow]
  BY <1>2, <1>7
<1>9. ASSUME NEW c \in Calls
      PROVE  /\ calls'[c] \in Call(D)
             /\ calls'[c].pc # "idle" => calls'[c].delivery \in D
  <2>1. CASE \E d \in batch : call[d] = c
    BY SMTT(30), <1>4, <2>1
  <2>2. CASE \A d \in batch : call[d] # c
    BY <1>3, <1>5, <2>2 DEF DeliveryInv, CallOK
  <2> QED
    BY <2>1, <2>2
<1>10. calls' \in [Calls -> Call(D)]
  BY <1>2, <1>9
<1> HIDE DEF D
<1>11. ASSUME NEW d \in D PROVE Counted(d)'
  <2>1. Counted(d) /\ sends[d] \in Nat /\ deliveries[d].attempts \in Int
        /\ Cardinality(Unsent(d)) \in Nat /\ deliveries'[d].attempts \in Int
    BY <1>3, <1>7, UnsentFinite DEF DeliveryInv, DeliveryRow, D
  <2>2. CASE d \in batch
    <3>1. Unsent(d)' = Unsent(d) \cup {call[d]}
      BY SMTT(30), <1>4, <1>5, <2>2 DEF Unsent
    <3>2. call[d] \notin Unsent(d)
      BY <1>4, <2>2 DEF Unsent
    <3>3. PICK U : U = Unsent(d)
      OBVIOUS
    <3>4. IsFiniteSet(U)
      BY <3>3, UnsentFinite
    <3>5. Cardinality(U \cup {call[d]}) = Cardinality(U) + 1
      BY <3>2, <3>3, <3>4, FS_AddElement
    <3>6. Cardinality(Unsent(d)') = Cardinality(Unsent(d)) + 1
      BY <3>1, <3>3, <3>5
    <3> QED
      BY SMTT(30), <1>3, <1>4, <1>7, <2>1, <2>2, <3>6 DEF Counted
  <2>3. CASE d \notin batch
    <3>1. Unsent(d)' = Unsent(d)
      BY SMTT(30), <1>4, <1>5, <2>3 DEF Unsent
    <3> QED
      BY <1>3, <1>7, <2>1, <2>3, <3>1 DEF Counted
  <2> QED
    BY <2>2, <2>3
<1> QED
  BY <1>3, <1>6, <1>8, <1>9, <1>10, <1>11 DEF DeliveryInv, CallOK

\* A process crashes: its calls end, its leases keep running under its name.
LEMMA CrashKeeps ==
    ASSUME DeliveryInv, NEW o \in Owners, Crash(o)
    PROVE  DeliveryInv'
<1> DEFINE D == DOMAIN deliveries
<1>1. /\ deliveries \in [D -> DeliveryRow] /\ calls \in [Calls -> Call(D)]
      /\ UNCHANGED sends
      /\ deliveries' = [d \in D |-> IF deliveries[d].owner = o
                                    THEN [deliveries[d] EXCEPT !.owner = Gone] ELSE deliveries[d]]
      /\ calls' = [c \in Calls |-> IF calls[c].owner = o THEN NoCall ELSE calls[c]]
  BY DEF DeliveryInv, Crash
<1> HIDE DEF D
<1>2. ASSUME NEW d \in D
      PROVE  deliveries'[d] \in DeliveryRow /\ deliveries'[d].attempts = deliveries[d].attempts
  <2>1. deliveries[d] \in DeliveryRow
    BY <1>1
  <2>2. deliveries'[d] = [deliveries[d] EXCEPT !.owner = Gone] \/ deliveries'[d] = deliveries[d]
    BY <1>1
  <2> QED
    BY <2>1, <2>2, RowFields
<1>3. deliveries' \in [D -> DeliveryRow]
  BY <1>1, <1>2
<1>4. NoCall \in Call(D) /\ NoCall.pc = "idle"
  BY DEF NoCall, Call
<1>5. calls' \in [Calls -> Call(D)]
      /\ \A c \in Calls : calls'[c].pc = "idle" \/ calls'[c] = calls[c]
  BY <1>1, <1>4
<1> QED
  BY <1>1, <1>2, <1>3, <1>5, RowsKeep DEF D

\* Leases run out and back-offs elapse.
LEMMA TimersKeep ==
    ASSUME DeliveryInv,
           (\E o : LeasesExpire(o)) \/ (\E d \in DOMAIN deliveries : BackoffElapses(d))
    PROVE  DeliveryInv'
<1> DEFINE D == DOMAIN deliveries
<1>1. deliveries \in [D -> DeliveryRow] /\ calls \in [Calls -> Call(D)]
  BY DEF DeliveryInv
<1>2. /\ UNCHANGED <<sends, calls>>
      /\ deliveries' = [d \in D |-> deliveries'[d]]
      /\ \A d \in D : \/ deliveries'[d] = deliveries[d]
                      \/ deliveries'[d] = [deliveries[d] EXCEPT !.live = FALSE]
                      \/ deliveries'[d] = [deliveries[d] EXCEPT !.due = TRUE]
  <2>1. CASE \E o : LeasesExpire(o)
    BY <2>1 DEF LeasesExpire
  <2>2. CASE \E d \in D : BackoffElapses(d)
    BY <1>1, <2>2 DEF BackoffElapses, queue
  <2> QED
    BY <2>1, <2>2
<1> HIDE DEF D
<1>3. ASSUME NEW d \in D
      PROVE  deliveries'[d] \in DeliveryRow /\ deliveries'[d].attempts = deliveries[d].attempts
  <2>1. deliveries[d] \in DeliveryRow
    BY <1>1
  <2> QED
    BY <1>2, <2>1, RowFields
<1>4. deliveries' \in [D -> DeliveryRow]
  BY <1>2, <1>3
<1> QED
  BY <1>1, <1>2, <1>3, <1>4, RowsKeep DEF D

LEMMA DeliveryInitially == Init => DeliveryInv
<1> SUFFICES ASSUME Init PROVE DeliveryInv
  OBVIOUS
<1>1. deliveries = <<>> /\ sends = <<>> /\ DOMAIN deliveries = {}
  BY SMTT(30) DEF Init
<1>2. NoCall \in Call({}) /\ NoCall.pc = "idle"
  BY DEF NoCall, Call
<1>3. calls \in [Calls -> Call({})] /\ \A c \in Calls : calls[c].pc = "idle"
  BY <1>2 DEF Init
<1>4. <<>> \in [{} -> DeliveryRow] /\ <<>> \in [{} -> Nat]
  BY SMTT(30)
<1> QED
  BY <1>1, <1>3, <1>4 DEF DeliveryInv, CallOK

LEMMA DeliveryStep ==
    ASSUME DeliveryInv, [Next]_vars
    PROVE  DeliveryInv'
<1>1. ASSUME UNCHANGED <<deliveries, calls, sends>> PROVE DeliveryInv'
  BY <1>1 DEF DeliveryInv, CallOK, Counted, Unsent
<1>2. CASE Tick \/ UNCHANGED vars
  BY <1>1, <1>2 DEF Tick, vars, queue
<1>3. ASSUME NEW s \in Subscriptions, createWebhookSubscription(s) \/ archiveWebhookSubscription(s)
      PROVE  DeliveryInv'
  BY <1>1, <1>3 DEF createWebhookSubscription, archiveWebhookSubscription, queue
<1>4. ASSUME NEW r \in Requests, CreateRequest(r) \/ CancelRequest(r) PROVE DeliveryInv'
  BY <1>4, CommitKeeps DEF CreateRequest, CancelRequest
<1>5. CASE ReadRequests
  BY <1>5, CommitKeeps DEF ReadRequests
<1>6. ASSUME NEW t \in Transfers, NEW created \in 0..now, Land(t, created) PROVE DeliveryInv'
  BY <1>1, <1>6 DEF Land, queue
<1>7. ASSUME NEW i \in Slots, ConfirmManaged(i) PROVE DeliveryInv'
  BY <1>1, <1>7 DEF ConfirmManaged, queue
<1>8. ASSUME NEW i \in Slots, persistTransfer(i) PROVE DeliveryInv'
  BY <1>8, CommitKeeps DEF persistTransfer
<1>9. CASE reconcileUnmatchedManagedIncoming
  <2>1. PICK after : Commit(after)
    BY <1>9 DEF reconcileUnmatchedManagedIncoming
  <2> QED
    BY <2>1, CommitKeeps
<1>10. ASSUME NEW o \in Owners, claimWebhookDeliveries(o) \/ Crash(o) PROVE DeliveryInv'
  BY <1>10, ClaimKeeps, CrashKeeps
<1>11. ASSUME NEW c \in Calls, Deliver(c) PROVE DeliveryInv'
  <2>1. CASE PrepareFails(c) \/ AttemptFails(c)
    BY <2>1, RetryKeeps DEF PrepareFails, AttemptFails
  <2>2. CASE \E accepted \in BOOLEAN : sendWebhookRequest(c, accepted)
    BY <2>2, SendKeeps
  <2> QED
    BY <1>11, <2>1, <2>2, DeliveredKeeps DEF Deliver
<1>12. ASSUME NEW c \in Calls, deferWebhookDelivery(c) PROVE DeliveryInv'
  BY <1>12, DeferKeeps
<1>13. CASE (\E o : LeasesExpire(o)) \/ (\E d \in DOMAIN deliveries : BackoffElapses(d))
  BY <1>13, TimersKeep
<1> QED
  BY <1>2, <1>3, <1>4, <1>5, <1>6, <1>7, <1>8, <1>9, <1>10, <1>11, <1>12, <1>13 DEF Next

-----------------------------------------------------------------------------
(* The theorems. *)

\* The inductive invariant, for the transactions on money received and for the
\* webhook deliveries.
THEOREM ReceiveInvAlways == Spec => []ReceiveInv
<1>1. Init => ReceiveInv
  BY MoneyInitially, DeliveryInitially DEF ReceiveInv
<1>2. ReceiveInv /\ [Next]_vars => ReceiveInv'
  BY MoneyStep, DeliveryStep DEF ReceiveInv
<1> QED
  BY <1>1, <1>2, PTL DEF Spec

\* Requests made through /v2 are stored at the scale of cents, or ask for no
\* particular amount.
ScalesAgree ==
    \A r \in Requests : Terms[r].v2 => AtomicPerCent = 1 \/ Terms[r].cents = 0

\* A PAID request was paid once, in time, by a transfer of the amount it asks for
\* (matchIncomingPaymentInTransaction, createIncomingPayment,
\* reconcileUnmatchedManagedIncoming).  The hypothesis is needed: the code compares
\* the stored amount of a /v2 request with the cents of a transfer.
THEOREM PaymentsAreAsAsked ==
    ASSUME ScalesAgree
    PROVE  Spec => []PaidAsAsked
<1>1. ReceiveInv => PaidAsAsked
  <2> SUFFICES ASSUME ReceiveInv PROVE PaidAsAsked
    OBVIOUS
  <2>1. ASSUME NEW r \in Requests PROVE AmountAtomic(r) = Terms[r].cents
    <3>1. Terms[r].cents \in Nat /\ AtomicPerCent \in Nat /\ Terms[r].v2 \in BOOLEAN
      BY TablesAssumption
    <3>2. CASE Terms[r].v2
      BY SMTT(30), <3>1, <3>2 DEF ScalesAgree, AmountAtomic
    <3>3. CASE ~Terms[r].v2
      BY SMTT(30), <3>1, <3>3 DEF AmountAtomic
    <3> QED
      BY <3>1, <3>2, <3>3
  <2>2. \A i \in Slots : db.incoming[i] \in Requests => db.requests[db.incoming[i]].matched = i
    BY DEF ReceiveInv, MoneyInv, Named
  <2>3. \A r \in Requests : Settled(r)
    BY DEF ReceiveInv, MoneyInv
  <2> QED
    BY <2>1, <2>2, <2>3 DEF PaidAsAsked, Settled, AmountFits
<1> QED
  BY <1>1, ReceiveInvAlways, PTL

\* PAID and CANCELLED are final, and EXPIRED only gives way to PAID, whichever
\* transactions race (cancelReceiveRequest, expireOpenReceiveRequests, the matches).
THEOREM OutcomesStayFinal == Spec => OutcomesAreFinal
<1>1. ReceiveInv /\ [Next]_vars => [\A r \in Requests : RequestMoves(r)]_vars
  BY MoneyStep DEF ReceiveInv
<1> QED
  BY <1>1, ReceiveInvAlways, PTL DEF Spec, OutcomesAreFinal

\* An endpoint is sent an event at most MaxAttempts times, although claims are
\* given back and calls of one process overlap (claimWebhookDeliveries,
\* deferWebhookDelivery, deliverWithLease).
THEOREM SendsStayBounded == Spec => []SendsBounded
<1>1. ReceiveInv => SendsBounded
  <2> SUFFICES ASSUME ReceiveInv, NEW d \in DOMAIN deliveries
               PROVE  sends[d] <= deliveries[d].attempts /\ deliveries[d].attempts <= MaxAttempts
    BY DEF SendsBounded
  <2>1. Counted(d) /\ sends[d] \in Nat /\ deliveries[d].attempts \in Int
    BY DEF ReceiveInv, DeliveryInv, DeliveryRow
  <2> QED
    BY SMTT(30), <2>1, UnsentFinite DEF Counted
<1> QED
  BY <1>1, ReceiveInvAlways, PTL
=============================================================================
