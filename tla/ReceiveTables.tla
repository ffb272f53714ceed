---------------------------- MODULE ReceiveTables ----------------------------
(***************************************************************************)
(* The tables in which money received by one account is kept: incoming     *)
(* payments, receive requests and the webhook events their transactions    *)
(* enqueue (packages/db/src/index.ts).  A value db of Tables is the        *)
(* committed content; the operators are the transactions.                  *)
(*                                                                         *)
(* A transfer t is what the chain and the outgoing side tell of it:        *)
(* whether a managed account paid it, its reference ("": none), its amount *)
(* in cents, its block time (at), and for a managed payment when that was  *)
(* created and when it was confirmed (0: not yet).                         *)
(***************************************************************************)
EXTENDS Integers, Sequences, FiniteSets

CONSTANTS Requests,   \* receive requests
          Terms,      \* Terms[r]: [reference, cents (0: any), v2, life (0: none)]
          AtomicPerCent, \* 10 ^ (maxScale - 2) of the denomination
          Slots,      \* positions of signatures on the chain
          Unseen,     \* there is no incoming_payments row
          Nothing     \* a row that is matched to no request

ASSUME TablesAssumption ==
    /\ Unseen # Nothing /\ {Unseen, Nothing} \intersect Requests = {}
    /\ Terms \in [Requests -> [reference: STRING \ {""}, cents: Nat,
                              v2: BOOLEAN, life: Nat]]
    /\ AtomicPerCent \in Nat \ {0}
    /\ Slots \subseteq Nat \ {0}

Statuses == {"NONE", "OPEN", "PAID", "EXPIRED", "CANCELLED"}

EmptyTables ==
    [incoming |-> [i \in Slots |-> Unseen],
     requests |-> [r \in Requests |->
                     [status |-> "NONE", created |-> 0, matched |-> 0]],
     events |-> {}]

(* An event is identified by its resource and its type. *)
enqueueReceiveRequestWebhookEvent(db, r, transition) ==
    [db EXCEPT !.events = @ \union {<<"receive_request", r, transition>>}]
enqueueIncomingPaymentWebhookEvent(db, i, transition) ==
    [db EXCEPT !.events = @ \union {<<"incoming", i, transition>>}]

----------------------------------------------------------------------------
(* Matching. *)

\* The confirmed managed payment anchors the time of a transfer whose block
\* time is earlier.
UseManagedTime(t) == t.managed /\ t.confirmed # 0 /\ t.confirmed > t.at
MatchConfirmedAt(t) == IF UseManagedTime(t) THEN t.confirmed ELSE t.at
LatestReceiveCreation(t) == IF UseManagedTime(t) THEN t.created ELSE t.at

EndsBy(request, r, time) ==
    Terms[r].life # 0 /\ request.created + Terms[r].life <= time

\* MUTANT: a request is settled by any transfer that is not smaller.
AtLeastTheAmount(r, t) == Terms[r].cents <= t.cents

\* Through /v1 an amount is kept in cents, through /v2 at the scale of its
\* denomination.  The amount of a transfer is always in cents.
AmountAtomic(r) == Terms[r].cents * (IF Terms[r].v2 THEN AtomicPerCent ELSE 1)

AmountFits(r, t) == AmountAtomic(r) \in {0, t.cents}

\* OPEN requests that have ended by the given time become EXPIRED.
ExpireBy(db, time) ==
    [db EXCEPT !.requests =
       [r \in Requests |->
          LET request == db.requests[r]
          IN IF request.status = "OPEN" /\ EndsBy(request, r, time)
             THEN [request EXCEPT !.status = "EXPIRED"] ELSE request]]

\* MUTANT: a request without a match is taken, whatever became of it.
AnswersUnlessMatched(db, r, t) ==
    /\ Terms[r].reference = t.reference
    /\ db.requests[r].status # "NONE" /\ db.requests[r].matched = 0
    /\ db.requests[r].created <= LatestReceiveCreation(t)
    /\ ~EndsBy(db.requests[r], r, MatchConfirmedAt(t))
    /\ AmountFits(r, t)

Answers(db, r, t) ==
    /\ Terms[r].reference = t.reference
    /\ db.requests[r].status \in {"OPEN", "EXPIRED"}
    /\ db.requests[r].matched = 0
    /\ db.requests[r].created <= LatestReceiveCreation(t)
    /\ ~EndsBy(db.requests[r], r, MatchConfirmedAt(t))
    /\ AmountFits(r, t)

Pay(db, r, i) ==
    [db EXCEPT !.incoming[i] = r,
               !.requests[r].status = "PAID", !.requests[r].matched = i]

\* References are unique in an account, so at most one request answers.
matchIncomingPaymentInTransaction(db, i, t) ==
    LET expired == ExpireBy(db, MatchConfirmedAt(t))
        candidates == {r \in Requests : Answers(expired, r, t)}
    IN IF t.reference = "" THEN db
       ELSE IF candidates = {} \/ db.incoming[i] # Nothing THEN expired
       ELSE LET r == CHOOSE c \in candidates : TRUE
            IN enqueueReceiveRequestWebhookEvent(
                 enqueueIncomingPaymentWebhookEvent(Pay(expired, r, i), i, "updated"),
                 r, "updated")

\* A signature that is already stored is returned as it is.
createIncomingPayment(db, i, t) ==
    IF db.incoming[i] # Unseen THEN db
    ELSE matchIncomingPaymentInTransaction(
           enqueueIncomingPaymentWebhookEvent([db EXCEPT !.incoming[i] = Nothing],
                                              i, "created"), i, t)

\* MUTANT: only requests that are still OPEN are looked at.
ManagedCandidateForOpen(db, i, t) ==
    /\ db.incoming[i] = Nothing
    /\ t.managed /\ t.confirmed # 0
    /\ \E r \in Requests :
         /\ Terms[r].reference = t.reference
         /\ db.requests[r].status = "OPEN"
         /\ AmountFits(r, t)
         /\ db.requests[r].created <= t.created
         /\ ~EndsBy(db.requests[r], r, t.confirmed)

\* Stored transfers whose managed payment was confirmed after the discovery.
ManagedCandidate(db, i, t) ==
    /\ db.incoming[i] = Nothing
    /\ t.managed /\ t.confirmed # 0
    /\ \E r \in Requests :
         /\ Terms[r].reference = t.reference
         /\ db.requests[r].status \in {"OPEN", "EXPIRED"}
         /\ db.requests[r].matched = 0
         /\ AmountFits(r, t)
         /\ db.requests[r].created <= t.created
         /\ ~EndsBy(db.requests[r], r, t.confirmed)

----------------------------------------------------------------------------
(* Receive requests. *)

\* A second request with the same reference is a conflict.
ReferenceFree(db, r) ==
    \A q \in Requests : Terms[q].reference = Terms[r].reference =>
                          db.requests[q].status = "NONE"

createReceiveRequest(db, r, now) ==
    enqueueReceiveRequestWebhookEvent(
      [db EXCEPT !.requests[r].status = "OPEN", !.requests[r].created = now],
      r, "created")

cancelReceiveRequest(db, r) ==
    enqueueReceiveRequestWebhookEvent(
      [db EXCEPT !.requests[r].status = "CANCELLED"], r, "cancelled")

\* Unlike the expiry inside a match, this one announces what it expires.
expireOpenReceiveRequests(db, now) ==
    LET expired == ExpireBy(db, now)
    IN [expired EXCEPT !.events = @ \union
          {<<"receive_request", r, "expired">> :
             r \in {q \in Requests : expired.requests[q] # db.requests[q]}}]
=============================================================================
