------------------------ MODULE ReceiveNotifications ------------------------
(***************************************************************************)
(* What follows from money that arrives: receive requests are paid, and    *)
(* subscribers are told.  Composes the transactions of ReceiveTables with  *)
(* the agent who creates and cancels requests, the outgoing side that      *)
(* confirms managed payments, the worker that stores transfers and matches *)
(* late (apps/api/src/incoming.ts), and the webhook worker                 *)
(* (apps/api/src/webhooks.ts over packages/db/src/v2-operations.ts).       *)
(***************************************************************************)
EXTENDS ReceiveTables

CONSTANTS Transfers,    \* what may land: [managed, reference, cents, skew], where
                        \* the block time lies skew behind the wall clock, or ahead
          Subscriptions,
          EventTypes,   \* EventTypes[s]: set of <<resource type, transition>>
          Owners,       \* webhook processes
          Calls,        \* deliveries that may be under way at a time
          Gone,         \* owner string of a process that no longer exists
          MaxAttempts,  \* webhookMaxAttempts
          MaxTime, MaxFaults

ASSUME NotificationsAssumption ==
    /\ Transfers \subseteq [managed: BOOLEAN, reference: STRING, cents: Nat \ {0}, skew: Int]
    /\ Gone \notin Owners /\ Nothing \notin Owners /\ Gone # Nothing
    /\ IsFiniteSet(Calls)
    /\ MaxAttempts \in Nat \ {0} /\ {MaxTime, MaxFaults} \subseteq Nat

VARIABLES now,            \* the wall clock
          chain,          \* transfers to the account that landed
          db,             \* incoming_payments, receive_requests, webhook_events
          subscriptions,  \* status of each webhook_subscription
          deliveries,     \* webhook_deliveries: <<event, subscription>> -> row
          calls,          \* deliveries under way in the processes
          busy,           \* owners whose last batch has not ended
          sends,          \* history: requests sent for each delivery
          faults          \* history: faults so far

money == <<now, chain>>
queue == <<calls, busy, sends, faults>>
vars == <<now, chain, db, subscriptions, deliveries, calls, busy, sends, faults>>

NoCall == [pc |-> "idle", owner |-> Nothing, delivery |-> <<>>, stray |-> FALSE]

Init ==
    /\ now = 1 /\ chain = <<>>
    /\ db = EmptyTables
    /\ subscriptions = [s \in Subscriptions |-> "NONE"]
    /\ deliveries = <<>>
    /\ calls = [c \in Calls |-> NoCall]
    /\ busy = {} /\ sends = <<>> /\ faults = 0

Fault == faults < MaxFaults /\ faults' = faults + 1

Tick ==
    /\ now < MaxTime /\ now' = now + 1
    /\ UNCHANGED <<chain, db, subscriptions, deliveries, queue>>

----------------------------------------------------------------------------
(* Webhook events become deliveries in the transaction that enqueues them. *)

NewDelivery == [status |-> "AVAILABLE", attempts |-> 0, owner |-> Nothing,
                live |-> FALSE, due |-> TRUE]

\* Existing deliveries come first: an event id is enqueued once.
Enqueued(new) ==
    LET added == {d \in new \X Subscriptions :
                    subscriptions[d[2]] = "ACTIVE"
                    /\ <<d[1][1], d[1][3]>> \in EventTypes[d[2]]}
    IN [d \in DOMAIN deliveries \union added |->
          IF d \in DOMAIN deliveries THEN deliveries[d] ELSE NewDelivery]

\* Commits the transaction that turns the tables into after.
Commit(after) ==
    /\ db' = after
    /\ deliveries' = Enqueued(after.events \ db.events)
    /\ sends' = [d \in DOMAIN deliveries' |->
                   IF d \in DOMAIN sends THEN sends[d] ELSE 0]
    /\ UNCHANGED <<subscriptions, calls, busy, faults>>

createWebhookSubscription(s) ==
    /\ subscriptions[s] = "NONE"
    /\ subscriptions' = [subscriptions EXCEPT ![s] = "ACTIVE"]
    /\ UNCHANGED <<money, db, deliveries, queue>>

archiveWebhookSubscription(s) ==
    /\ subscriptions[s] = "ACTIVE"
    /\ subscriptions' = [subscriptions EXCEPT ![s] = "ARCHIVED"]
    /\ UNCHANGED <<money, db, deliveries, queue>>

----------------------------------------------------------------------------
(* Requests and transfers. *)

\* A retry with the same idempotency key returns the request and changes nothing.
CreateRequest(r) ==
    /\ ReferenceFree(db, r)
    /\ Commit(createReceiveRequest(db, r, now))
    /\ UNCHANGED money

CancelRequest(r) ==
    /\ db.requests[r].status = "OPEN"
    /\ Commit(cancelReceiveRequest(db, r))
    /\ UNCHANGED money

\* GET and list under /v1 expire first; those under /v2 only read.
ReadRequests ==
    /\ \E r \in Requests :
         db.requests[r].status = "OPEN" /\ EndsBy(db.requests[r], r, now)
    /\ Commit(expireOpenReceiveRequests(db, now))
    /\ UNCHANGED money

\* A managed payment was created before its transaction landed.
Land(t, created) ==
    /\ Len(chain) + 1 \in Slots
    /\ IF t.managed THEN created \in 1..now ELSE created = 0
    /\ chain' = Append(chain, [managed |-> t.managed, reference |-> t.reference,
                               cents |-> t.cents, at |-> now - t.skew,
                               created |-> created, confirmed |-> 0])
    /\ UNCHANGED <<now, db, subscriptions, deliveries, queue>>

\* The outgoing worker finalizes the payment as CONFIRMED.
ConfirmManaged(i) ==
    /\ i \in DOMAIN chain /\ chain[i].managed /\ chain[i].confirmed = 0
    /\ chain' = [chain EXCEPT ![i].confirmed = now]
    /\ UNCHANGED <<now, db, subscriptions, deliveries, queue>>

\* The scan or the inspection of an issue found the transfer.
persistTransfer(i) ==
    /\ i \in DOMAIN chain /\ db.incoming[i] = Unseen
    /\ Commit(createIncomingPayment(db, i, chain[i]))
    /\ UNCHANGED money

Candidates == {i \in DOMAIN chain : ManagedCandidate(db, i, chain[i])}

\* The end of a run: the candidates are matched in one transaction.  A candidate
\* answers the one request with its reference, and of the candidates for one
\* request the first wins; what an earlier match expires does not stop a later.
reconcileUnmatchedManagedIncoming ==
    LET answered == {r \in Requests : \E i \in Candidates : Answers(db, r, chain[i])}
        Ended(r) == \E i \in Candidates :
                      EndsBy(db.requests[r], r, MatchConfirmedAt(chain[i]))
    IN /\ Candidates # {}
       /\ \E winner \in [answered -> Candidates] :
            /\ \A r \in answered : Answers(db, r, chain[winner[r]])
            /\ Commit([incoming |-> [i \in Slots |->
                         IF \E r \in answered : winner[r] = i
                         THEN CHOOSE r \in answered : winner[r] = i
                         ELSE db.incoming[i]],
                       requests |-> [r \in Requests |->
                         IF r \in answered
                         THEN [db.requests[r] EXCEPT !.status = "PAID",
                                                     !.matched = winner[r]]
                         ELSE IF db.requests[r].status = "OPEN" /\ Ended(r)
                         THEN [db.requests[r] EXCEPT !.status = "EXPIRED"]
                         ELSE db.requests[r]],
                       events |-> db.events
                         \union {<<"receive_request", r, "updated">> : r \in answered}
                         \union {<<"incoming", winner[r], "updated">> : r \in answered}])
       /\ UNCHANGED money

----------------------------------------------------------------------------
(* Deliveries. *)

\* MUTANT: the count of a claim is taken when its attempt has failed.
ClaimedUncounted(row, o) ==
    [row EXCEPT !.status = "CLAIMED", !.owner = o, !.live = TRUE]

Claimed(row, o) ==
    [row EXCEPT !.status = "CLAIMED", !.owner = o, !.live = TRUE,
                !.attempts = @ + 1]

Exhausted(row) ==
    [row EXCEPT !.status = "EXHAUSTED", !.owner = Nothing, !.live = FALSE]

\* MUTANT: the last claim of a process that died is left alone.
NeverExpiredFinal(row) == FALSE

ExpiredFinal(row) ==
    row.status = "CLAIMED" /\ ~row.live /\ row.attempts >= MaxAttempts

Claimable(d) ==
    LET row == deliveries[d]
    IN /\ row.due
       /\ row.status \in {"AVAILABLE", "RETRY_WAIT"} \/ (row.status = "CLAIMED" /\ ~row.live)
       /\ row.attempts < MaxAttempts
       /\ subscriptions[d[2]] = "ACTIVE"

Idle(c) == calls[c].pc = "idle"

\* The two queries of a claim: claims of the last attempt that ran out, and
\* deliveries to hand out.
Swept == {d \in DOMAIN deliveries : ExpiredFinal(deliveries[d])}
Due == {d \in DOMAIN deliveries : Claimable(d)}

\* A batch is as large as the limit and the claimable deliveries allow.
ClaimBatch(o, batch, call) ==
    /\ \A d, e \in batch : call[d] = call[e] => d = e
    /\ batch = Due \/ \A c \in Calls : Idle(c) => \E d \in batch : call[d] = c
    /\ deliveries' = [d \in DOMAIN deliveries |->
         IF d \in Swept THEN Exhausted(deliveries[d])
         ELSE IF d \in batch THEN Claimed(deliveries[d], o)
         ELSE deliveries[d]]
    /\ calls' = [c \in Calls |->
         IF \E d \in batch : call[d] = c
         THEN [pc |-> "prepare", owner |-> o, stray |-> FALSE,
               delivery |-> CHOOSE d \in batch : call[d] = c]
         ELSE calls[c]]
    /\ busy' = IF batch = {} THEN busy ELSE busy \union {o}

claimWebhookDeliveries(o) ==
    /\ o \notin busy
    /\ Swept # {} \/ Due # {}
    /\ \E batch \in SUBSET Due :
       \E call \in [batch -> {c \in Calls : Idle(c)}] : ClaimBatch(o, batch, call)
    /\ UNCHANGED <<money, db, subscriptions, sends, faults>>

Row(c) == deliveries[calls[c].delivery]

\* The lease is compared by status, owner and clock, never by attempt.
Owned(c) ==
    Row(c).status = "CLAIMED" /\ Row(c).owner = calls[c].owner /\ Row(c).live

ChangeRow(c, row) == deliveries' = [deliveries EXCEPT ![calls[c].delivery] = row]

\* A call has ended: the batch too, when no other call of it is under way.
Return(c) ==
    /\ calls' = [calls EXCEPT ![c] = NoCall]
    /\ busy' = IF calls[c].stray \/ \E b \in Calls \ {c} :
                     ~Idle(b) /\ calls[b].owner = calls[c].owner /\ ~calls[b].stray
               THEN busy ELSE busy \ {calls[c].owner}

\* A call throws: Promise.all rejects at once, and the other calls of its batch
\* go on beside the next batch.
Throw(c) ==
    /\ calls' = [b \in Calls |->
         IF b = c THEN NoCall
         ELSE IF ~Idle(b) /\ calls[b].owner = calls[c].owner /\ ~calls[c].stray
         THEN [calls[b] EXCEPT !.stray = TRUE] ELSE calls[b]]
    /\ busy' = IF calls[c].stray THEN busy ELSE busy \ {calls[c].owner}

Waiting(row) ==
    [row EXCEPT !.status = "RETRY_WAIT", !.owner = Nothing, !.live = FALSE,
                !.due = FALSE]

\* retry(), also the answer to every error of deliverWithLease.
retryWebhookDelivery(c) ==
    IF Owned(c)
    THEN /\ ChangeRow(c, IF Row(c).attempts >= MaxAttempts THEN Exhausted(Row(c))
                         ELSE Waiting(Row(c)))
         /\ Return(c)
    ELSE UNCHANGED deliveries /\ Throw(c)

\* No key, no public address: the attempt fails before anything is sent.
PrepareFails(c) ==
    /\ calls[c].pc = "prepare"
    /\ retryWebhookDelivery(c)
    /\ UNCHANGED <<money, db, subscriptions, sends, faults>>

\* Capacity refused: the attempt is given back.
deferWebhookDelivery(c) ==
    /\ calls[c].pc = "prepare" /\ Fault
    /\ IF Owned(c) /\ Row(c).attempts >= 1
       THEN /\ ChangeRow(c, [Waiting(Row(c)) EXCEPT !.attempts = @ - 1])
            /\ Return(c)
       ELSE retryWebhookDelivery(c)
    /\ UNCHANGED <<money, db, subscriptions, sends>>

sendWebhookRequest(c, accepted) ==
    /\ calls[c].pc = "prepare"
    /\ sends' = [sends EXCEPT ![calls[c].delivery] = @ + 1]
    /\ calls' = [calls EXCEPT ![c].pc = IF accepted THEN "accepted" ELSE "refused"]
    /\ UNCHANGED <<money, db, subscriptions, deliveries, busy, faults>>

markWebhookDelivered(c) ==
    /\ calls[c].pc = "accepted"
    /\ IF Owned(c)
       THEN /\ ChangeRow(c, [Row(c) EXCEPT !.status = "DELIVERED",
                                           !.owner = Nothing, !.live = FALSE])
            /\ Return(c)
       ELSE retryWebhookDelivery(c)
    /\ UNCHANGED <<money, db, subscriptions, sends, faults>>

\* Another status than 2xx, a timeout, or an error while the answer is recorded.
AttemptFails(c) ==
    /\ \/ calls[c].pc = "refused" /\ UNCHANGED faults
       \/ calls[c].pc = "accepted" /\ Fault
    /\ retryWebhookDelivery(c)
    /\ UNCHANGED <<money, db, subscriptions, sends>>

\* Heartbeats stop while a process is stalled, and when it has stopped.
LeasesExpire(o) ==
    /\ \E d \in DOMAIN deliveries : deliveries[d].owner = o /\ deliveries[d].live
    /\ IF o = Gone THEN UNCHANGED faults ELSE Fault
    /\ deliveries' = [d \in DOMAIN deliveries |->
         IF deliveries[d].owner = o THEN [deliveries[d] EXCEPT !.live = FALSE]
         ELSE deliveries[d]]
    /\ UNCHANGED <<money, db, subscriptions, calls, busy, sends>>

BackoffElapses(d) ==
    /\ d \in DOMAIN deliveries /\ ~deliveries[d].due
    /\ deliveries' = [deliveries EXCEPT ![d].due = TRUE]
    /\ UNCHANGED <<money, db, subscriptions, queue>>

Crash(o) ==
    /\ \E c \in Calls : ~Idle(c) /\ calls[c].owner = o
    /\ Fault
    /\ calls' = [c \in Calls |-> IF calls[c].owner = o THEN NoCall ELSE calls[c]]
    /\ busy' = busy \ {o}
    /\ deliveries' = [d \in DOMAIN deliveries |->
         IF deliveries[d].owner = o THEN [deliveries[d] EXCEPT !.owner = Gone]
         ELSE deliveries[d]]
    /\ UNCHANGED <<money, db, subscriptions, sends>>

Deliver(c) ==
    \/ PrepareFails(c) \/ markWebhookDelivered(c) \/ AttemptFails(c)
    \/ \E accepted \in BOOLEAN : sendWebhookRequest(c, accepted)

----------------------------------------------------------------------------
Next ==
    \/ Tick
    \/ \E s \in Subscriptions :
         createWebhookSubscription(s) \/ archiveWebhookSubscription(s)
    \/ \E r \in Requests : CreateRequest(r) \/ CancelRequest(r)
    \/ ReadRequests
    \/ \E t \in Transfers, created \in 0..now : Land(t, created)
    \/ \E i \in Slots : ConfirmManaged(i) \/ persistTransfer(i)
    \/ reconcileUnmatchedManagedIncoming
    \/ \E o \in Owners : claimWebhookDeliveries(o) \/ Crash(o)
    \/ \E c \in Calls : Deliver(c) \/ deferWebhookDelivery(c)
    \/ \E o \in Owners \union {Gone} : LeasesExpire(o)
    \/ \E d \in DOMAIN deliveries : BackoffElapses(d)

Spec == Init /\ [][Next]_vars

Events ==
    ({"receive_request"} \X Requests \X {"created", "updated", "cancelled", "expired"})
    \union ({"incoming"} \X Slots \X {"created", "updated"})
Deliverable ==
    {d \in Events \X Subscriptions : <<d[1][1], d[1][3]>> \in EventTypes[d[2]]}

\* Workers poll in a loop and are started again when they stop, and clocks run:
\* leases and back-offs end.  Every run of the worker ends with the late matches,
\* of all accounts.  The agent and the outgoing side owe nothing, and a transfer
\* may never be stored: accounts that are not ACTIVE are not scanned, and the
\* inspection of a signature is given up in the end (see IncomingReconciliation).
Fairness ==
    /\ WF_vars(reconcileUnmatchedManagedIncoming)
    /\ WF_vars(\/ \E o \in Owners : claimWebhookDeliveries(o)
               \/ \E c \in Calls : Deliver(c)
               \/ LeasesExpire(Gone)
               \/ \E d \in DOMAIN deliveries : BackoffElapses(d))

FairSpec == Spec /\ Fairness

----------------------------------------------------------------------------
(* Properties. *)

\* Transfer t was made after the request was created and before it ended: by its
\* block time, or by the times of the managed payment behind it.
InTime(request, r, t) ==
    LET Within(from, to) == request.created <= from /\ ~EndsBy(request, r, to)
    IN Within(t.at, t.at) \/ (t.managed /\ t.confirmed # 0 /\ Within(t.created, t.confirmed))

\* A request that is PAID names the one transfer that names it, a transfer of
\* the amount asked for, made in time, whatever expired, cancelled or matched it
\* in between (matchIncomingPaymentInTransaction, expireOpenReceiveRequests).
PaidAsAsked ==
    /\ \A i \in Slots : db.incoming[i] \in Requests =>
         db.requests[db.incoming[i]].matched = i
    /\ \A r \in Requests :
         LET request == db.requests[r]
             t == chain[request.matched]
         IN IF request.status # "PAID" THEN request.matched = 0
            ELSE /\ db.incoming[request.matched] = r
                 /\ Terms[r].cents \in {0, t.cents}
                 /\ InTime(request, r, t)

\* Requests that are paid or cancelled stay so, and one that has expired can only
\* be found to have been paid in time.
RequestMoves(r) ==
    LET before == db.requests[r]
        after == db'.requests[r]
    IN /\ before.status \in {"PAID", "CANCELLED"} => after = before
       /\ before.status = "EXPIRED" => after.status \in {"EXPIRED", "PAID"}
OutcomesAreFinal == [][\A r \in Requests : RequestMoves(r)]_vars

\* Once the transfer of a managed payment is stored and the payment confirmed, it
\* pays the request it was made for, whichever came first, although the request
\* may have expired by then or the block time lies before the request: the payment
\* was created after the request, and neither its confirmation nor its block time
\* is past the end.  Only a cancellation stands against it
\* (reconcileUnmatchedManagedIncoming).  The limit of a batch is not modelled.
Owed(i, r) ==
    /\ i \in DOMAIN chain /\ db.incoming[i] # Unseen
    /\ LET t == chain[i]
           request == db.requests[r]
       IN /\ t.managed /\ t.confirmed # 0 /\ t.reference = Terms[r].reference
          /\ Terms[r].cents \in {0, t.cents}
          /\ request.status \in {"OPEN", "EXPIRED"} /\ request.created <= t.created
          /\ ~EndsBy(request, r, t.confirmed) /\ ~EndsBy(request, r, t.at)
ManagedPaymentMatched ==
    \A i \in Slots, r \in Requests :
      Owed(i, r) ~> db.requests[r].status \in {"PAID", "CANCELLED"}

\* An endpoint is sent an event at most MaxAttempts times, although a claim may
\* be given back and calls of one process may overlap (claimWebhookDeliveries,
\* deferWebhookDelivery).
SendsBounded ==
    \A d \in DOMAIN deliveries :
      sends[d] <= deliveries[d].attempts /\ deliveries[d].attempts <= MaxAttempts

\* What a subscriber is to be told is delivered or given up with an exception,
\* whichever process stops or stalls, unless the subscription is archived.
Unannounced(d) ==
    /\ d \in DOMAIN deliveries
    /\ deliveries[d].status \notin {"DELIVERED", "EXHAUSTED"}
    /\ subscriptions[d[2]] = "ACTIVE"
EventuallyAnnounced ==
    \A d \in Deliverable : Unannounced(d) ~> ~Unannounced(d)
=============================================================================
