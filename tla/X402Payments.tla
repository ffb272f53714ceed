---------------------------- MODULE X402Payments ----------------------------
(***************************************************************************)
(* Payments for an external x402 resource: the service that discovers a    *)
(* price and creates a payment (apps/api/src/x402-service.ts), and the     *)
(* executor with which the outgoing worker pays it                         *)
(* (apps/api/src/x402-executor.ts, x402-protocol.ts,                       *)
(* packages/solana-rail/src/x402-signing.ts).                              *)
(*                                                                         *)
(* The provider is outside the system: it may change its price at any      *)
(* time, drop or repeat answers, settle a signed transaction late or not   *)
(* at all, and name any transaction in its answer.  Several payments and   *)
(* several workers run at once; workers crash, and may outlive a lease.    *)
(* Account status, capacity and approval are left to PaymentExecution and  *)
(* SpendControl: here the account is active and capacity is free.          *)
(***************************************************************************)
EXTENDS WorkItems

CONSTANTS Payments,         \* payment ids, each bound to an idempotency key
          Offers,           \* requirements the provider may advertise:
                            \* [amount, payTo, feePayer]
          FirstOffer,       \* the one it advertises at first
          NoOffer,          \* a response with no single usable requirement
          Platform,         \* the fee payer MUX itself can sign for
          Approved,         \* destinations the account may pay
          Cap,              \* maxPaymentAtomic
          AtomicPerUnit,    \* settlement units in one unit of the denomination
          Earlier,          \* transactions that settled payments before
          MaxOfferChanges,  \* bound on price changes
          NoPayload, NoTx, Bogus

ASSUME X402Assumption ==
    /\ \A o \in Offers : o.amount \in Nat \ {0}
    /\ Cap \in Nat \ {0} /\ AtomicPerUnit \in Nat \ {0}
    /\ FirstOffer \in Offers
    /\ MaxOfferChanges \in Nat
    /\ \A t, u \in Earlier : t.payment = u.payment => t = u

VARIABLES signFeePayer,  \* the deployment's x402SignFeePayer setting
          stalls,        \* workers may outlive their leases, or never do
          offer,         \* what the provider advertises now
          changes,       \* how often it changed
          asked,         \* the requirement a call in progress has discovered
          rows,          \* each payment with its only attempt
          items,         \* its work item
          workers,       \* local state of each worker
          sent,          \* signed transactions that reached the provider
          chain          \* transactions the network has seen, with their state

deployment == <<signFeePayer, stalls>>
vars == <<deployment, offer, changes, asked, rows, items, workers, sent, chain>>

\* A transaction message: the payment, who built it and from which requirement.
\* No two builds give the same message, since each takes a fresh blockhash.
Payload == [payment: Payments, by: Workers, offer: Offers]

\* A payment row and its attempt.  rv is the attempt's row_version, pv the
\* payment's; external is rail_transaction_id; request is the status of its
\* signing request, PENDING also before there is one.
NoRow == [status |-> "ABSENT", amount |-> 0, payTo |-> NoTx, outcome |-> "NOT_STARTED",
          pv |-> 0, rv |-> 0, prepared |-> NoPayload, signed |-> FALSE,
          request |-> "PENDING", external |-> NoTx, reservation |-> "NONE"]

\* What a worker remembers of the claim it processes.
Idle == [pc |-> "idle", p |-> NoTx, pv |-> 0, rv |-> 0, outcome |-> "NOT_STARTED",
         prepared |-> NoPayload, signed |-> FALSE, external |-> NoTx,
         found |-> NoTx, goal |-> "UNKNOWN", err |-> "RETRY",
         reconciling |-> FALSE, failing |-> FALSE]

Representable(atomic) == atomic % AtomicPerUnit = 0

\* convertFromSettlementAtomicUnits, which refuses an amount it cannot express.
LogicalAmount(atomic) == atomic \div AtomicPerUnit

\* A payment that went through before.
SettledRow(t) ==
    [NoRow EXCEPT !.status = "CONFIRMED", !.amount = LogicalAmount(t.offer.amount),
                  !.payTo = t.offer.payTo, !.outcome = "CONFIRMED", !.prepared = t,
                  !.signed = TRUE, !.request = "SIGNED", !.external = t,
                  !.reservation = "CONSUMED"]

Init ==
    /\ signFeePayer \in BOOLEAN /\ stalls \in BOOLEAN
    /\ offer = FirstOffer
    /\ changes = 0
    /\ asked = [p \in Payments |-> NoOffer]
    /\ rows = [p \in Payments |->
                   IF \E t \in Earlier : t.payment = p
                   THEN SettledRow(CHOOSE t \in Earlier : t.payment = p) ELSE NoRow]
    /\ items = [p \in Payments |-> NewItem("ABSENT", "OUTGOING_PAYMENT")]
    /\ workers = [w \in Workers |-> Idle]
    /\ sent = Earlier
    /\ chain = [t \in Earlier |-> "landed"]

-----------------------------------------------------------------------------
\* The provider and the network.

ChangeOffer ==
    /\ changes < MaxOfferChanges
    /\ \E o \in (Offers \cup {NoOffer}) \ {offer} : offer' = o
    /\ changes' = changes + 1
    /\ UNCHANGED <<deployment, asked, rows, items, workers, sent, chain>>

ChainState(t) == IF t \in DOMAIN chain THEN chain[t] ELSE "none"

\* A transaction that reached the facilitator may be processed, then confirmed,
\* failed, or dropped with its fork.  One message executes at most once, and
\* one whose blockhash has expired is one that never moves again.
Progress(t) ==
    /\ t \in sent
    /\ \E next \in CASE ChainState(t) = "none"      -> {"processed"}
                     [] ChainState(t) = "processed" -> {"landed", "failed", "none"}
                     [] OTHER                       -> {} :
           chain' = [u \in DOMAIN chain \cup {t} |-> IF u = t THEN next ELSE chain[u]]
    /\ UNCHANGED <<deployment, offer, changes, asked, rows, items, workers, sent>>

-----------------------------------------------------------------------------
\* Creating a payment: X402PaymentService.createPayment.

\* parsePaymentRequiredResponse, the cap and the exact conversion.
Payable(o) == o # NoOffer /\ o.amount <= Cap /\ Representable(o.amount)

\* What settled before was payable, and an absent payload is not a payload.
ASSUME EarlierAssumption ==
    /\ \A t \in Earlier : t.payment \in Payments /\ t.offer \in Offers /\ Payable(t.offer)
    /\ NoPayload \notin Payload \cup Earlier
    /\ NoOffer \notin Offers

\* The idempotency key is not known yet, and the provider asks for something
\* payable; any other answer ends the call.  A call whose key is known returns
\* the stored payment and changes nothing, whatever the provider asks for now.
Discover(p) ==
    /\ rows[p].status = "ABSENT"
    /\ asked[p] = NoOffer
    /\ Payable(offer)
    /\ asked' = [asked EXCEPT ![p] = offer]
    /\ UNCHANGED <<deployment, offer, changes, rows, items, workers, sent, chain>>

\* paymentService.createPayment with the discovered amount and destination: a
\* queued payment with a HELD reservation, or a denied one.
CreatePayment(p) ==
    LET o == asked[p]
        allowed == o.payTo \in Approved
    IN
    /\ o # NoOffer
    /\ asked' = [asked EXCEPT ![p] = NoOffer]
    /\ rows' = [rows EXCEPT ![p] =
                   [NoRow EXCEPT !.amount = LogicalAmount(o.amount), !.payTo = o.payTo,
                                 !.status = IF allowed THEN "ROUTING" ELSE "DENIED",
                                 !.reservation = IF allowed THEN "HELD" ELSE @]]
    /\ items' = IF allowed
                THEN [items EXCEPT ![p] = NewItem("AVAILABLE", "OUTGOING_PAYMENT")]
                ELSE items
    /\ UNCHANGED <<deployment, offer, changes, workers, sent, chain>>

-----------------------------------------------------------------------------
\* The outgoing worker around the executor.

At(w, pc) == workers[w].pc = pc
Become(w, s) == workers' = [workers EXCEPT ![w] = s]
Goto(w, pc) == Become(w, [workers[w] EXCEPT !.pc = pc])

Viewing(s) ==
    LET r == rows[s.p] IN
    [s EXCEPT !.pv = r.pv, !.rv = r.rv, !.outcome = r.outcome,
              !.prepared = r.prepared, !.signed = r.signed, !.external = r.external]

\* A FAILED payment is not among them: if the worker that failed it died before
\* it completed the work item, the next claim executes the payment again.
Terminal(p) == rows[p].status \in {"CONFIRMED", "PROVED_NO_EFFECT"}

\* What is left is one call on the work item, which needs nothing of the view.
Settling(s, pc) == [Idle EXCEPT !.pc = pc, !.p = s.p, !.failing = s.failing]
End(w, pc) == Become(w, Settling(workers[w], pc))

\* The catch block of processClaimWithLease leads to handleFailure; an error
\* inside handleFailure ends the batch.
Raise(w, err) ==
    Become(w, IF workers[w].failing THEN Idle
              ELSE [Idle EXCEPT !.pc = "failure", !.p = workers[w].p, !.err = err])

\* markWorkItemExhausted: an unsettled payment goes to review, funds still held.
Reviewed(r) ==
    IF r.status \in {"CONFIRMED", "FAILED"} THEN r
    ELSE [r EXCEPT !.status = "REVIEW_REQUIRED", !.pv = @ + 1]

\* claimWorkItem and the view that processClaimWithLease loads, or the sweep
\* of a row whose last lease ran out.
ClaimWorkItem(w, p) ==
    LET s == Viewing([Idle EXCEPT !.p = p])
        pc == IF s.outcome = "UNKNOWN" THEN "reconcile"
              ELSE IF Terminal(p) THEN "complete"
              ELSE IF s.prepared = NoPayload THEN "prepare"
              ELSE IF s.signed THEN "recheck" ELSE "sign"
    IN
    /\ At(w, "idle")
    /\ \/ /\ Claimable(items[p])
          /\ items' = [items EXCEPT ![p] = Claimed(@, w)]
          /\ Become(w, IF pc = "complete" THEN Settling(s, pc)
                       ELSE [s EXCEPT !.pc = pc, !.reconciling = (pc = "reconcile")])
          /\ UNCHANGED rows
       \/ /\ FinalLeaseExpired(items[p])
          /\ items' = [items EXCEPT ![p] = Exhausted(@)]
          /\ rows' = [rows EXCEPT ![p] = Reviewed(@)]
          /\ UNCHANGED workers
    /\ UNCHANGED <<deployment, offer, changes, asked, sent, chain>>

\* Mutant: the live requirement is no longer compared with the payment.
PayableNow(p, o) == Payable(o) /\ (signFeePayer => o.feePayer = Platform)

\* The live requirement still is the one the payment was created for.
SameTerms(p, o) ==
    /\ Payable(o)
    /\ signFeePayer => o.feePayer = Platform
    /\ LogicalAmount(o.amount) = rows[p].amount
    /\ o.payTo = rows[p].payTo

\* validateSettlementMint, validateSourceTokenAccount and
\* validateRecipientTokenAccount: the mint, the balance or the recipient's token
\* account is not as it must be, or the node does not answer.
TokenAccountErrors == {"NO_RETRY", "RETRY"}

\* prepare(): the requirement is discovered again and a transaction built from
\* it.  A requirement that differs is a deterministic error, as is a response
\* without one; the discovery request and the token accounts may also fail it.
Prepare(w) ==
    LET s == workers[w] IN
    /\ At(w, "prepare")
    /\ \/ /\ SameTerms(s.p, offer)
          /\ Become(w, [s EXCEPT !.pc = "persistPrepared", !.prepared =
                                    [payment |-> s.p, by |-> w, offer |-> offer]])
       \/ ~SameTerms(s.p, offer) /\ Raise(w, "NO_RETRY")
       \/ SameTerms(s.p, offer) /\ \E err \in TokenAccountErrors : Raise(w, err)
       \/ Raise(w, "RETRY")                               \* fetchResource
    /\ UNCHANGED <<deployment, offer, changes, asked, rows, items, sent, chain>>

\* The WHERE clause of updateAttemptOutcome.
AttemptUnchanged(s) == rows[s.p].outcome = s.outcome /\ rows[s.p].rv = s.rv

PersistPrepared(w) ==
    LET s == workers[w] IN
    /\ At(w, "persistPrepared")
    /\ \/ /\ AttemptUnchanged(s)
          /\ rows' = [rows EXCEPT ![s.p].prepared = s.prepared, ![s.p].rv = @ + 1]
          /\ Become(w, [s EXCEPT !.pc = "sign", !.rv = @ + 1])
       \/ ~AttemptUnchanged(s) /\ Raise(w, "RETRY") /\ UNCHANGED rows
    /\ UNCHANGED <<deployment, offer, changes, asked, items, sent, chain>>

\* The prepared payload is refused by the signer, or custody is not available.
SigningErrors == {"NO_RETRY", "RETRY"}

\* The signing request is found or created, signSolanaX402PreparedEffect signs,
\* and a write makes the signature durable; before that write a signature is known
\* to this worker only.  An error of the signer rejects a PENDING request, and a
\* REJECTED one is never used again.  An x402 attempt is never replaced and its
\* prepared effect never changes, so the checks that the effect is still the
\* current one, here and below, cannot fail.
Sign(w) ==
    LET s == workers[w]
        usable == rows[s.p].request # "REJECTED"
    IN
    /\ At(w, "sign")
    /\ \/ /\ AttemptUnchanged(s) /\ usable
          /\ rows' = [rows EXCEPT ![s.p].signed = TRUE, ![s.p].rv = @ + 1]
          /\ Goto(w, "recheck")
       \/ /\ usable
          /\ rows' = [rows EXCEPT ![s.p].request = IF @ = "PENDING" THEN "REJECTED" ELSE @]
          /\ \E err \in SigningErrors : Raise(w, err)
       \/ Raise(w, "RETRY") /\ UNCHANGED rows   \* no custody key, or a failed write
    /\ UNCHANGED <<deployment, offer, changes, asked, items, sent, chain>>

\* The signing request is completed, which fails when another worker has settled
\* it, and the view is read again before the request is sent; the attempt's
\* outcome is not compared.
Recheck(w) ==
    LET s == workers[w] IN
    /\ At(w, "recheck")
    /\ \/ /\ rows[s.p].request # "REJECTED"
          /\ rows' = [rows EXCEPT ![s.p].request = "SIGNED"]
          /\ Become(w, [Viewing(s) EXCEPT !.pc = "send"])
       \/ rows[s.p].request # "PENDING" /\ Raise(w, "RETRY") /\ UNCHANGED rows
    /\ UNCHANGED <<deployment, offer, changes, asked, items, sent, chain>>

-----------------------------------------------------------------------------
\* The paid request and what is observed on chain: sendPaidRequest and
\* observeSettlementOnChain.

\* hashX402WireTransactionMessage against the payload hash made durable.
SameMessage(t, own) == t = own

\* The one transfer of the settlement mint that a transaction makes, read from
\* its parsed instructions and token balances.
SettlementTransfer(t) == [amount |-> t.offer.amount, payTo |-> t.offer.payTo]

\* verifyX402SettlementTransaction: fee payer, amount and recipient.
VerifiedTransfer(t, own) ==
    /\ t.offer.feePayer = own.offer.feePayer
    /\ SettlementTransfer(t) = SettlementTransfer(own)

\* Mutant: the transfer is compared, the transaction message is not.
ObservedByTransfer(t, own) ==
    CASE ChainState(t) = "none"      -> "NOT_FOUND"
      [] ChainState(t) = "processed" -> "PENDING"
      [] ChainState(t) = "failed"    -> "FAILED"
      [] OTHER -> IF VerifiedTransfer(t, own) THEN "CONFIRMED" ELSE "INVALID"

\* observeSettlementOnChain of transaction id t for the durable payload own: a
\* confirmed transaction counts only if its message is the prepared one and its
\* effect is the transfer asked for.
Observed(t, own) ==
    CASE ChainState(t) = "none"      -> "NOT_FOUND"
      [] ChainState(t) = "processed" -> "PENDING"
      [] ChainState(t) = "failed"    -> "FAILED"
      [] OTHER -> IF SameMessage(t, own) /\ VerifiedTransfer(t, own)
                  THEN "CONFIRMED" ELSE "INVALID"

Unknown(w, t) ==
    IF workers[w].reconciling /\ t = NoTx THEN End(w, "retry")
    ELSE Become(w, [workers[w] EXCEPT !.pc = "update", !.found = t])

ConfirmedBy(w, t) ==
    Become(w, [workers[w] EXCEPT !.pc = "finalize", !.goal = "CONFIRMED", !.found = t])

\* The signed transaction reaches the provider, or the request is lost.
Send(w) ==
    LET s == workers[w] IN
    /\ At(w, "send")
    /\ \/ sent' = sent \cup {s.prepared} /\ Goto(w, "answer")
       \/ Unknown(w, NoTx) /\ UNCHANGED sent
    /\ UNCHANGED <<deployment, offer, changes, asked, rows, items, chain>>

\* The transactions a provider can name: any it was sent, or none that exists.
Nameable == sent \cup {Bogus}

\* The provider's answer.  Without a successful settlement for this payer, or
\* without any answer, the outcome is unknown.  A settlement names a
\* transaction; when MUX signed as fee payer it must be the one it signed.  The
\* named transaction is looked up before anything is believed.  An answer too
\* large to keep as evidence raises a validation error.
Answer(w) ==
    LET s == workers[w] IN
    /\ At(w, "answer")
    /\ \/ Unknown(w, NoTx)
       \/ \E t \in Nameable :
            /\ signFeePayer => t = s.prepared
            /\ \/ Observed(t, s.prepared) = "CONFIRMED" /\ ConfirmedBy(w, t)
               \/ Observed(t, s.prepared) = "INVALID" /\ Unknown(w, NoTx)
               \/ /\ Observed(t, s.prepared) \in {"NOT_FOUND", "PENDING", "FAILED"}
                  /\ Unknown(w, t)
               \/ Unknown(w, t)                          \* the RPC node fails
       \/ Raise(w, "NO_RETRY")
    /\ UNCHANGED <<deployment, offer, changes, asked, rows, items, sent, chain>>

\* reconcile(): a stored transaction id is the only thing looked at.  Without
\* one a transaction MUX fully signed is looked up by its own signature and,
\* when the network does not know it, sent again; for any other nothing can be
\* learned, nor by a worker that cannot decrypt the signed payload.
Reconcile(w) ==
    LET s == workers[w]
        known == IF s.external # NoTx THEN s.external ELSE s.prepared
        seen == Observed(known, s.prepared)
    IN
    /\ At(w, "reconcile")
    /\ \/ s.external = NoTx /\ Unknown(w, NoTx)
       \/ /\ s.external # NoTx \/ signFeePayer
          /\ \/ seen = "CONFIRMED" /\ ConfirmedBy(w, known)
             \/ seen = "NOT_FOUND" /\ s.external = NoTx /\ Goto(w, "send")
             \/ /\ seen = "NOT_FOUND" => s.external # NoTx
                /\ Unknown(w, known)   \* also when a node cannot show a confirmed one
             \/ Raise(w, "RETRY")
    /\ UNCHANGED <<deployment, offer, changes, asked, rows, items, sent, chain>>

-----------------------------------------------------------------------------
\* Recording the outcome.

\* updateAttemptOutcome to UNKNOWN, with the transaction id if there is one.
UpdateAttemptOutcome(w) ==
    LET s == workers[w] IN
    /\ At(w, "update")
    /\ \/ /\ AttemptUnchanged(s)
          /\ rows' = [rows EXCEPT ![s.p].outcome = "UNKNOWN", ![s.p].rv = @ + 1,
                                  ![s.p].external = IF s.found = NoTx THEN @ ELSE s.found]
          /\ IF s.reconciling THEN End(w, "retry") ELSE Goto(w, "project")
       \/ ~AttemptUnchanged(s) /\ Raise(w, "RETRY") /\ UNCHANGED rows
    /\ UNCHANGED <<deployment, offer, changes, asked, items, sent, chain>>

\* updatePaymentExecution: RECONCILING must be what the attempt projects to.
UpdatePaymentExecution(w) ==
    LET s == workers[w]
        accepted == rows[s.p].outcome = "UNKNOWN" /\ rows[s.p].pv = s.pv
    IN
    /\ At(w, "project")
    /\ \/ /\ accepted
          /\ rows' = [rows EXCEPT ![s.p].status = "RECONCILING", ![s.p].pv = @ + 1]
          /\ End(w, "retry")
       \/ ~accepted /\ Raise(w, "RETRY") /\ UNCHANGED rows
    /\ UNCHANGED <<deployment, offer, changes, asked, items, sent, chain>>

\* assertAttemptProgression for the two outcomes finalized here.
Progresses(outcome, goal) ==
    outcome = "NOT_STARTED" \/ (outcome = "UNKNOWN" /\ goal = "CONFIRMED")

\* finalizeV2Payment, its reads: without locks, at READ COMMITTED.
FinalizeCheck(w) ==
    LET s == workers[w]
        accepted == /\ AttemptUnchanged(s) /\ rows[s.p].pv = s.pv
                    /\ Progresses(s.outcome, s.goal)
    IN
    /\ At(w, "finalize")
    /\ \/ accepted /\ Goto(w, "finalizeWrite")
       \/ ~accepted /\ Raise(w, "RETRY")
    /\ UNCHANGED <<deployment, offer, changes, asked, rows, items, sent, chain>>

\* Its updates, by id.  CONFIRMED consumes the reservation and FAILED releases
\* it, if it is still HELD.
FinalizeWrite(w) ==
    LET s == workers[w]
        paid == s.goal = "CONFIRMED"
    IN
    /\ At(w, "finalizeWrite")
    /\ rows' = [rows EXCEPT ![s.p].status = s.goal, ![s.p].outcome = s.goal,
                            ![s.p].pv = @ + 1, ![s.p].rv = @ + 1,
                            ![s.p].external = IF paid THEN s.found ELSE @,
                            ![s.p].reservation = IF @ # "HELD" THEN @
                                                 ELSE IF paid THEN "CONSUMED"
                                                 ELSE "RELEASED"]
    /\ End(w, "complete")
    /\ UNCHANGED <<deployment, offer, changes, asked, items, sent, chain>>

\* Mutant: a validation error fails the payment even after signing.
FailUnlessRetryable(w) ==
    LET s == [Viewing(workers[w]) EXCEPT !.failing = TRUE]
    IN
    /\ At(w, "failure")
    /\ \/ /\ s.err = "NO_RETRY" /\ s.outcome = "NOT_STARTED"
          /\ Become(w, [s EXCEPT !.pc = "finalize", !.goal = "FAILED"])
       \/ /\ ~(s.err = "NO_RETRY" /\ s.outcome = "NOT_STARTED")
          /\ Become(w, Settling(s, "retry"))
    /\ UNCHANGED <<deployment, offer, changes, asked, rows, items, sent, chain>>

\* handleFailure reads the view again.  A signed attempt that has no outcome yet
\* may have had an effect, whatever the error: it becomes UNKNOWN.
HandleFailure(w) ==
    LET s == [Viewing(workers[w]) EXCEPT !.failing = TRUE]
        maybe == s.outcome = "NOT_STARTED" /\ s.signed
    IN
    /\ At(w, "failure")
    /\ \/ maybe /\ Become(w, [s EXCEPT !.pc = "update"])
       \/ /\ ~maybe /\ s.err = "NO_RETRY" /\ s.outcome = "NOT_STARTED"
          /\ Become(w, [s EXCEPT !.pc = "finalize", !.goal = "FAILED"])
       \/ /\ ~maybe /\ s.err = "NO_RETRY" /\ s.outcome # "NOT_STARTED"
          /\ Become(w, Settling(s, "failItem"))
       \/ ~maybe /\ s.err = "RETRY" /\ Become(w, Settling(s, "retry"))
    /\ UNCHANGED <<deployment, offer, changes, asked, rows, items, sent, chain>>

-----------------------------------------------------------------------------
\* Giving the work item back, crashes and leases.

\* completeWorkItem, retryWorkItem and failWorkItem, by an owner whose lease is
\* good; anyone else gets an error.
GiveBack(w) ==
    LET s == workers[w]
        it == items[s.p]
        gone == At(w, "failItem") \/ (At(w, "retry") /\ RetryExhausts(it))
    IN
    /\ s.pc \in {"complete", "retry", "failItem"}
    /\ \/ /\ Owns(it, w)
          /\ items' = [items EXCEPT ![s.p] = IF gone THEN Exhausted(it)
                                             ELSE IF At(w, "retry") THEN Retried(it, it.kind)
                                             ELSE Completed(it)]
          /\ rows' = IF gone THEN [rows EXCEPT ![s.p] = Reviewed(@)] ELSE rows
          /\ Become(w, Idle)
       \/ ~Owns(it, w) /\ Raise(w, "RETRY") /\ UNCHANGED <<rows, items>>
    /\ UNCHANGED <<deployment, offer, changes, asked, sent, chain>>

Crash(w) ==
    /\ ~At(w, "idle")
    /\ Become(w, Idle)
    /\ UNCHANGED <<deployment, offer, changes, asked, rows, items, sent, chain>>

\* The heartbeat stops with a crash, or renewals fail while the worker goes on.
LeaseExpires(p) ==
    /\ items[p].status = "CLAIMED" /\ items[p].lease > 0
    /\ stalls \/ \A w \in Workers :
           ~At(w, "idle") /\ workers[w].p = p => items[p].owner # w
    /\ items' = [items EXCEPT ![p].lease = 0]
    /\ UNCHANGED <<deployment, offer, changes, asked, rows, workers, sent, chain>>

Next ==
    \/ ChangeOffer
    \/ \E t \in sent : Progress(t)
    \/ \E p \in Payments : Discover(p) \/ CreatePayment(p) \/ LeaseExpires(p)
    \/ \E w \in Workers, p \in Payments : ClaimWorkItem(w, p)
    \/ \E w \in Workers :
           \/ Prepare(w) \/ PersistPrepared(w) \/ Sign(w) \/ Recheck(w)
           \/ Send(w) \/ Answer(w) \/ Reconcile(w)
           \/ UpdateAttemptOutcome(w) \/ UpdatePaymentExecution(w)
           \/ FinalizeCheck(w) \/ FinalizeWrite(w) \/ HandleFailure(w) \/ GiveBack(w)
           \/ Crash(w)

Spec == Init /\ [][Next]_vars

-----------------------------------------------------------------------------
\* Properties.

Landed(p) == {t \in DOMAIN chain : t.payment = p /\ chain[t] = "landed"}

\* Whatever the provider advertises between creation and execution, however
\* often the request is repeated and by whichever worker, at most one transfer
\* per payment reaches the chain, of the amount and to the destination that the
\* payment was approved for, and within the cap.
SettledOnceAsApproved ==
    \A p \in Payments :
        /\ \A t, u \in Landed(p) : t = u
        /\ \A t \in Landed(p) :
               /\ t.offer.amount = rows[p].amount * AtomicPerUnit
               /\ t.offer.payTo = rows[p].payTo
               /\ t.offer.amount <= Cap

\* A payment is CONFIRMED only once its own transaction is on the chain, even
\* when the provider names one that paid the same amount to the same
\* destination for another payment: observeSettlementOnChain compares the
\* message, so one transfer never settles two payments.
ConfirmedByOwnSettlement ==
    \A p \in Payments : rows[p].status = "CONFIRMED" => Landed(p) # {}

\* A signed transaction that has left for the provider can settle at any later
\* moment.  As long as no worker outlives its lease, no error, refused answer,
\* changed requirement or restart therefore releases the funds of a payment that
\* was sent: handleFailure takes a signed attempt for a possible effect whatever
\* the error is.  (A payment that failed before it was signed may be sent later
\* all the same, see Terminal.)
NoReleaseOnceSent ==
    [][ \A t \in sent :
            ~stalls /\ rows[t.payment].reservation = "HELD"
                => rows'[t.payment].reservation # "RELEASED" ]_vars
=============================================================================
