-------------------------- MODULE PaymentExecution --------------------------
(***************************************************************************)
(* One outgoing V2 payment from the moment createV2Payment (or an          *)
(* approval) has queued it, executed by several worker processes           *)
(* (apps/api/src/outgoing-v2.ts) over the repository transactions of       *)
(* packages/db/src/v2.ts and the Solana executor of                        *)
(* packages/solana-rail/src/v2-outgoing.ts.                                *)
(*                                                                         *)
(* Every await that reads or writes shared state is a step of its own.     *)
(* A worker keeps what it has read, so it may act on stale rows; it may    *)
(* crash anywhere, and with Stalls it may outlive its lease.  Transactions *)
(* run at READ COMMITTED and read without locks, so finalizeV2Payment and  *)
(* abortPreEffectPayment are a check step followed by a write step.        *)
(***************************************************************************)
EXTENDS WorkItems, FiniteSets

CONSTANTS Reconcilers,        \* workers started in mode 'reconcile'
          NRoutes,            \* settlement routes, hence attempts, available
          MaxDeferrals,       \* bound on capacity deferrals of one item
          MaxAccountChanges,  \* bound on DISABLED/ACTIVE transitions
          Stalls,             \* a worker may keep running on an expired lease
          RpcSnapshot         \* no block lands between the two RPC reads of
                              \* one submit() or reconcile() call

ASSUME PaymentExecutionAssumption ==
    /\ Reconcilers \subseteq Workers
    /\ NRoutes \in Nat \ {0}
    /\ MaxDeferrals \in Nat
    /\ MaxAccountChanges \in Nat
    /\ Stalls \in BOOLEAN
    /\ RpcSnapshot \in BOOLEAN

VARIABLES payment,      \* the payments row
          attempts,     \* the payment_attempts rows, by attempt_number
          nAttempts,    \* how many of them exist
          reservation,  \* lifecycle_state of the outgoing reservation
          evidence,     \* evidence_records: <<attempt_number, outcome>>
          exception,    \* status of the payment's operational exception
          items,        \* durable_work_items: item n is for attempt n
          deferrals,    \* history: capacity deferrals per item
          account,      \* payer account: [active, changes]
          chain,        \* the network's view of every prepared transaction
          workers       \* local state of each worker process

dbVars == <<payment, attempts, nAttempts, reservation, evidence, exception>>
vars == <<dbVars, items, deferrals, account, chain, workers>>

-----------------------------------------------------------------------------
AttemptNumbers == 1..NRoutes

\* A prepared transaction is named by its attempt and the worker that prepared
\* it: a worker prepares again only while nothing prepared is durable.
Effects == AttemptNumbers \X Workers
NoEffect == <<0, NoOwner>>

Outcomes == {"NOT_STARTED", "PRE_EFFECT_ABORTED", "PROVED_NO_EFFECT",
             "SUBMITTED", "CONFIRMED", "UNKNOWN", "FAILED"}

PaymentStatuses == {"ROUTING", "SUBMITTED", "RECONCILING", "REVIEW_REQUIRED",
                    "CONFIRMED", "PROVED_NO_EFFECT", "FAILED",
                    "CLOSED_UNRESOLVED"}

TerminalStatuses == {"CONFIRMED", "PROVED_NO_EFFECT", "FAILED",
                     "CLOSED_UNRESOLVED"}

Payment == [status: PaymentStatuses, exec: {"QUEUED", "RECONCILING", "TERMINAL"},
            rv: Nat]

Attempt == [outcome: Outcomes, rv: Nat, effect: Effects \cup {NoEffect},
            signed: BOOLEAN, request: {"NONE", "PENDING", "SIGNED", "REJECTED"}]

NewAttempt == [outcome |-> "NOT_STARTED", rv |-> 0, effect |-> NoEffect,
               signed |-> FALSE, request |-> "NONE"]

\* A transaction is unknown to the network, in flight, processed, landed at
\* the confirmed commitment, failed on chain, or past its last valid block.
ChainStates == {"none", "inflight", "processed", "landed", "failed", "expired"}
Dead == {"failed", "expired"}

Steps == {"idle", "load", "view", "viewClosed", "guardPrepare", "prepare",
          "persistPrepared", "signingRequest", "guardSign", "sign", "rejectRequest",
          "persistSigned", "completeRequest", "recheck", "guardSubmit",
          "observe", "send", "update", "project", "retry", "finalizeCheck",
          "finalizeWrite", "abortCheck", "abortWrite", "complete",
          "reconcile", "height", "failure", "failItem"}

KeepKind == "SAME"

\* What a worker remembers while it processes a claim: the view it read
\* (n, pv, av, outcome, effect, signed), the outcome it is about to write
\* (goal, replace), the kind for a retry, and how an error will be handled:
\* rejects is the attempt whose PENDING signing request an error rejects.
WorkerState == [pc: Steps, item: 0..NRoutes, n: 0..NRoutes, pv: Nat, av: Nat,
                outcome: Outcomes, effect: Effects \cup {NoEffect},
                signed: BOOLEAN, pending: BOOLEAN, goal: Outcomes,
                replace: BOOLEAN, next: WorkKinds \cup {KeepKind},
                err: {"RETRY", "NO_RETRY"}, rejects: 0..NRoutes, failing: BOOLEAN]

Idle == [pc |-> "idle", item |-> 0, n |-> 0, pv |-> 0, av |-> 0,
         outcome |-> "NOT_STARTED", effect |-> NoEffect, signed |-> FALSE,
         pending |-> FALSE, goal |-> "NOT_STARTED", replace |-> FALSE,
         next |-> KeepKind, err |-> "RETRY", rejects |-> 0, failing |-> FALSE]

\* The rows, the network and the workers' local views keep their types; the
\* number of attempts stays within the planned routes.
TypeOK ==
    /\ payment \in Payment
    /\ attempts \in [AttemptNumbers -> Attempt]
    /\ nAttempts \in AttemptNumbers
    /\ reservation \in {"HELD", "CONSUMED", "RELEASED"}
    /\ evidence \subseteq AttemptNumbers \X {"CONFIRMED", "PROVED_NO_EFFECT"}
    /\ exception \in {"NONE", "OPEN", "ACKNOWLEDGED", "RESOLVED", "CLOSED_UNRESOLVED"}
    /\ items \in [AttemptNumbers -> WorkItem]
    /\ deferrals \in [AttemptNumbers -> Nat]
    /\ account \in [active: BOOLEAN, changes: Nat]
    /\ chain \in [Effects -> ChainStates]
    /\ workers \in [Workers -> WorkerState]

\* createV2Payment with an ALLOW decision (or decideApproval APPROVE): a HELD
\* reservation, attempt 1 and one work item on the payment.
Init ==
    /\ payment = [status |-> "ROUTING", exec |-> "QUEUED", rv |-> 0]
    /\ attempts = [n \in AttemptNumbers |-> NewAttempt]
    /\ nAttempts = 1
    /\ reservation = "HELD"
    /\ evidence = {}
    /\ exception = "NONE"
    /\ items = [n \in AttemptNumbers |->
                    IF n = 1 THEN NewItem("AVAILABLE", "OUTGOING_PAYMENT")
                             ELSE NewItem("ABSENT", "OUTGOING_PAYMENT_ATTEMPT")]
    /\ deferrals = [n \in AttemptNumbers |-> 0]
    /\ account = [active |-> TRUE, changes |-> 0]
    /\ chain = [e \in Effects |-> "none"]
    /\ workers = [w \in Workers |-> Idle]

-----------------------------------------------------------------------------
\* Shared pieces of the worker's steps.

At(w, pc) == workers[w].pc = pc

\* Worker w moves on with local state s.
Become(w, s) == workers' = [workers EXCEPT ![w] = s]
Goto(w, pc) == Become(w, [workers[w] EXCEPT !.pc = pc])
Stop(w) == Become(w, Idle)

\* findPaymentView, as it is read again in the middle of a claim: the last attempt
\* and the row versions as they are now.  Of the payment only the row version is
\* used, in a WHERE clause that an older version fails.
Current == attempts[nAttempts]
Viewing(s) == [s EXCEPT !.n = nAttempts, !.pv = payment.rv, !.av = Current.rv,
                        !.outcome = Current.outcome, !.effect = Current.effect,
                        !.signed = Current.signed]

\* An exception thrown in processClaimWithLease: inside the signing block it
\* first rejects a PENDING signing request; then handleFailure runs; thrown by
\* handleFailure itself it ends the batch.
Raised(s, err) ==
    IF s.failing THEN Idle
    ELSE [s EXCEPT !.pc = IF s.rejects # 0 THEN "rejectRequest" ELSE "failure",
                   !.err = err, !.replace = FALSE]
Raise(w, err) == Become(w, Raised(workers[w], err))

Mine(w) == items[workers[w].item]

\* Mutant: an expired lease still counts.
OwnerMatches(w) == Mine(w).status = "CLAIMED" /\ Mine(w).owner = w

\* lockOwnedWorkItem, and the WHERE clause of completeWorkItem.
StillOwned(w) == Owns(Mine(w), w)

\* assertAttemptProgression, as the set of outcomes that may follow.
Progressions(outcome) ==
    CASE outcome = "NOT_STARTED" -> Outcomes \ {"NOT_STARTED"}
      [] outcome = "SUBMITTED"   -> {"CONFIRMED", "UNKNOWN"}
      [] outcome = "UNKNOWN"     -> {"CONFIRMED", "PROVED_NO_EFFECT"}
      [] OTHER                   -> {}

\* projectPaymentStatus with executionStarted and without planExhausted.
OutcomesSoFar == {attempts[n].outcome : n \in 1..nAttempts}
ProjectedStatus ==
    IF "CONFIRMED" \in OutcomesSoFar THEN "CONFIRMED"
    ELSE IF "UNKNOWN" \in OutcomesSoFar THEN "RECONCILING"
    ELSE IF "SUBMITTED" \in OutcomesSoFar THEN "SUBMITTED"
    ELSE IF "FAILED" \in OutcomesSoFar THEN "FAILED"
    ELSE "ROUTING"

\* Mutant: only the exception is opened.
ExceptionWithoutReview(rows) ==
    /\ exception' = "OPEN"
    /\ UNCHANGED <<payment, attempts, nAttempts, reservation, evidence>>

\* markWorkItemExhausted beyond the row: a payment that is not terminal goes
\* to review and an operational exception is opened; funds stay reserved.
ReviewAfterExhaustion(rows) ==
    /\ payment' = IF payment.status \in TerminalStatuses THEN payment
                  ELSE [status |-> "REVIEW_REQUIRED", exec |-> "RECONCILING",
                        rv |-> payment.rv + rows]
    /\ exception' = IF exception \in {"OPEN", "ACKNOWLEDGED"} THEN exception
                    ELSE "OPEN"
    /\ UNCHANGED <<attempts, nAttempts, reservation, evidence>>

-----------------------------------------------------------------------------
\* Claiming and loading.

\* processBatch: one claimWorkItem transaction for one kind of its role.
ClaimWorkItem(w, kind) ==
    /\ At(w, "idle")
    /\ w \in Reconcilers => kind = "RECONCILE_PAYMENT_ATTEMPT"
    /\ \/ \E i \in ClaimCandidates(items, kind) :
            /\ items' = AfterClaim(items, kind, i, w)
            /\ Become(w, [Idle EXCEPT !.pc = "load", !.item = i])
       \/ /\ ClaimCandidates(items, kind) = {}
          /\ DeadLeases(items, kind) # {}
          /\ items' = AfterSweep(items, kind)
          /\ UNCHANGED workers
    /\ IF DeadLeases(items, kind) # {}
       THEN ReviewAfterExhaustion(Cardinality(DeadLeases(items, kind)))
       ELSE UNCHANGED dbVars
    /\ UNCHANGED <<deferrals, account, chain>>

\* findPaymentView reads the payment row and then, outside any transaction, the
\* attempts: a view may join an older payment to newer attempts.  What is kept of
\* the payment is its row version and whether its status ends the claim.
LoadPayment(w) ==
    LET closed == payment.status \in {"PROVED_NO_EFFECT", "CONFIRMED"} IN
    /\ At(w, "load")
    /\ Become(w, [workers[w] EXCEPT !.pv = payment.rv,
                                    !.pc = IF closed THEN "viewClosed" ELSE "view"])
    /\ UNCHANGED <<dbVars, items, deferrals, account, chain>>

\* Where processClaimWithLease goes from the view it has loaded.  Item 1 is on
\* the payment and follows whatever attempt is last; item n > 1 is on attempt n.
StepAfterLoad(w, s) ==
    IF s.item > 1 /\ s.item # s.n THEN "complete"
    ELSE IF s.outcome \in {"SUBMITTED", "UNKNOWN"} THEN "reconcile"
    ELSE IF w \in Reconcilers THEN "retry"
    ELSE IF s.pc = "viewClosed" THEN "complete"
    ELSE "guardPrepare"

LoadView(w) ==
    /\ workers[w].pc \in {"view", "viewClosed"}
    /\ LET s == [Viewing(workers[w]) EXCEPT !.pv = workers[w].pv]
           pc == StepAfterLoad(w, s)
       IN  Become(w, [s EXCEPT !.pc = pc,
                               !.next = IF pc = "retry" THEN "OUTGOING_PAYMENT_ATTEMPT"
                                        ELSE KeepKind])
    /\ UNCHANGED <<dbVars, items, deferrals, account, chain>>

\* ensureActiveBeforeEffect: proceeds to next while the account is ACTIVE;
\* otherwise aborts an unsigned attempt, or marks a signed one UNKNOWN.
EnsureActive(w, here, next) ==
    /\ At(w, here)
    /\ \/ account.active /\ Goto(w, next)
       \/ /\ ~account.active
          /\ Current.outcome = "NOT_STARTED" /\ ~Current.signed
          /\ Become(w, [Viewing(workers[w]) EXCEPT !.pc = "abortCheck"])
       \/ /\ ~account.active
          /\ Current.outcome = "NOT_STARTED" /\ Current.signed
          /\ Become(w, [Viewing(workers[w]) EXCEPT !.pc = "update", !.goal = "UNKNOWN"])
       \/ /\ ~account.active
          /\ Current.outcome # "NOT_STARTED"
          /\ Raise(w, "RETRY")
    /\ UNCHANGED <<dbVars, items, deferrals, account, chain>>

-----------------------------------------------------------------------------
\* Preparing and signing.

\* restorePreparedEffect, or executor.prepare: a fresh transaction, an error
\* that is worth a retry, or a deterministic one.
Prepare(w) ==
    LET s == workers[w] IN
    /\ At(w, "prepare")
    /\ \/ s.effect # NoEffect /\ Goto(w, "signingRequest")
       \/ /\ s.effect = NoEffect
          /\ Become(w, [s EXCEPT !.pc = "persistPrepared", !.effect = <<s.n, w>>])
       \/ s.effect = NoEffect /\ \E err \in {"RETRY", "NO_RETRY"} : Raise(w, err)
    /\ UNCHANGED <<dbVars, items, deferrals, account, chain>>

\* Mutant: the row version is left out of the WHERE clause.
OutcomeUnchanged(s) == attempts[s.n].outcome = s.outcome

\* updateAttemptOutcome's WHERE clause: outcome and row_version as last read.
AttemptUnchanged(s) ==
    attempts[s.n].outcome = s.outcome /\ attempts[s.n].rv = s.av

PersistPrepared(w) ==
    LET s == workers[w] IN
    /\ At(w, "persistPrepared")
    /\ \/ /\ AttemptUnchanged(s)
          /\ attempts' = [attempts EXCEPT ![s.n].effect = s.effect, ![s.n].rv = @ + 1]
          /\ Become(w, [s EXCEPT !.pc = "signingRequest", !.av = @ + 1])
       \/ /\ ~AttemptUnchanged(s)
          /\ UNCHANGED attempts
          /\ Raise(w, "RETRY")
    /\ UNCHANGED <<payment, nAttempts, reservation, evidence, exception,
                   items, deferrals, account, chain>>

AfterSigned(s) == IF s.pending THEN "completeRequest" ELSE "recheck"

\* Finds or creates the attempt's signing request.  A request is created for
\* the effect that is already durable on the attempt, so its effect_hash check
\* cannot fail and is left out.  A REJECTED request, or a custody key that is
\* unavailable, ends in an error.
UseSigningRequest(w) ==
    LET s == workers[w]
        using(pending) ==
            LET t == [s EXCEPT !.pending = pending] IN
            [t EXCEPT !.pc = IF s.signed THEN AfterSigned(t) ELSE "guardSign",
                      !.rejects = IF pending /\ ~s.signed THEN s.n ELSE 0]
    IN
    /\ At(w, "signingRequest")
    /\ \/ /\ attempts[s.n].request \in {"NONE", "PENDING"}
          /\ attempts' = [attempts EXCEPT ![s.n].request = "PENDING"]
          /\ Become(w, using(TRUE))
       \/ /\ attempts[s.n].request = "SIGNED"
          /\ UNCHANGED attempts
          /\ Become(w, using(FALSE))
       \/ Raise(w, "RETRY") /\ UNCHANGED attempts
    /\ UNCHANGED <<payment, nAttempts, reservation, evidence, exception,
                   items, deferrals, account, chain>>

\* The effect this worker prepared is still the last attempt's effect.
EffectIsCurrent(s) == nAttempts = s.n /\ Current.effect = s.effect

\* ensurePreparedAttemptIsCurrent, then executor.sign.  A signature exists only
\* in the worker until PersistSigned.
Sign(w) ==
    LET s == workers[w] IN
    /\ At(w, "sign")
    /\ \/ ~EffectIsCurrent(s) /\ Goto(w, "complete")
       \/ /\ EffectIsCurrent(s)
          /\ Become(w, [s EXCEPT !.pc = "persistSigned", !.rejects = 0])
       \/ EffectIsCurrent(s) /\ \E err \in {"RETRY", "NO_RETRY"} : Raise(w, err)
    /\ UNCHANGED <<dbVars, items, deferrals, account, chain>>

\* completeSigningRequest(REJECTED) in the catch block; when the request is no
\* longer PENDING its own ConflictError replaces the error being handled.
RejectRequest(w) ==
    LET s == [workers[w] EXCEPT !.pc = "failure", !.rejects = 0]
        n == workers[w].rejects
    IN
    /\ At(w, "rejectRequest")
    /\ \/ /\ attempts[n].request = "PENDING"
          /\ attempts' = [attempts EXCEPT ![n].request = "REJECTED"]
          /\ Become(w, s)
       \/ /\ attempts[n].request # "PENDING"
          /\ UNCHANGED attempts
          /\ Become(w, [s EXCEPT !.err = "RETRY"])
    /\ UNCHANGED <<payment, nAttempts, reservation, evidence, exception,
                   items, deferrals, account, chain>>

\* Mutant: the signed payload is submitted without being made durable.
SignedOnlyInMemory(w) ==
    /\ At(w, "persistSigned")
    /\ Goto(w, "recheck")
    /\ UNCHANGED <<dbVars, items, deferrals, account, chain>>

PersistSigned(w) ==
    LET s == workers[w] IN
    /\ At(w, "persistSigned")
    /\ \/ /\ AttemptUnchanged(s)
          /\ attempts' = [attempts EXCEPT ![s.n].signed = TRUE, ![s.n].rv = @ + 1]
          /\ Become(w, [s EXCEPT !.pc = AfterSigned(s)])
       \/ /\ ~AttemptUnchanged(s)
          /\ UNCHANGED attempts
          /\ Raise(w, "RETRY")
    /\ UNCHANGED <<payment, nAttempts, reservation, evidence, exception,
                   items, deferrals, account, chain>>

CompleteRequest(w) ==
    LET s == workers[w] IN
    /\ At(w, "completeRequest")
    /\ \/ /\ attempts[s.n].request = "PENDING"
          /\ attempts' = [attempts EXCEPT ![s.n].request = "SIGNED"]
          /\ Goto(w, "recheck")
       \/ /\ attempts[s.n].request # "PENDING"
          /\ UNCHANGED attempts
          /\ Raise(w, "RETRY")
    /\ UNCHANGED <<payment, nAttempts, reservation, evidence, exception,
                   items, deferrals, account, chain>>

\* The view is read again after signing; the attempt's outcome is not compared.
Recheck(w) ==
    /\ At(w, "recheck")
    /\ \/ ~EffectIsCurrent(workers[w]) /\ Goto(w, "complete")
       \/ /\ EffectIsCurrent(workers[w])
          /\ Become(w, [Viewing(workers[w]) EXCEPT !.pc = "guardSubmit"])
    /\ UNCHANGED <<dbVars, items, deferrals, account, chain>>

-----------------------------------------------------------------------------
\* Submitting: submit() looks the signature up, then sends.

\* Mutant: a processed transaction is taken for a confirmed one.
ProcessedIsConfirmed(e) ==
    CASE chain[e] \in {"landed", "processed"} -> "CONFIRMED"
      [] chain[e] = "failed"                  -> "FAILED"
      [] OTHER                                -> "ABSENT"

\* Mutant: a transaction that is only processed is taken for an unknown one.
ProcessedIsAbsent(e) ==
    CASE chain[e] = "landed" -> "CONFIRMED"
      [] chain[e] = "failed" -> "FAILED"
      [] OTHER               -> "ABSENT"

\* observeSignature: known and confirmed, known and failed, known but not yet
\* confirmed, or not known to the node.
ObserveSignature(e) ==
    CASE chain[e] = "landed"    -> "CONFIRMED"
      [] chain[e] = "failed"    -> "FAILED"
      [] chain[e] = "processed" -> "KNOWN"
      [] OTHER                  -> "ABSENT"

\* The first RPC of submit().
Observe(w) ==
    LET s == workers[w]
        seen == ObserveSignature(s.effect)
    IN
    /\ At(w, "observe")
    /\ \/ /\ seen \in {"CONFIRMED", "FAILED"}
          /\ Become(w, [s EXCEPT !.pc = "finalizeCheck", !.goal = seen])
       \/ seen = "KNOWN" /\ Become(w, [s EXCEPT !.pc = "update", !.goal = "SUBMITTED"])
       \/ seen = "ABSENT" /\ Goto(w, "send")
       \/ Raise(w, "RETRY")
    /\ UNCHANGED <<dbVars, items, deferrals, account, chain>>

\* sendTransaction: accepted; rejected by preflight; or no usable answer, with
\* the transaction sent or not.  Preflight also rejects what is already
\* processed or has expired.
Send(w) ==
    LET s == workers[w]
        sendable == chain[s.effect] \in {"none", "inflight"}
    IN
    /\ At(w, "send")
    /\ \/ /\ sendable
          /\ chain' = [chain EXCEPT ![s.effect] = "inflight"]
          /\ \E goal \in {"SUBMITTED", "UNKNOWN"} :
                Become(w, [s EXCEPT !.pc = "update", !.goal = goal])
       \/ /\ UNCHANGED chain
          /\ Become(w, [s EXCEPT !.pc = "update", !.goal = "UNKNOWN"])
       \/ /\ UNCHANGED chain
          /\ Become(w, [s EXCEPT !.pc = "finalizeCheck", !.goal = "FAILED"])
    /\ UNCHANGED <<dbVars, items, deferrals, account>>

\* updateAttemptOutcome to SUBMITTED or UNKNOWN.
UpdateAttemptOutcome(w) ==
    LET s == workers[w] IN
    /\ At(w, "update")
    /\ \/ /\ AttemptUnchanged(s)
          /\ attempts' = [attempts EXCEPT ![s.n].outcome = s.goal, ![s.n].rv = @ + 1]
          /\ Goto(w, "project")
       \/ /\ ~AttemptUnchanged(s)
          /\ UNCHANGED attempts
          /\ Raise(w, "RETRY")
    /\ UNCHANGED <<payment, nAttempts, reservation, evidence, exception,
                   items, deferrals, account, chain>>

\* updatePaymentExecution: the status asked for must be the projection of the
\* attempts, and the payment row unchanged since the view was read.
UpdatePaymentExecution(w) ==
    LET s == workers[w]
        status == IF s.goal = "SUBMITTED" THEN "SUBMITTED" ELSE "RECONCILING"
        accepted == ProjectedStatus = status /\ payment.rv = s.pv
    IN
    /\ At(w, "project")
    /\ \/ /\ accepted
          /\ payment' = [status |-> status, exec |-> "RECONCILING", rv |-> payment.rv + 1]
          /\ Become(w, [s EXCEPT !.pc = "retry", !.next = "RECONCILE_PAYMENT_ATTEMPT"])
       \/ /\ ~accepted
          /\ UNCHANGED payment
          /\ Raise(w, "RETRY")
    /\ UNCHANGED <<attempts, nAttempts, reservation, evidence, exception,
                   items, deferrals, account, chain>>

-----------------------------------------------------------------------------
\* Reconciling: reconcile() looks the signature up, then reads the block height.

\* Mutant: routes that were already attempted are not excluded.
AnyRoute(s) == BOOLEAN

\* findReplacementAttempt: another route may be active, if one is left.
CanReplace(s) == {replace \in BOOLEAN : replace => s.n < NRoutes}

NoEffectProved(w) ==
    LET s == workers[w] IN
    \E replace \in CanReplace(s) :
        Become(w, [s EXCEPT !.pc = "finalizeCheck", !.goal = "PROVED_NO_EFFECT",
                            !.replace = replace])

StillUnknown(w) ==
    Become(w, [workers[w] EXCEPT !.pc = "retry", !.next = "RECONCILE_PAYMENT_ATTEMPT"])

\* The first RPC of reconcile().  Every SUBMITTED or UNKNOWN attempt is signed,
\* so its expected external id is set.
Reconcile(w) ==
    LET s == workers[w]
        seen == ObserveSignature(s.effect)
    IN
    /\ At(w, "reconcile")
    /\ \/ /\ seen = "CONFIRMED"
          /\ Become(w, [s EXCEPT !.pc = "finalizeCheck", !.goal = "CONFIRMED"])
       \/ seen = "FAILED" /\ NoEffectProved(w)
       \/ seen = "KNOWN" /\ StillUnknown(w)
       \/ seen = "ABSENT" /\ Goto(w, "height")
       \/ Raise(w, "RETRY")
    /\ UNCHANGED <<dbVars, items, deferrals, account, chain>>

\* Mutant: absence alone counts as proof, whatever the block height.
ValidityIgnored(e) == TRUE

\* currentBlockHeight > validitySlot holds once the transaction has expired, and
\* may hold when it was executed after the signature lookup.
MayBePastValidity(e) == chain[e] \notin {"none", "inflight"}

\* The second RPC: the transaction was unknown a moment ago.
Height(w) ==
    LET e == workers[w].effect IN
    /\ At(w, "height")
    /\ \/ MayBePastValidity(e) /\ NoEffectProved(w)
       \/ chain[e] # "expired" /\ StillUnknown(w)
       \/ Raise(w, "RETRY")
    /\ UNCHANGED <<dbVars, items, deferrals, account, chain>>

-----------------------------------------------------------------------------
\* Terminal transactions.  They read without locks and then update by id, so
\* another transaction may commit between the check and the write.

ViewUnchanged(s) == payment.rv = s.pv /\ AttemptUnchanged(s)

\* finalizeV2Payment, its reads and assertions.
FinalizeCheck(w) ==
    LET s == workers[w]
        accepted == ViewUnchanged(s) /\ s.goal \in Progressions(s.outcome)
    IN
    /\ At(w, "finalizeCheck")
    /\ \/ accepted /\ Goto(w, "finalizeWrite")
       \/ ~accepted /\ Raise(w, "RETRY")
       \/ s.replace /\ Raise(w, "RETRY")     \* the route was retired meanwhile
    /\ UNCHANGED <<dbVars, items, deferrals, account, chain>>

\* Mutant: the reservation is forgotten.
ReservationKept(state) == reservation

\* The outgoing reservation is only ever updated while it is HELD.
SettledReservation(state) == IF reservation = "HELD" THEN state ELSE reservation

\* finalizeV2Payment, its updates: a terminal payment, or a replacement attempt
\* with a work item of its own.  (payment_id, attempt_number) is unique, so the
\* transaction is rolled back if the replacement already exists.
FinalizeWrite(w) ==
    LET s == workers[w]
        proved == IF s.goal = "CONFIRMED" THEN "CONFIRMED" ELSE "PROVED_NO_EFFECT"
    IN
    /\ At(w, "finalizeWrite")
    /\ \/ /\ ~s.replace
          /\ payment' = [status |-> s.goal, exec |-> "TERMINAL", rv |-> payment.rv + 1]
          /\ reservation' = SettledReservation(IF s.goal = "CONFIRMED" THEN "CONSUMED"
                                               ELSE "RELEASED")
          /\ UNCHANGED <<nAttempts, items>>
       \/ /\ s.replace /\ nAttempts = s.n
          /\ payment' = [status |-> "ROUTING", exec |-> "QUEUED", rv |-> payment.rv + 1]
          /\ nAttempts' = s.n + 1
          /\ items' = [items EXCEPT ![s.n + 1] =
                                  NewItem("AVAILABLE", "OUTGOING_PAYMENT_ATTEMPT")]
          /\ UNCHANGED reservation
    /\ attempts' = [attempts EXCEPT ![s.n].outcome = s.goal, ![s.n].rv = @ + 1]
    /\ evidence' = evidence \cup {<<s.n, proved>>}
    /\ Goto(w, "complete")
    /\ UNCHANGED <<exception, deferrals, account, chain>>

FinalizeRolledBack(w) ==
    LET s == workers[w] IN
    /\ At(w, "finalizeWrite")
    /\ s.replace /\ nAttempts # s.n
    /\ Raise(w, "RETRY")
    /\ UNCHANGED <<dbVars, items, deferrals, account, chain>>

\* abortPreEffectPayment, its reads.  The caller has seen NOT_STARTED.
AbortCheck(w) ==
    LET s == workers[w] IN
    /\ At(w, "abortCheck")
    /\ \/ ViewUnchanged(s) /\ Goto(w, "abortWrite")
       \/ ~ViewUnchanged(s) /\ Raise(w, "RETRY")
    /\ UNCHANGED <<dbVars, items, deferrals, account, chain>>

AbortWrite(w) ==
    LET s == workers[w] IN
    /\ At(w, "abortWrite")
    /\ attempts' = [attempts EXCEPT ![s.n].outcome = "PRE_EFFECT_ABORTED",
                                    ![s.n].rv = @ + 1]
    /\ payment' = [status |-> "PROVED_NO_EFFECT", exec |-> "TERMINAL",
                   rv |-> payment.rv + 1]
    /\ reservation' = SettledReservation("RELEASED")
    /\ evidence' = evidence \cup {<<s.n, "PROVED_NO_EFFECT">>}
    /\ Goto(w, "complete")
    /\ UNCHANGED <<nAttempts, exception, items, deferrals, account, chain>>

-----------------------------------------------------------------------------
\* Giving the work item back.

LoseLease(w) ==
    /\ ~StillOwned(w)
    /\ Raise(w, "RETRY")
    /\ UNCHANGED <<dbVars, items, deferrals>>

Settle(w, it) ==
    /\ StillOwned(w)
    /\ items' = [items EXCEPT ![workers[w].item] = it]
    /\ Stop(w)

CompleteWorkItem(w) ==
    /\ At(w, "complete")
    /\ \/ Settle(w, Completed(Mine(w))) /\ UNCHANGED <<dbVars, deferrals>>
       \/ LoseLease(w)
    /\ UNCHANGED <<account, chain>>

NextKind(w) ==
    IF workers[w].next = KeepKind THEN Mine(w).kind ELSE workers[w].next

RetryWorkItem(w) ==
    /\ At(w, "retry")
    /\ \/ /\ RetryExhausts(Mine(w))
          /\ Settle(w, Exhausted(Mine(w)))
          /\ ReviewAfterExhaustion(1)
          /\ UNCHANGED deferrals
       \/ /\ ~RetryExhausts(Mine(w))
          /\ Settle(w, Retried(Mine(w), NextKind(w)))
          /\ UNCHANGED <<dbVars, deferrals>>
       \/ LoseLease(w)
    /\ UNCHANGED <<account, chain>>

FailWorkItem(w) ==
    /\ At(w, "failItem")
    /\ \/ /\ Settle(w, Exhausted(Mine(w)))
          /\ ReviewAfterExhaustion(1)
          /\ UNCHANGED deferrals
       \/ LoseLease(w)
    /\ UNCHANGED <<account, chain>>

\* acquireCapacity is refused before prepare, sign, submit or reconcile.
DeferWorkItem(w) ==
    /\ workers[w].pc \in {"prepare", "sign", "observe", "reconcile"}
    /\ \/ /\ deferrals[workers[w].item] < MaxDeferrals
          /\ Settle(w, Deferred(Mine(w)))
          /\ deferrals' = [deferrals EXCEPT ![workers[w].item] = @ + 1]
          /\ UNCHANGED dbVars
       \/ LoseLease(w)
    /\ UNCHANGED <<account, chain>>

\* handleFailure.  An error it throws is not caught: the batch ends.
HandleFailure(w) ==
    LET s == [Viewing(workers[w]) EXCEPT !.failing = TRUE] IN
    /\ At(w, "failure")
    /\ Become(w,
         IF s.outcome = "NOT_STARTED" /\ s.signed
         THEN [s EXCEPT !.pc = "update", !.goal = "UNKNOWN"]
         ELSE IF s.err = "RETRY"
         THEN [s EXCEPT !.pc = "retry", !.next = KeepKind]
         ELSE IF s.outcome = "NOT_STARTED"
         THEN [s EXCEPT !.pc = "finalizeCheck", !.goal = "FAILED"]
         ELSE [s EXCEPT !.pc = "failItem"])
    /\ UNCHANGED <<dbVars, items, deferrals, account, chain>>

-----------------------------------------------------------------------------
\* The environment: process crashes, time, the network and account management.

Crash(w) ==
    /\ ~At(w, "idle")
    /\ Stop(w)
    /\ UNCHANGED <<dbVars, items, deferrals, account, chain>>

\* The heartbeat renews a lease while its owner works on the item, so without
\* Stalls a lease runs out only once its owner has left it.
LeaseExpires(i) ==
    /\ items[i].status = "CLAIMED" /\ items[i].lease > 0
    /\ Stalls \/ workers[items[i].owner].item # i
    /\ items' = [items EXCEPT ![i].lease = @ - 1]
    /\ UNCHANGED <<dbVars, deferrals, account, chain, workers>>

\* With RpcSnapshot no block lands between the two reads of an RPC caller.
BlockMayLand == RpcSnapshot => \A w \in Workers : workers[w].pc \notin {"send", "height"}

\* A sent transaction is executed, successfully or not, and confirmed; one that
\* is not executed before its last valid block never will be.
NetworkStep(e) ==
    /\ BlockMayLand
    /\ \E after \in ChainStates :
        /\ \/ chain[e] = "inflight" /\ after \in {"processed", "failed"}
           \/ chain[e] = "processed" /\ after = "landed"
           \/ /\ chain[e] \in {"none", "inflight"} /\ after = "expired"
              /\ \E n \in AttemptNumbers : attempts[n].effect = e
        /\ chain' = [chain EXCEPT ![e] = after]
    /\ UNCHANGED <<dbVars, items, deferrals, account, workers>>

\* transitionAccount between ACTIVE and DISABLED.
TransitionAccount ==
    /\ account.changes < MaxAccountChanges
    /\ account' = [active |-> ~account.active, changes |-> account.changes + 1]
    /\ UNCHANGED <<dbVars, items, deferrals, chain, workers>>

-----------------------------------------------------------------------------
\* Operators.  lockException: the exception must still be open.

ExceptionOpen == exception \in {"OPEN", "ACKNOWLEDGED"}

AcknowledgeException ==
    /\ ExceptionOpen
    /\ exception' = "ACKNOWLEDGED"
    /\ UNCHANGED <<payment, attempts, nAttempts, reservation, evidence,
                   items, deferrals, account, chain, workers>>

NoEffectOutcomes == {"PROVED_NO_EFFECT", "PRE_EFFECT_ABORTED"}

\* The current attempt takes the outcome the evidence shows, if it is UNKNOWN.
ResolveAttempt(outcome) ==
    attempts' = IF Current.outcome # "UNKNOWN" THEN attempts
                ELSE [attempts EXCEPT ![nAttempts].outcome = outcome,
                                      ![nAttempts].rv = @ + 1]

ResolveConfirmedException ==
    /\ ExceptionOpen
    /\ <<nAttempts, "CONFIRMED">> \in evidence
    /\ \A n \in 1..(nAttempts - 1) :
            attempts[n].outcome \in NoEffectOutcomes \cup {"CONFIRMED"}
    /\ Current.outcome \in {"UNKNOWN", "CONFIRMED"}
    /\ ResolveAttempt("CONFIRMED")
    /\ payment' = [status |-> "CONFIRMED", exec |-> "TERMINAL", rv |-> payment.rv + 1]
    /\ reservation' = SettledReservation("CONSUMED")
    /\ exception' = "RESOLVED"
    /\ UNCHANGED <<nAttempts, evidence, items, deferrals, account, chain, workers>>

ResolveProvedNoEffectException ==
    LET allNoEffect == \A n \in 1..(nAttempts - 1) :
                            attempts[n].outcome \in NoEffectOutcomes
    IN
    /\ ExceptionOpen
    /\ <<nAttempts, "PROVED_NO_EFFECT">> \in evidence
    /\ Current.outcome \in {"UNKNOWN"} \cup NoEffectOutcomes
    /\ ResolveAttempt("PROVED_NO_EFFECT")
    /\ payment' = IF allNoEffect
                  THEN [status |-> "PROVED_NO_EFFECT", exec |-> "TERMINAL",
                        rv |-> payment.rv + 1]
                  ELSE [status |-> "REVIEW_REQUIRED", exec |-> "RECONCILING",
                        rv |-> payment.rv + 1]
    /\ reservation' = IF allNoEffect THEN SettledReservation("RELEASED") ELSE reservation
    /\ exception' = "RESOLVED"
    /\ UNCHANGED <<nAttempts, evidence, items, deferrals, account, chain, workers>>

CloseUnresolvedException ==
    /\ ExceptionOpen
    /\ payment.status \in {"REVIEW_REQUIRED", "RECONCILING"}
    /\ payment' = [status |-> "CLOSED_UNRESOLVED", exec |-> "TERMINAL",
                   rv |-> payment.rv + 1]
    /\ exception' = "CLOSED_UNRESOLVED"
    /\ UNCHANGED <<attempts, nAttempts, reservation, evidence,
                   items, deferrals, account, chain, workers>>

-----------------------------------------------------------------------------
\* Everything a worker does by itself once it has claimed an item.
WorkerStep(w) ==
    \/ LoadPayment(w) \/ LoadView(w)
    \/ EnsureActive(w, "guardPrepare", "prepare")
    \/ EnsureActive(w, "guardSign", "sign")
    \/ EnsureActive(w, "guardSubmit", "observe")
    \/ Prepare(w) \/ PersistPrepared(w) \/ UseSigningRequest(w)
    \/ Sign(w) \/ RejectRequest(w) \/ PersistSigned(w) \/ CompleteRequest(w)
    \/ Recheck(w) \/ Observe(w) \/ Send(w)
    \/ UpdateAttemptOutcome(w) \/ UpdatePaymentExecution(w)
    \/ Reconcile(w) \/ Height(w)
    \/ FinalizeCheck(w) \/ FinalizeWrite(w) \/ FinalizeRolledBack(w)
    \/ AbortCheck(w) \/ AbortWrite(w)
    \/ CompleteWorkItem(w) \/ RetryWorkItem(w) \/ FailWorkItem(w)
    \/ DeferWorkItem(w) \/ HandleFailure(w)

Operator ==
    \/ AcknowledgeException \/ ResolveConfirmedException
    \/ ResolveProvedNoEffectException \/ CloseUnresolvedException

Claim(w) == \E kind \in WorkKinds : ClaimWorkItem(w, kind)

\* Everything that happens without an operator.
Automatic ==
    \/ \E w \in Workers : Claim(w) \/ WorkerStep(w) \/ Crash(w)
    \/ \E i \in AttemptNumbers : LeaseExpires(i)
    \/ \E e \in Effects : NetworkStep(e)
    \/ TransitionAccount

Next == Automatic \/ Operator

Spec == Init /\ [][Next]_vars

AutomaticSpec == Init /\ [][Automatic]_vars

-----------------------------------------------------------------------------
\* Properties.

Executed(e) == chain[e] \in {"processed", "landed"}

\* However workers crash, stall and race, at most one of the transactions ever
\* prepared for a payment is executed: recovery resends the persisted signed
\* transaction, and finalizeV2Payment creates a replacement attempt only after
\* the earlier transaction can no longer be executed.
AtMostOneEffect == \A e, f \in Effects : Executed(e) /\ Executed(f) => e = f

\* Every attempt but the last has a prepared transaction that failed on chain
\* or expired (findReplacementAttempt runs only on PROVED_NO_EFFECT).
SupersededAttemptsAreDead ==
    \A n \in 1..(nAttempts - 1) :
        attempts[n].effect # NoEffect /\ chain[attempts[n].effect] \in Dead

\* What the network has seen is recoverable: it is the durable prepared effect
\* of an existing attempt whose signed payload is durable too, so a restarted
\* worker can find it by its expected external id.
SentOnlyIfDurable ==
    \A e \in Effects : chain[e] \notin {"none", "expired"} =>
        \E n \in 1..nAttempts : attempts[n].effect = e /\ attempts[n].signed

\* The durable prepared effect of an attempt never changes: executors that race
\* on one attempt cannot both persist a transaction of their own.
PreparedEffectImmutable ==
    [][\A n \in AttemptNumbers :
            attempts[n].effect # NoEffect => attempts'[n].effect = attempts[n].effect]_vars

\* A payment is CONFIRMED, and its reservation CONSUMED, only if a transaction
\* really landed at the confirmed commitment.
ConfirmedHasEffect ==
    payment.status = "CONFIRMED" \/ reservation = "CONSUMED" =>
        \E e \in Effects : chain[e] = "landed"

\* Every way to terminalize a payment settles its reservation, except an
\* operator's closeUnresolvedException.
TerminalNotHeld ==
    payment.exec = "TERMINAL" /\ reservation = "HELD" =>
        payment.status = "CLOSED_UNRESOLVED"

\* Once every work item of a payment is finished nothing will move it again, so
\* it is terminal or in front of an operator.
NoOrphanedPayment ==
    (\A n \in 1..nAttempts : Finished(items[n])) =>
        payment.status \in TerminalStatuses \cup {"REVIEW_REQUIRED"}

\* A payment that the workers closed as PROVED_NO_EFFECT, releasing its funds,
\* has had no effect and will have none.
NoEffectProofIsTrue ==
    payment.status = "PROVED_NO_EFFECT" => \A e \in Effects : ~Executed(e)

\* The worker uses the durable queue as WorkQueue specifies it.  A claim always
\* spends an attempt or a recovery, and a deferral gives it back.
WQ == INSTANCE WorkQueue WITH
          Items <- AttemptNumbers,
          claims <- [i \in AttemptNumbers |->
                        items[i].attempts + items[i].recoveries + deferrals[i]]

ImplementsWorkQueue == WQ!Spec

\* Worker processes are polled by a timer and restarted, and a lease nobody
\* renews runs out.  Nothing is assumed of the network or of operators.
FairSpec ==
    /\ Spec
    /\ \A w \in Workers : WF_vars(Claim(w)) /\ WF_vars(WorkerStep(w))
    /\ \A i \in AttemptNumbers : WF_vars(LeaseExpires(i))

\* Every payment eventually comes to rest: terminal, or in review.
EventuallySettled ==
    <>[](payment.status \in TerminalStatuses \cup {"REVIEW_REQUIRED"})

-----------------------------------------------------------------------------
\* What the documentation says and the code does not keep.

\* docs/architecture.md: "Ambiguous attempts retain their reservation".
AmbiguousRetainsReservation ==
    Current.outcome \in {"SUBMITTED", "UNKNOWN"} => reservation # "RELEASED"

\* docs/operations.md: "the no-terminal-held-reservation invariant", as
\* scripts/backup-verify.mjs counts it.
NoTerminalHeldReservation == ~(payment.exec = "TERMINAL" /\ reservation = "HELD")

\* docs/architecture.md: "SUBMITTED --> FAILED".  A no-effect proof that
\* reconcile() has reached on an unchanged view is accepted.
ReconciledProofIsAccepted ==
    \A w \in Workers :
        At(w, "finalizeCheck") /\ workers[w].goal = "PROVED_NO_EFFECT"
            /\ ViewUnchanged(workers[w])
        => workers[w].goal \in Progressions(workers[w].outcome)
=============================================================================
