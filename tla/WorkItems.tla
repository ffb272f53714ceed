----------------------------- MODULE WorkItems -----------------------------
(***************************************************************************)
(* Rows of durable_work_items and what the repository's queue operations   *)
(* do to one row (packages/db/src/v2.ts).  Wall-clock time is abstracted:  *)
(* lease counts the ticks left before lease_expires_at, 0 meaning          *)
(* lease_expires_at <= now; a row in RETRY_WAIT becomes due at a moment    *)
(* nobody controls, so it may be claimed in any later step.                *)
(***************************************************************************)
EXTENDS Integers

CONSTANTS Workers,      \* lease owners: one fresh identity per worker process
          NoOwner,      \* lease_owner IS NULL
          MaxAttempts,  \* max_attempts of a row
          LeaseTicks    \* length of a lease

ASSUME WorkItemsAssumption ==
    /\ NoOwner \notin Workers
    /\ MaxAttempts \in Nat \ {0}
    /\ LeaseTicks \in Nat \ {0}

WorkKinds == {"OUTGOING_PAYMENT_ATTEMPT", "OUTGOING_PAYMENT",
              "RECONCILE_PAYMENT_ATTEMPT"}

WorkStatuses == {"ABSENT", "AVAILABLE", "CLAIMED", "RETRY_WAIT",
                 "COMPLETED", "EXHAUSTED"}

WorkItem == [status: WorkStatuses, kind: WorkKinds,
             owner: Workers \cup {NoOwner}, lease: 0..LeaseTicks,
             attempts: Int, recoveries: Int]

NewItem(status, kind) ==
    [status |-> status, kind |-> kind, owner |-> NoOwner, lease |-> 0,
     attempts |-> 0, recoveries |-> 0]

Finished(it) == it.status \in {"COMPLETED", "EXHAUSTED"}

\* The row is CLAIMED by w and its lease has not expired: the WHERE clause of
\* completeWorkItem and renewWorkItemLease, and lockOwnedWorkItem.
Owns(it, w) == it.status = "CLAIMED" /\ it.owner = w /\ it.lease > 0

\* Mutant: a claimed row can be taken whatever its lease.
ClaimableWhileLeased(it) ==
    /\ it.status \in {"AVAILABLE", "RETRY_WAIT", "CLAIMED"}
    /\ it.attempts < MaxAttempts \/ it.recoveries < 1

\* Mutant: the branch for a deferred recovery is missing.
ClaimableWithinAttempts(it) ==
    \/ it.status \in {"AVAILABLE", "RETRY_WAIT"} /\ it.attempts < MaxAttempts
    \/ /\ it.status = "CLAIMED"
       /\ it.lease = 0
       /\ it.attempts < MaxAttempts \/ it.recoveries < 1

\* The second query of claimWorkItem: a row that may be leased now.
Claimable(it) ==
    \/ it.status \in {"AVAILABLE", "RETRY_WAIT"} /\ it.attempts < MaxAttempts
    \/ /\ it.status = "RETRY_WAIT"
       /\ it.attempts >= MaxAttempts
       /\ it.recoveries < 1
    \/ /\ it.status = "CLAIMED"
       /\ it.lease = 0
       /\ it.attempts < MaxAttempts \/ it.recoveries < 1

\* Mutant: nothing sweeps the last lease.
NeverSwept(it) == FALSE

\* The first query of claimWorkItem: the lease of the last recovery ran out.
FinalLeaseExpired(it) ==
    /\ it.status = "CLAIMED"
    /\ it.lease = 0
    /\ it.attempts >= MaxAttempts
    /\ it.recoveries >= 1

\* Mutant: leases are one tick too long.
ClaimedTooLong(it, w) ==
    [it EXCEPT !.status = "CLAIMED", !.owner = w, !.lease = LeaseTicks + 1,
               !.attempts = IF it.attempts >= MaxAttempts THEN @ ELSE @ + 1,
               !.recoveries = IF it.attempts >= MaxAttempts THEN @ + 1 ELSE @]

\* Mutant: a recovery claim is not counted.
RecoveryUncounted(it, w) ==
    [it EXCEPT !.status = "CLAIMED", !.owner = w, !.lease = LeaseTicks,
               !.attempts = IF it.attempts >= MaxAttempts THEN @ ELSE @ + 1]

\* A claim spends one attempt, or the one recovery once the attempts are spent.
Claimed(it, w) ==
    [it EXCEPT !.status = "CLAIMED", !.owner = w, !.lease = LeaseTicks,
               !.attempts = IF it.attempts >= MaxAttempts THEN @ ELSE @ + 1,
               !.recoveries = IF it.attempts >= MaxAttempts THEN @ + 1 ELSE @]

Unleased(it, status) ==
    [it EXCEPT !.status = status, !.owner = NoOwner, !.lease = 0]

Completed(it) == Unleased(it, "COMPLETED")

\* markWorkItemExhausted, as far as the row itself goes.
Exhausted(it) == Unleased(it, "EXHAUSTED")

\* retryWorkItem once the budget is known not to be spent.
Retried(it, nextKind) == [Unleased(it, "RETRY_WAIT") EXCEPT !.kind = nextKind]

RetryExhausts(it) == it.attempts >= MaxAttempts

\* deferWorkItem: backpressure gives back what the claim had spent.
RecoveringExpiredLease(it) == it.attempts >= MaxAttempts /\ it.recoveries > 0

\* Mutant: a deferred recovery gives back an attempt.
DeferredAttempt(it) == [Unleased(it, "RETRY_WAIT") EXCEPT !.attempts = @ - 1]

Deferred(it) ==
    [Unleased(it, "RETRY_WAIT") EXCEPT
        !.attempts = IF RecoveringExpiredLease(it) THEN @ ELSE @ - 1,
        !.recoveries = IF RecoveringExpiredLease(it) THEN @ - 1 ELSE @]

\* Every claim call first exhausts the rows whose final lease ran out.
DeadLeases(rows, kind) ==
    {i \in DOMAIN rows : rows[i].kind = kind /\ FinalLeaseExpired(rows[i])}

ClaimCandidates(rows, kind) ==
    {i \in DOMAIN rows : rows[i].kind = kind /\ Claimable(rows[i])}

AfterSweep(rows, kind) ==
    [i \in DOMAIN rows |-> IF i \in DeadLeases(rows, kind)
                           THEN Exhausted(rows[i]) ELSE rows[i]]

AfterClaim(rows, kind, i, w) ==
    [AfterSweep(rows, kind) EXCEPT ![i] = Claimed(rows[i], w)]
=============================================================================
