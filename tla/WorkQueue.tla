----------------------------- MODULE WorkQueue -----------------------------
(***************************************************************************)
(* The durable work queue on its own: what the queue operations of         *)
(* packages/db/src/v2.ts promise to workers that claim, heartbeat, finish, *)
(* defer or silently stop.  A call by a worker that has lost its lease     *)
(* throws a ConflictError and changes nothing, so it is not an action.     *)
(***************************************************************************)
EXTENDS WorkItems

CONSTANTS Items,         \* work item ids
          MaxDeferrals   \* bound on capacity deferrals of one item

ASSUME WorkQueueAssumption == MaxDeferrals \in Nat

VARIABLES items,      \* the rows
          claims,     \* history: how often each item has been claimed
          deferrals   \* history: how often each item has been deferred

vars == <<items, claims, deferrals>>

\* The rows keep their types: no lease outlives LeaseTicks, and the counters that
\* claimWorkItem and deferWorkItem move stay numbers.
TypeOK ==
    /\ items \in [Items -> WorkItem]
    /\ claims \in [Items -> Nat]
    /\ deferrals \in [Items -> Nat]

Init ==
    /\ items \in [Items -> {NewItem("ABSENT", "OUTGOING_PAYMENT_ATTEMPT"),
                            NewItem("AVAILABLE", "OUTGOING_PAYMENT")}]
    /\ claims = [i \in Items |-> 0]
    /\ deferrals = [i \in Items |-> 0]

\* createV2Payment, decideApproval and finalizeV2Payment insert rows.
Enqueue(i) ==
    /\ items[i].status = "ABSENT"
    /\ items' = [items EXCEPT ![i] = NewItem("AVAILABLE", @.kind)]
    /\ UNCHANGED <<claims, deferrals>>

ClaimWorkItem(w, kind) ==
    /\ \/ \E i \in ClaimCandidates(items, kind) :
            /\ items' = AfterClaim(items, kind, i, w)
            /\ claims' = [claims EXCEPT ![i] = @ + 1]
       \/ /\ ClaimCandidates(items, kind) = {}
          /\ DeadLeases(items, kind) # {}
          /\ items' = AfterSweep(items, kind)
          /\ UNCHANGED claims
    /\ UNCHANGED deferrals

RenewWorkItemLease(w, i) ==
    /\ Owns(items[i], w)
    /\ items' = [items EXCEPT ![i].lease = LeaseTicks]
    /\ UNCHANGED <<claims, deferrals>>

CompleteWorkItem(w, i) ==
    /\ Owns(items[i], w)
    /\ items' = [items EXCEPT ![i] = Completed(@)]
    /\ UNCHANGED <<claims, deferrals>>

RetryWorkItem(w, i, nextKind) ==
    /\ Owns(items[i], w)
    /\ items' = [items EXCEPT ![i] = IF RetryExhausts(@) THEN Exhausted(@)
                                     ELSE Retried(@, nextKind)]
    /\ UNCHANGED <<claims, deferrals>>

DeferWorkItem(w, i) ==
    /\ Owns(items[i], w)
    /\ deferrals[i] < MaxDeferrals
    /\ items' = [items EXCEPT ![i] = Deferred(@)]
    /\ deferrals' = [deferrals EXCEPT ![i] = @ + 1]
    /\ UNCHANGED claims

FailWorkItem(w, i) ==
    /\ Owns(items[i], w)
    /\ items' = [items EXCEPT ![i] = Exhausted(@)]
    /\ UNCHANGED <<claims, deferrals>>

\* Time passes over a lease; its owner may have stalled or died.
LeaseElapses(i) ==
    /\ items[i].status = "CLAIMED"
    /\ items[i].lease > 0
    /\ items' = [items EXCEPT ![i].lease = @ - 1]
    /\ UNCHANGED <<claims, deferrals>>

Finish(i) ==
    \E w \in Workers :
        \/ CompleteWorkItem(w, i)
        \/ FailWorkItem(w, i)
        \/ \E k \in WorkKinds : RetryWorkItem(w, i, k)

Claim == \E w \in Workers, k \in WorkKinds : ClaimWorkItem(w, k)

Next ==
    \/ Claim
    \/ \E i \in Items :
        \/ Enqueue(i)
        \/ Finish(i)
        \/ LeaseElapses(i)
        \/ \E w \in Workers : RenewWorkItemLease(w, i) \/ DeferWorkItem(w, i)

Spec == Init /\ [][Next]_vars

\* Some worker keeps polling; the owner of a lease does not heartbeat for ever:
\* it finishes its item, or it stops and the lease runs out.
Settle(i) == Finish(i) \/ (items[i].lease = 1 /\ LeaseElapses(i))

FairSpec == Spec /\ WF_vars(Claim) /\ \A i \in Items : SF_vars(Settle(i))

-----------------------------------------------------------------------------
\* The attempt and recovery counters never leave their budget, and a row that
\* is CLAIMED has always spent something that deferWorkItem can give back.
BudgetRespected ==
    \A i \in Items :
        /\ items[i].attempts \in 0..MaxAttempts
        /\ items[i].recoveries \in 0..1
        /\ items[i].recoveries = 1 => items[i].attempts = MaxAttempts
        /\ items[i].status = "CLAIMED" => items[i].attempts > 0

\* However often leases expire and retries happen, an item is handed to a
\* worker at most max_attempts + 1 times, not counting deferred claims.
ClaimsBounded ==
    \A i \in Items : claims[i] <= MaxAttempts + 1 + deferrals[i]

\* No row is ever stranded: an unfinished row without a live lease can be
\* claimed, or the next claim call will exhaust it.
NoStrandedItem ==
    \A i \in Items :
        /\ items[i].status \in {"AVAILABLE", "RETRY_WAIT"} => Claimable(items[i])
        /\ items[i].status = "CLAIMED" /\ items[i].lease = 0 =>
               Claimable(items[i]) \/ FinalLeaseExpired(items[i])

\* A live lease is never handed to another worker, and a finished row never
\* comes back to life.
LeaseIsExclusive ==
    [][\A i \in Items :
        /\ items[i].status = "CLAIMED" /\ items[i].lease > 0 =>
               items'[i].owner \in {items[i].owner, NoOwner}
        /\ Finished(items[i]) => items'[i] = items[i]]_vars

\* Every enqueued item is eventually completed or exhausted.
EventuallyFinished ==
    \A i \in Items : items[i].status = "AVAILABLE" ~> Finished(items[i])
=============================================================================
