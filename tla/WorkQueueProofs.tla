-------------------------- MODULE WorkQueueProofs --------------------------
(***************************************************************************)
(* Proofs that the durable work queue keeps its budget and strands nothing,*)
(* for every number of workers, items, attempts and deferrals.             *)
(*                                                                         *)
(* RowInv is a property of one row and its history counters; every queue   *)
(* operation preserves it (one lemma each), and the queue is the           *)
(* independent composition of its rows.                                    *)
(***************************************************************************)
EXTENDS WorkQueue, TLAPS

\* A row, the number of its claims c and of its deferrals d.
RowInv(it, c, d) ==
    /\ it \in WorkItem
    /\ c \in Nat /\ d \in Nat
    /\ it.attempts \in 0..MaxAttempts
    /\ it.recoveries \in 0..1
    /\ it.recoveries = 1 => it.attempts = MaxAttempts
    /\ it.status = "CLAIMED" => it.attempts > 0
    /\ it.status = "ABSENT" => it.attempts = 0 /\ it.recoveries = 0
    /\ it.status = "AVAILABLE" => it.attempts < MaxAttempts
    /\ it.status = "RETRY_WAIT" => it.attempts < MaxAttempts \/ it.recoveries = 0
    /\ c = it.attempts + it.recoveries + d

QInv ==
    /\ items = [i \in Items |-> items[i]]
    /\ claims = [i \in Items |-> claims[i]]
    /\ deferrals = [i \in Items |-> deferrals[i]]
    /\ \A i \in Items : RowInv(items[i], claims[i], deferrals[i])

-----------------------------------------------------------------------------
\* What the operations do to the fields of a row.  The arithmetic of the counters
\* and the shape of the record are proved apart.

\* Unleased (the part that completeWorkItem, markWorkItemExhausted,
\* retryWorkItem and deferWorkItem share) only changes the status and the lease.
LEMMA UnleasedFields ==
    ASSUME NEW it \in WorkItem, NEW st \in WorkStatuses
    PROVE  /\ Unleased(it, st) \in WorkItem
           /\ Unleased(it, st).status = st
           /\ Unleased(it, st).attempts = it.attempts
           /\ Unleased(it, st).recoveries = it.recoveries
<1>1. 0 \in 0..LeaseTicks
  BY WorkItemsAssumption
<1> QED
  BY <1>1 DEF Unleased, WorkItem

\* claimWorkItem increments attempt_count, or lease_recovery_count once the
\* attempts are spent.
LEMMA ClaimedFields ==
    ASSUME NEW it \in WorkItem, NEW w \in Workers
    PROVE  LET spent == it.attempts >= MaxAttempts IN
           /\ Claimed(it, w) \in WorkItem
           /\ Claimed(it, w).status = "CLAIMED"
           /\ Claimed(it, w).attempts = IF spent THEN it.attempts ELSE it.attempts + 1
           /\ Claimed(it, w).recoveries = IF spent THEN it.recoveries + 1
                                          ELSE it.recoveries
<1> DEFINE a == IF it.attempts >= MaxAttempts THEN it.attempts ELSE it.attempts + 1
           b == IF it.attempts >= MaxAttempts THEN it.recoveries + 1 ELSE it.recoveries
<1>1. a \in Int /\ b \in Int /\ LeaseTicks \in 0..LeaseTicks
  BY WorkItemsAssumption DEF WorkItem
<1>2. Claimed(it, w) = [it EXCEPT !.status = "CLAIMED", !.owner = w,
                                  !.lease = LeaseTicks, !.attempts = a,
                                  !.recoveries = b]
  BY Zenon DEF Claimed
<1> HIDE DEF a, b
<1>3. Claimed(it, w) \in WorkItem
  BY <1>1, <1>2 DEF WorkItem, WorkStatuses
<1>4. /\ Claimed(it, w).status = "CLAIMED"
      /\ Claimed(it, w).attempts = a
      /\ Claimed(it, w).recoveries = b
  BY <1>2 DEF WorkItem
<1> QED
  BY <1>3, <1>4 DEF a, b

-----------------------------------------------------------------------------
\* Every queue operation preserves RowInv.

\* A row that has not been inserted yet, or just has (createV2Payment,
\* decideApproval, finalizeV2Payment), has spent nothing.
LEMMA NewRow ==
    ASSUME NEW kind \in WorkKinds, NEW st \in {"ABSENT", "AVAILABLE"}, NEW d \in Nat
    PROVE  RowInv(NewItem(st, kind), d, d)
BY WorkItemsAssumption DEF RowInv, NewItem, WorkItem, WorkStatuses

\* claimWorkItem spends exactly one attempt or the one recovery.
LEMMA ClaimedRow ==
    ASSUME NEW it, NEW c, NEW d, NEW w \in Workers,
           RowInv(it, c, d), Claimable(it)
    PROVE  RowInv(Claimed(it, w), c + 1, d)
<1>1. it \in WorkItem
  BY DEF RowInv
<1>2. it.attempts \in Int /\ it.recoveries \in Int
  BY <1>1 DEF WorkItem
<1>3. it.attempts >= MaxAttempts => it.recoveries = 0
  BY <1>2, WorkItemsAssumption DEF RowInv, Claimable
<1> QED
  BY <1>1, <1>2, <1>3, ClaimedFields, WorkItemsAssumption DEF RowInv

\* completeWorkItem and markWorkItemExhausted keep the counters.
LEMMA FinishedRow ==
    ASSUME NEW it, NEW c, NEW d, RowInv(it, c, d)
    PROVE  RowInv(Completed(it), c, d) /\ RowInv(Exhausted(it), c, d)
BY UnleasedFields DEF RowInv, Completed, Exhausted, WorkStatuses

\* retryWorkItem leaves a row that still has an attempt to spend.
LEMMA RetriedRow ==
    ASSUME NEW it, NEW c, NEW d, RowInv(it, c, d), NEW kind \in WorkKinds,
           ~RetryExhausts(it)
    PROVE  RowInv(Retried(it, kind), c, d)
<1> DEFINE u == Unleased(it, "RETRY_WAIT")
<1>1. /\ u \in WorkItem /\ u.status = "RETRY_WAIT"
      /\ u.attempts = it.attempts /\ u.recoveries = it.recoveries
  BY UnleasedFields DEF RowInv, WorkStatuses
<1>2. Retried(it, kind) = [u EXCEPT !.kind = kind]
  BY DEF Retried
<1> HIDE DEF u
<1>3. /\ Retried(it, kind) \in WorkItem
      /\ Retried(it, kind).status = "RETRY_WAIT"
      /\ Retried(it, kind).attempts = it.attempts
      /\ Retried(it, kind).recoveries = it.recoveries
  BY <1>1, <1>2 DEF WorkItem
<1>4. it.attempts < MaxAttempts
  BY WorkItemsAssumption DEF RowInv, RetryExhausts
<1> QED
  BY <1>3, <1>4 DEF RowInv

\* deferWorkItem gives back what the claim had spent: the recovery if that is
\* what it was, an attempt otherwise.
LEMMA DeferredRow ==
    ASSUME NEW it, NEW c, NEW d, RowInv(it, c, d), it.status = "CLAIMED"
    PROVE  RowInv(Deferred(it), c, d + 1)
<1> DEFINE u == Unleased(it, "RETRY_WAIT")
           a == IF RecoveringExpiredLease(it) THEN u.attempts ELSE u.attempts - 1
           b == IF RecoveringExpiredLease(it) THEN u.recoveries - 1 ELSE u.recoveries
<1>1. /\ u \in WorkItem /\ u.status = "RETRY_WAIT"
      /\ u.attempts = it.attempts /\ u.recoveries = it.recoveries
  BY UnleasedFields DEF RowInv, WorkStatuses
<1>2. Deferred(it) = [u EXCEPT !.attempts = a, !.recoveries = b]
  BY Zenon DEF Deferred
<1> HIDE DEF u
<1>3. a \in Int /\ b \in Int
  BY <1>1 DEF WorkItem
<1>4. /\ a \in 0..MaxAttempts /\ b = 0
      /\ c = a + b + (d + 1)
  BY <1>1, WorkItemsAssumption DEF RowInv, RecoveringExpiredLease
<1> HIDE DEF a, b
<1>5. /\ Deferred(it) \in WorkItem
      /\ Deferred(it).status = "RETRY_WAIT"
      /\ Deferred(it).attempts = a
      /\ Deferred(it).recoveries = b
  BY <1>1, <1>2, <1>3 DEF WorkItem
<1> QED
  BY <1>4, <1>5 DEF RowInv

\* renewWorkItemLease and the passing of time only touch the lease.
LEMMA LeasedRow ==
    ASSUME NEW it, NEW c, NEW d, RowInv(it, c, d), NEW l \in 0..LeaseTicks
    PROVE  RowInv([it EXCEPT !.lease = l], c, d)
BY DEF RowInv, WorkItem

-----------------------------------------------------------------------------
\* Replacing one row, with its counters, by one that satisfies RowInv.
LEMMA OneRowInv ==
    ASSUME QInv, NEW i \in Items, NEW row, NEW c, NEW d, RowInv(row, c, d),
           items' = [items EXCEPT ![i] = row],
           claims' = [claims EXCEPT ![i] = c],
           deferrals' = [deferrals EXCEPT ![i] = d]
    PROVE  QInv'
<1>1. \A j \in Items : items'[j] = IF j = i THEN row ELSE items[j]
  BY DEF QInv
<1>2. \A j \in Items : claims'[j] = IF j = i THEN c ELSE claims[j]
  BY DEF QInv
<1>3. \A j \in Items : deferrals'[j] = IF j = i THEN d ELSE deferrals[j]
  BY DEF QInv
<1>4. \A j \in Items : RowInv(items'[j], claims'[j], deferrals'[j])
  BY <1>1, <1>2, <1>3 DEF QInv
<1>5. /\ items' = [j \in Items |-> items'[j]]
      /\ claims' = [j \in Items |-> claims'[j]]
      /\ deferrals' = [j \in Items |-> deferrals'[j]]
  BY DEF QInv
<1> QED
  BY <1>4, <1>5 DEF QInv

\* A step that leaves the history counters of the row it changes alone.
LEMMA OneRowOnly ==
    ASSUME QInv, NEW i \in Items, NEW row, RowInv(row, claims[i], deferrals[i]),
           items' = [items EXCEPT ![i] = row],
           UNCHANGED <<claims, deferrals>>
    PROVE  QInv'
<1>1. \A j \in Items : items'[j] = IF j = i THEN row ELSE items[j]
  BY DEF QInv
<1>2. \A j \in Items : RowInv(items'[j], claims[j], deferrals[j])
  BY <1>1 DEF QInv
<1>3. items' = [j \in Items |-> items'[j]]
  BY DEF QInv
<1> QED
  BY <1>2, <1>3 DEF QInv

\* claimWorkItem first exhausts the rows whose final lease has run out.
LEMMA SweepInv ==
    ASSUME QInv, NEW kind
    PROVE  /\ AfterSweep(items, kind) = [j \in Items |-> AfterSweep(items, kind)[j]]
           /\ \A j \in Items :
                /\ RowInv(AfterSweep(items, kind)[j], claims[j], deferrals[j])
                /\ Claimable(items[j]) => AfterSweep(items, kind)[j] = items[j]
<1>1. DOMAIN items = Items
  BY DEF QInv
<1>2. \A j \in Items : Claimable(items[j]) => j \notin DeadLeases(items, kind)
  BY WorkItemsAssumption DEF Claimable, DeadLeases, FinalLeaseExpired, QInv,
     RowInv, WorkItem
<1>3. \A j \in Items : RowInv(Exhausted(items[j]), claims[j], deferrals[j])
  BY FinishedRow DEF QInv
<1> QED
  BY <1>1, <1>2, <1>3 DEF AfterSweep, QInv

\* The initial rows satisfy the invariant.
LEMMA QInvInit == Init => QInv
<1> SUFFICES ASSUME Init PROVE QInv
  OBVIOUS
<1>1. \A i \in Items : /\ claims[i] = 0 /\ deferrals[i] = 0
                       /\ \/ items[i] = NewItem("ABSENT", "OUTGOING_PAYMENT_ATTEMPT")
                          \/ items[i] = NewItem("AVAILABLE", "OUTGOING_PAYMENT")
  BY DEF Init
<1>2. /\ RowInv(NewItem("ABSENT", "OUTGOING_PAYMENT_ATTEMPT"), 0, 0)
      /\ RowInv(NewItem("AVAILABLE", "OUTGOING_PAYMENT"), 0, 0)
  BY NewRow DEF WorkKinds
<1>3. \A i \in Items : RowInv(items[i], claims[i], deferrals[i])
  BY <1>1, <1>2
<1>4. /\ items = [i \in Items |-> items[i]]
      /\ claims = [i \in Items |-> claims[i]]
      /\ deferrals = [i \in Items |-> deferrals[i]]
  BY DEF Init
<1> QED
  BY <1>3, <1>4 DEF QInv

\* Every queue operation preserves the invariant.
LEMMA QInvStep == QInv /\ [Next]_vars => QInv'
<1> SUFFICES ASSUME QInv, [Next]_vars PROVE QInv'
  OBVIOUS
<1>0. \A i \in Items : RowInv(items[i], claims[i], deferrals[i])
  BY DEF QInv
<1>1. ASSUME NEW i \in Items, Enqueue(i) PROVE QInv'
  <2>1. /\ items[i].kind \in WorkKinds
        /\ deferrals[i] \in Nat /\ claims[i] = deferrals[i]
    BY <1>0, <1>1 DEF RowInv, WorkItem, Enqueue
  <2>2. RowInv(NewItem("AVAILABLE", items[i].kind), claims[i], deferrals[i])
    BY <2>1, NewRow
  <2> QED
    BY <1>1, <2>2, OneRowOnly DEF Enqueue
<1>2. ASSUME NEW w \in Workers, NEW k \in WorkKinds, ClaimWorkItem(w, k) PROVE QInv'
  <2>1. ASSUME NEW i \in ClaimCandidates(items, k),
               items' = AfterClaim(items, k, i, w),
               claims' = [claims EXCEPT ![i] = @ + 1], UNCHANGED deferrals
        PROVE  QInv'
    <3>1. i \in Items /\ Claimable(items[i])
      BY <2>1 DEF ClaimCandidates, QInv
    <3>2. RowInv(Claimed(items[i], w), claims[i] + 1, deferrals[i])
      BY <1>0, <3>1, ClaimedRow
    <3>3. \A j \in Items : items'[j] = IF j = i THEN Claimed(items[i], w)
                                       ELSE AfterSweep(items, k)[j]
      BY <2>1, SweepInv DEF AfterClaim
    <3>4. \A j \in Items : claims'[j] = IF j = i THEN claims[i] + 1 ELSE claims[j]
      BY <2>1 DEF QInv
    <3>5. \A j \in Items : RowInv(items'[j], claims'[j], deferrals'[j])
      BY <2>1, <3>2, <3>3, <3>4, SweepInv
    <3>6. /\ items' = [j \in Items |-> items'[j]]
          /\ claims' = [j \in Items |-> claims'[j]]
          /\ deferrals' = [j \in Items |-> deferrals'[j]]
      BY <2>1, SweepInv DEF QInv, AfterClaim
    <3> QED
      BY <3>5, <3>6 DEF QInv
  <2>2. ASSUME items' = AfterSweep(items, k), UNCHANGED <<claims, deferrals>>
        PROVE  QInv'
    BY <2>2, SweepInv DEF QInv
  <2> QED
    BY <1>2, <2>1, <2>2 DEF ClaimWorkItem
<1>3. ASSUME NEW i \in Items, NEW w \in Workers, RenewWorkItemLease(w, i) PROVE QInv'
  <2>1. LeaseTicks \in 0..LeaseTicks
    BY WorkItemsAssumption
  <2>2. RowInv([items[i] EXCEPT !.lease = LeaseTicks], claims[i], deferrals[i])
    BY <1>0, <2>1, LeasedRow
  <2> QED
    BY <1>3, <2>2, OneRowOnly DEF RenewWorkItemLease
<1>4. ASSUME NEW i \in Items, LeaseElapses(i) PROVE QInv'
  <2>1. items[i].lease - 1 \in 0..LeaseTicks
    BY <1>0, <1>4, WorkItemsAssumption DEF LeaseElapses, RowInv, WorkItem
  <2>2. RowInv([items[i] EXCEPT !.lease = items[i].lease - 1], claims[i], deferrals[i])
    BY <1>0, <2>1, LeasedRow
  <2> QED
    BY <1>4, <2>2, OneRowOnly DEF LeaseElapses
<1>5. ASSUME NEW i \in Items, NEW w \in Workers, CompleteWorkItem(w, i) PROVE QInv'
  BY <1>0, <1>5, FinishedRow, OneRowOnly DEF CompleteWorkItem
<1>6. ASSUME NEW i \in Items, NEW w \in Workers, FailWorkItem(w, i) PROVE QInv'
  BY <1>0, <1>6, FinishedRow, OneRowOnly DEF FailWorkItem
<1>7. ASSUME NEW i \in Items, NEW w \in Workers, NEW k \in WorkKinds,
             RetryWorkItem(w, i, k)
      PROVE  QInv'
  <2> DEFINE row == IF RetryExhausts(items[i]) THEN Exhausted(items[i])
                    ELSE Retried(items[i], k)
  <2>1. RowInv(row, claims[i], deferrals[i])
    BY <1>0, FinishedRow, RetriedRow
  <2> QED
    BY <1>7, <2>1, OneRowOnly DEF RetryWorkItem
<1>8. ASSUME NEW i \in Items, NEW w \in Workers, DeferWorkItem(w, i) PROVE QInv'
  <2>1. RowInv(Deferred(items[i]), claims[i], deferrals[i] + 1)
    BY <1>0, <1>8, DeferredRow DEF DeferWorkItem, Owns
  <2>2. claims' = [claims EXCEPT ![i] = claims[i]]
    BY <1>8 DEF DeferWorkItem, QInv
  <2> QED
    BY <1>8, <2>1, <2>2, OneRowInv DEF DeferWorkItem
<1>9. CASE UNCHANGED vars
  BY <1>9 DEF vars, QInv
<1> QED
  BY <1>1, <1>2, <1>3, <1>4, <1>5, <1>6, <1>7, <1>8, <1>9 DEF Next, Claim, Finish

-----------------------------------------------------------------------------
\* The invariant holds in every reachable state.
LEMMA QInvAlways == Spec => []QInv
BY QInvInit, QInvStep, PTL DEF Spec

\* durable_work_items rows always have the shape the schema gives them.
THEOREM TypeCorrect == Spec => []TypeOK
<1>1. QInv => TypeOK
  BY DEF QInv, RowInv, TypeOK
<1> QED
  BY <1>1, QInvAlways, PTL

\* attempt_count and lease_recovery_count never leave their budget, whatever
\* the order of claims, heartbeats, retries, deferrals and expiries.
THEOREM BudgetAlwaysRespected == Spec => []BudgetRespected
<1>1. QInv => BudgetRespected
  BY DEF QInv, RowInv, BudgetRespected
<1> QED
  BY <1>1, QInvAlways, PTL

\* An item is handed out at most max_attempts + 1 times beyond its deferrals.
THEOREM ClaimsAlwaysBounded == Spec => []ClaimsBounded
<1>1. QInv => ClaimsBounded
  BY WorkItemsAssumption DEF QInv, RowInv, ClaimsBounded
<1> QED
  BY <1>1, QInvAlways, PTL

\* Every unfinished row without a live lease is reachable by claimWorkItem.
THEOREM NothingStranded == Spec => []NoStrandedItem
<1>1. QInv => NoStrandedItem
  BY WorkItemsAssumption
     DEF QInv, RowInv, NoStrandedItem, Claimable, FinalLeaseExpired, WorkItem
<1> QED
  BY <1>1, QInvAlways, PTL

-----------------------------------------------------------------------------
\* What LeaseIsExclusive says of one row, before and after a step.
LeaseKept(it, after) ==
    /\ it.status = "CLAIMED" /\ it.lease > 0 => after.owner \in {it.owner, NoOwner}
    /\ Finished(it) => after = it

\* Giving a claimed row back clears its owner.
LEMMA UnleasedOwner ==
    ASSUME NEW it \in WorkItem, NEW st
    PROVE  Unleased(it, st).owner = NoOwner
BY DEF Unleased, WorkItem

\* A step that changes one row, which its worker owned.
LEMMA OwnedRowKept ==
    ASSUME QInv, NEW i \in Items, NEW w, Owns(items[i], w), NEW row,
           row.owner = NoOwner, items' = [items EXCEPT ![i] = row]
    PROVE  \A j \in Items : LeaseKept(items[j], items'[j])
<1>1. \A j \in Items : items'[j] = IF j = i THEN row ELSE items[j]
  BY DEF QInv
<1>2. ~Finished(items[i])
  BY DEF Owns, Finished
<1> QED
  BY <1>1, <1>2 DEF LeaseKept

\* No operation of another worker takes a live lease or revives a finished row.
LEMMA LeaseKeptStep ==
    QInv /\ [Next]_vars => \A j \in Items : LeaseKept(items[j], items'[j])
<1> SUFFICES ASSUME QInv, [Next]_vars
             PROVE  \A j \in Items : LeaseKept(items[j], items'[j])
  OBVIOUS
<1>0. \A i \in Items : items[i] \in WorkItem
  BY DEF QInv, RowInv
<1> DEFINE Kept == \A j \in Items : LeaseKept(items[j], items'[j])
<1>1. ASSUME NEW i \in Items, Enqueue(i) PROVE Kept
  <2>1. \A j \in Items : j # i => items'[j] = items[j]
    BY <1>1 DEF Enqueue, QInv
  <2> QED
    BY <1>1, <2>1 DEF Enqueue, LeaseKept, Finished
<1>2. ASSUME NEW w \in Workers, NEW k \in WorkKinds, ClaimWorkItem(w, k) PROVE Kept
  <2>1. \A j \in Items : LeaseKept(items[j], AfterSweep(items, k)[j])
    <3>1. \A j \in Items : AfterSweep(items, k)[j] =
              IF j \in DeadLeases(items, k) THEN Exhausted(items[j]) ELSE items[j]
      BY DEF AfterSweep, QInv
    <3>2. \A j \in DeadLeases(items, k) :
              items[j].status = "CLAIMED" /\ items[j].lease = 0
      BY DEF DeadLeases, FinalLeaseExpired
    <3> QED
      BY <3>1, <3>2 DEF LeaseKept, Finished
  <2>2. ASSUME NEW i \in ClaimCandidates(items, k), items' = AfterClaim(items, k, i, w)
        PROVE  Kept
    <3>1. \A j \in Items : j # i => items'[j] = AfterSweep(items, k)[j]
      BY <2>2, SweepInv DEF AfterClaim
    <3>2. /\ ~(items[i].status = "CLAIMED" /\ items[i].lease > 0)
          /\ ~Finished(items[i])
      BY <2>2 DEF ClaimCandidates, Claimable, Finished
    <3> QED
      BY <2>1, <3>1, <3>2 DEF LeaseKept
  <2> QED
    BY <1>2, <2>1, <2>2 DEF ClaimWorkItem
<1>3. ASSUME NEW i \in Items, NEW w \in Workers, RenewWorkItemLease(w, i) PROVE Kept
  <2>1. \A j \in Items : items'[j] = IF j = i THEN [items[i] EXCEPT !.lease = LeaseTicks]
                                     ELSE items[j]
    BY <1>3 DEF RenewWorkItemLease, QInv
  <2>2. [items[i] EXCEPT !.lease = LeaseTicks].owner = items[i].owner
    BY <1>0 DEF WorkItem
  <2> QED
    BY <1>3, <2>1, <2>2 DEF RenewWorkItemLease, Owns, LeaseKept, Finished
<1>4. ASSUME NEW i \in Items, LeaseElapses(i) PROVE Kept
  <2> DEFINE row == [items[i] EXCEPT !.lease = items[i].lease - 1]
  <2>1. \A j \in Items : items'[j] = IF j = i THEN row ELSE items[j]
    BY <1>4 DEF LeaseElapses, QInv
  <2>2. row.owner = items[i].owner
    BY <1>0 DEF WorkItem
  <2> HIDE DEF row
  <2> QED
    BY <1>4, <2>1, <2>2 DEF LeaseElapses, LeaseKept, Finished
<1>5. ASSUME NEW i \in Items, NEW w \in Workers, CompleteWorkItem(w, i) PROVE Kept
  <2>1. Completed(items[i]).owner = NoOwner
    BY <1>0, UnleasedOwner DEF Completed
  <2> QED
    BY <1>5, <2>1, OwnedRowKept DEF CompleteWorkItem
<1>6. ASSUME NEW i \in Items, NEW w \in Workers, FailWorkItem(w, i) PROVE Kept
  <2>1. Exhausted(items[i]).owner = NoOwner
    BY <1>0, UnleasedOwner DEF Exhausted
  <2> QED
    BY <1>6, <2>1, OwnedRowKept DEF FailWorkItem
<1>7. ASSUME NEW i \in Items, NEW w \in Workers, NEW k \in WorkKinds,
             RetryWorkItem(w, i, k)
      PROVE  Kept
  <2> DEFINE row == IF RetryExhausts(items[i]) THEN Exhausted(items[i])
                    ELSE Retried(items[i], k)
  <2>1. Exhausted(items[i]).owner = NoOwner
    BY <1>0, UnleasedOwner DEF Exhausted
  <2>2. /\ Unleased(items[i], "RETRY_WAIT") \in WorkItem
        /\ Unleased(items[i], "RETRY_WAIT").owner = NoOwner
    BY <1>0, UnleasedFields, UnleasedOwner DEF WorkStatuses
  <2>3. Retried(items[i], k).owner = NoOwner
    BY <2>2 DEF Retried, WorkItem
  <2>4. row.owner = NoOwner
    BY <2>1, <2>3
  <2>5. Owns(items[i], w) /\ items' = [items EXCEPT ![i] = row]
    BY <1>7 DEF RetryWorkItem
  <2> HIDE DEF row
  <2> QED
    BY <2>4, <2>5, OwnedRowKept
<1>8. ASSUME NEW i \in Items, NEW w \in Workers, DeferWorkItem(w, i) PROVE Kept
  <2>1. /\ Unleased(items[i], "RETRY_WAIT") \in WorkItem
        /\ Unleased(items[i], "RETRY_WAIT").owner = NoOwner
    BY <1>0, UnleasedFields, UnleasedOwner DEF WorkStatuses
  <2>2. Deferred(items[i]).owner = NoOwner
    BY <2>1 DEF Deferred, WorkItem
  <2> QED
    BY <1>8, <2>2, OwnedRowKept DEF DeferWorkItem
<1>9. CASE UNCHANGED vars
  BY <1>9 DEF vars, LeaseKept
<1> QED
  BY <1>1, <1>2, <1>3, <1>4, <1>5, <1>6, <1>7, <1>8, <1>9 DEF Next, Claim, Finish

\* The leases of claimWorkItem exclude each other, and COMPLETED and EXHAUSTED
\* are final.
THEOREM LeasesExclusive == Spec => LeaseIsExclusive
<1>1. QInv /\ [Next]_vars =>
        [\A i \in Items :
            /\ items[i].status = "CLAIMED" /\ items[i].lease > 0 =>
                   items'[i].owner \in {items[i].owner, NoOwner}
            /\ Finished(items[i]) => items'[i] = items[i]]_vars
  BY LeaseKeptStep DEF LeaseKept
<1> QED
  BY <1>1, QInvAlways, PTL DEF Spec, LeaseIsExclusive
=============================================================================
