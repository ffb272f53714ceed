# A TLA+ model of the MUX payment runtime

MUX holds agent accounts, accepts payment requests over HTTP, settles them on
Solana through durable workers over PostgreSQL, watches what comes in, and tells
subscribers. This directory models the parts where money, a key or a message can
be lost, doubled or misattributed: by processes that crash, stall and race, by
clients that repeat themselves, by a network that delays, drops and expires
transactions, and by providers that answer as they like. TLC checks small
instances; TLAPS proves the main safety properties for all values of the
constants.

## 1. The system

| Component | State | Hard behaviours | Module |
|---|---|---|---|
| Creation, policy, approval, refunds (`payments-v2.ts`, `v2-management.ts`, `v2.ts`, `v2-admin.ts`, `core/policy.ts`, `routing-v2.ts`) | payments, policies, approvals, reservations, idempotency records | reads before the transaction; aggregates racing finalization; replays | `SpendControl` |
| Durable work queue (`packages/db/src/v2.ts`) | `durable_work_items` | lease expiry racing a late call; attempt budget and one lease recovery | `WorkItems`, `WorkQueue` |
| Outgoing worker (`outgoing-v2.ts`), lifecycle transactions (`v2.ts`, `payment-lifecycle-v2.ts`), Solana executor (`v2-outgoing.ts`) | payments, attempts, reservations, evidence; the network | crash between any two awaits; work on an expired lease; READ COMMITTED reads followed by updates by id; RPC reads that are no snapshot | `PaymentExecution` |
| Operator control plane (`v2-operations.ts`) | `operational_exceptions` | commands racing workers; old evidence | `PaymentExecution` |
| x402 (`x402-service.ts`, `x402-executor.ts`, `x402-protocol.ts`, `x402-signing.ts`) | payments and attempts; the paid resource | the paid request is repeated; the provider changes its price and names any transaction; nothing proves the absence of an effect | `X402Payments` |
| Incoming reconciliation (`incoming.ts`, `solana-rail/incoming.ts`, `db/index.ts`) | checkpoints, issues, incoming payments | exact lease comparison against an in-flight renewal; crash before the cursor is saved; lagging nodes | `IncomingReconciliation` |
| Receive requests (`receives.ts`, `db/index.ts`) | receive requests | match against expiry and cancellation; transfers seen before they are confirmed | `ReceiveTables`, `ReceiveNotifications` |
| Webhooks (`webhooks.ts`, `v2-operations.ts`, `webhook-events.ts`) | events, deliveries, subscriptions | at-least-once delivery, overlapping batches, archived subscriptions | `ReceiveNotifications` |
| Accounts and credentials (`accounts.ts`, `auth.ts`, `v2-management.ts`, `v2-admin.ts`) | accounts, credentials, recovery envelopes | lost answers; concurrent retries, rotations and recoveries | `Credentials` |
| Rate limits, capacity, routes (`app.ts`, `capacity.ts`, `v2-admin.ts`) | rate limit buckets | deletion of buckets while late callers come; revocation while a request waits | `RateLimits`, `AccountAccess` |

`PROJECT.json` lists every component with its status, and every hazard at the
line where it bites with the properties that cover it.

How they interact: a request passes the limits and is authenticated
(`AccountAccess`). A creation judges the policy, and in one transaction inserts a
payment, a HELD reservation, attempt 1 and a work item (`SpendControl`). A worker
claims the item (`WorkQueue`), drives the attempt to the network, and hands the
item back: completed, retried for reconciliation, deferred for lack of capacity,
or failed (`PaymentExecution`, `X402Payments`). An item that spends its budget
puts the payment in front of an operator. A transfer to an account is found by
the incoming worker (`IncomingReconciliation`) and stored in the transaction that
also matches a receive request and enqueues events, which the webhook worker
delivers (`ReceiveNotifications`).

## 2. Modules

| Module | Models |
|---|---|
| `WorkItems` | one row of the queue and what each queue operation does to it |
| `WorkQueue` | the queue by itself: the abstract specification of what workers may rely on |
| `PaymentExecution` | one payment, its attempts, reservation, evidence, exception and items, any number of workers, the network, account status and operators |
| `SpendControl` | creation, refund, policy and approval of the payments of one account |
| `X402Payments` | payments for an x402 resource on top of `WorkItems` |
| `IncomingReconciliation` | discovery of transfers to one account |
| `ReceiveTables`, `ReceiveNotifications` | the transactions on money received; their composition with agent, incoming worker and webhook worker |
| `RateLimits` | the limiter by itself: the abstract specification of what callers may rely on |
| `Credentials`, `AccountAccess` | administrative calls about an account; their composition with the limiter and with requests |
| `MC...` | instances for TLC |
| `...Proofs`, `PaymentSteps` | theorems (section 4) |

### WorkItems and WorkQueue

A row is `[status, kind, owner, lease, attempts, recoveries]`. `lease` counts
the ticks left before `lease_expires_at`; 0 means expired. `RETRY_WAIT` rows
become due at an arbitrary later moment. `Claimable` and `FinalLeaseExpired` are
the two queries of `claimWorkItem`; `Claimed`, `Completed`, `Retried`,
`Deferred` and `Exhausted` are the updates. A claim call first exhausts every
row of its kind whose last recovery lease ran out, and then takes one candidate.
`WorkQueue` adds two history variables, `claims` and `deferrals`.

### PaymentExecution

The database rows are variables (`payment`, `attempts`, `nAttempts`,
`reservation`, `evidence`, `exception`, `items`), `chain` is what the network
will do with each prepared transaction, and `workers` holds the local state of
each process: its program counter, the view it has read, and what it is about
to write. Each `await` that touches shared state is a step of its own, so a
worker acts on what it read earlier. The steps follow `processClaimWithLease`
in order:

`load, view` (findPaymentView) → `guardPrepare` → `prepare` → `persistPrepared`
→ `signingRequest` → `guardSign` → `sign` → `persistSigned` → `completeRequest`
→ `recheck` → `guardSubmit` → `observe` → `send` → `update, project, retry` or
`finalizeCheck, finalizeWrite, complete`; on the reconciling side `reconcile` →
`height`; on errors `rejectRequest` → `failure`.

What is abstracted, and why it is harmless:

- A prepared transaction is named by its attempt and the worker that prepared
  it. A worker prepares a second time only if its first transaction was never
  made durable, and such a transaction is never sent, so reusing the name after
  a crash loses nothing.
- `findPaymentView` is torn at the start of a claim (`LoadPayment`, then
  `LoadView`). Views read in the middle of a claim are one step: only the
  payment's row version is used, in a check that an older version just fails.
- The account status and the view of `ensureActiveBeforeEffect` are read in one
  step. The reads of `updatePaymentExecution` are merged with its compare-and-set.
- `finalizeV2Payment` and `abortPreEffectPayment` are two steps, because they
  read without locks at READ COMMITTED and update by id. Operator commands are
  one step: they lock the exception row, and the payment row.
- The order in which a worker polls kinds is left open.
- `createV2Payment` is the initial state. The signing request's effect-hash
  check cannot fail (a request is created for an effect that is already
  durable) and is left out. `executor.reconcile` exists in every runtime. The
  external id rewritten at `outgoing-v2.ts:758` differs only for x402.
- Timeline, webhook and platform cost rows are not modelled: no guard of this
  code reads them. Chain forks are not modelled.

`Stalls` lets a worker outlive its lease (heartbeat failures are only logged).
`RpcSnapshot` says that no block lands between the two RPC reads of one call;
the code does not guarantee it, and the run `rpc_race` shows what then happens.

### SpendControl

A call (`createPayment` or `createRefund`) reads the idempotency record, the
route, the policy with its aggregates and the balance on the rail, one step
each and without a lock. `BeginCreate` then takes the account row (`lock`), and
`ReadAggregate` reads the four sums of the transaction one statement at a time,
because `finalizeV2Payment` does not take that lock and may commit in between.
`CommitCreate` is the rest of the transaction, from the evaluation to the
inserts. Operators create, replace and activate policies, switch the approved
destination and the account, and decide approvals; `ReadForApproval` is the
balance read before `decideApproval`. `BeginCreate` also repeats the checks of
`assertSettlementContextIsCurrent`, whose outcome is left open. Amounts are in
units of the denomination, `units` in those of the settlement asset, with the
economic mapping between them. `getRefundedAtomic` and the sum in the transaction
count the same refunds (`Refunded`), at different moments.

The execution of a payment is abstracted to `Land` (the transfer happens, whatever
is recorded), `finalizeV2Payment`, `updatePaymentExecution`, and the ways into and
out of review. The guards are as weak as the code's are once workers overtake each
other: they compare an attempt by reads that may be stale, so any payment that was
agreed to can be finalized again, executed again after it FAILED, or land after it
was given up. `noEffect` is history: the outcomes without effect a payment ever had.
What happens to a payment after it has settled counts as a switch, so that
`MaxSwitches` bounds it together with what operators change.

### X402Payments

`Discover` and `CreatePayment` are the service, the other steps the executor
inside the outgoing worker: `prepare` (the price is asked again and must still
be the approved one), `sign` in both fee payer modes with the signing request
around it, the paid request and its answer, the look at the chain, and
reconciliation, which looks at a stored transaction id or repeats the paid request.
A finalization is a check and a write, as in `PaymentExecution`. A signed
transaction is named by payment, worker and offer. x402 never proves that there was
no effect, so there is no replacement. One call is made per payment. Account
status, capacity and approval are left out, since they are in `PaymentExecution`
and `SpendControl`. `signFeePayer` and `stalls` (workers may outlive their leases)
are facts of a deployment, chosen at the start.

Three behaviours of the code are in the model and shape its properties. FAILED is
no terminal outcome of an attempt (`Terminal`): after a crash between finalization
and completion, a payment that failed before it was signed is executed again, with
its reservation released. So `NoReleaseOnceSent` speaks of the step that releases
funds, and not of every state with a transaction sent. A CONFIRMED attempt may be
overwritten by UNKNOWN with another transaction id, because the re-read before the
paid request does not compare the outcome. And in partial-sign mode a wrong id that
the provider once named is the only one looked at afterwards, so such a payment can
only end in review.

### IncomingReconciliation

`partition` is the checkpoint row with cursor and lease, `chain` the signatures
of the account from old to new. A worker claims the partition, scans from the
cursor (a node may lag, a transaction may be unreadable), stores transfers and
issues oldest first, saves the cursor and releases. Saving and releasing name
the owner and the exact lease end, so they may also fail while a renewal is on
its way; `Written` is that choice. Pages of signatures are abstracted to where a
listing ends (`collectHistory`): at the cursor, or earlier, because a page that
comes short ends the listing as well and the cursor then jumps over the rest. The
constant `WholeHistory` excludes this; the code does not, and
`IncomingReconciliation_short_page.cfg` shows what then happens. Issues are claimed without a lease on a
counter that moves with the claim; a deferral gives the claim back.

### ReceiveTables and ReceiveNotifications

`ReceiveTables` holds the transactions as operators on a value `db`: storing a
transfer with matching and enqueueing, expiry on read, cancellation, and the late
matching of managed payments. `ReceiveNotifications` runs them against the agent,
the chain, confirmations by the outgoing side, and the webhook worker with its
own lease queue. A batch of deliveries is a `Promise.all`: when one call rejects
the process polls again while its other calls go on under the same owner name;
`busy` and `calls` keep the two apart. Amounts keep their unit: cents for V1
requests and for transfers, `AtomicPerCent` times as many for V2 requests.
Matching expires overdue requests in passing without an `expired` event, as the
code does. The block time of a transfer may lie before or after the moment it is
seen. Late matching takes all candidates at once: the batch of 50, oldest first, is
left out. A candidate that the matching itself refuses stays a candidate, so
`ManagedPaymentMatched` speaks of a system with fewer than 50 of these.

### RateLimits, Credentials and AccountAccess

`RateLimits` is `consumeRateLimit`: a caller reads the clock, may stall, and then
counts in the window it computed while some old rows are deleted. The assumption
`Window[b] + MaxStall <= Retention` is the comment above
`RATE_LIMIT_RETENTION_SECONDS` put into a formula. `admitted` is history.

In `Credentials` an administrative call is a process with one transaction or read
per step; calls with the same idempotency key may run at once, and any call may
be lost with its answer (`Lose`). `delivered`, `spent` and `recovered` are
history: which keys reached a caller, whose envelope was opened,
acknowledged or deleted after its expiry, and how often each was recovered. There is one account; a second
provisioning key would make another one, so that call ends. Idempotency records
are inserted with their credential and never deleted, and are read off the
credentials. A rotation keeps the scopes, drops the expiry and does not ask for
an ACTIVE account; provisioning compares the expiry of an envelope with the time
the call began. All three are what the code does.

`AccountAccess` adds requests: the hook that counts a request, authentication
with scope, the account's own limits on some routes, the comparison of the
account in the path, and the handler; and workers that acquire capacity. Every
route for agents registered in `app.ts` and `v2-operations-routes.ts` is a
definition of its own, mapped to its registration, with its scope, its limit and
whether its path names the account, and so are operators' routes about policies,
approvals, destinations and exceptions; `AllRoutes` is the set of them. The calls of `Credentials` pass the same hook in the code; they are not
counted here, and the requests for operators' routes stand for their load.

## 3. Runs

| Run | Instance | Shows |
|---|---|---|
| `work_queue` | 2 workers, 2 items, 2 attempts, leases of 2 ticks, 2 deferrals | `BudgetRespected`, `ClaimsBounded`, `NoStrandedItem`, `LeaseIsExclusive`, and under fairness `EventuallyFinished` |
| `review` | executor and reconciler, 1 route, 2 attempts, 1 deferral, 2 account changes, operators, any RPC timing | `ConfirmedHasEffect`, `TerminalNotHeld`, `NoOrphanedPayment`, and under fairness `EventuallySettled` |
| `replacement` | executor and reconciler, 2 routes, 2 attempts, 2 account changes, no operators | `AtMostOneEffect`, `SupersededAttemptsAreDead`, `SentOnlyIfDurable`, `NoEffectProofIsTrue` |
| `executors_stall` | 2 executors that may outlive their leases, 1 route | `AtMostOneEffect`, `PreparedEffectImmutable`, and `ImplementsWorkQueue`: the workers use the queue as `WorkQueue` specifies it |
| `reconciler_race` | 2 reconcilers that may outlive their leases, 2 routes, 3 attempts, operators, from the hand-over of an UNKNOWN attempt (`MCReconcilerRace`) | `SupersededAttemptsAreDead` |
| `spend` | 2 clients, 2 calls, 2 keys, payments of 1 and refunds of 2 out of 3, one earlier payment that has landed and is not yet finalized, 2 policies, 2 routes, dust, 1 switch, clock to 1 (0.9 million states) | `AdmissionWithinLimits`, `RefundsBounded`, `AnswersAreFaithful`, `ApprovalGovernsFunds` |
| `x402` | 2 workers, one payment beside an earlier one of the same price, 3 offers and one change, both fee payer modes, with and without stalls, 2 attempts (1.7 million states) | `SettledOnceAsApproved`, `ConfirmedByOwnSettlement`, `NoReleaseOnceSent` |
| `incoming` | 2 workers, 2 transfers, one of them hard to read, whole histories, 1 retry, 1 fault | `NoTransferLost`, `InspectionsBounded`, `CursorHandedOver`, and under fairness `EventuallyAccounted` |
| `notifications` | 1 request with an expiry, 1 transfer of three kinds, 1 subscription, 1 webhook process with 2 calls, 2 attempts, 1 fault, clock to 3 | `PaidAsAsked`, `OutcomesAreFinal`, `SendsBounded`, and under fairness `ManagedPaymentMatched` and `EventuallyAnnounced` |
| `access` | 2 administrative calls and 2 requests at a time, 1 key, 2 sets of terms, windows of 2 with a limit of 1, five workloads | `OneSuccessor`, `SecretsAccountedFor`, `RecoveredOnce`, `WithinLimit`, `BarredIsNotServed` |

`reconciler_race` starts where an executor has left attempt 1 UNKNOWN and its
item in RETRY_WAIT for reconciliation (`HandedOver`, which `Spec` reaches in 18
steps), and no executor is up. Three claims are needed before two reconcilers
can both insert a replacement for the same attempt; from the initial state that
race lies beyond what TLC can enumerate.

Two runs expect a violation. Each states what a document says, and finds a
behaviour of the code that does otherwise:

| Run | The document | The code |
|---|---|---|
| `rpc_race` | no unsafe replacement transaction (`architecture.md:116`) | a transaction that lands between the signature lookup and the height read is proved to have no effect, and is replaced |
| `receive_scale` | exact-amount receive intents (`api.md:56`) | a V2 request is stored at the scale of its denomination and compared with cents: another amount pays it, and its own does not |

Five further configurations are kept beside them. TLC finds each property
violated, for the same kind of reason:

| Configuration, property | The document | The code |
|---|---|---|
| `PaymentExecution_reexecution.cfg`, `AmbiguousRetainsReservation` | ambiguous attempts retain their reservation (`architecture.md:116`) | after a crash between finalization and completion, a FAILED payment is executed again with its reservation released |
| `PaymentExecution_abort_race.cfg`, `NoEffectProofIsTrue` | reservations are released only on an outcome that permits it (`architecture.md:164`) | an abort passes its check, a stalled executor gets its transaction out, and the abort still closes the payment |
| `PaymentExecution_submitted_expiry.cfg`, `ReconciledProofIsAccepted` | `SUBMITTED --> FAILED` (`architecture.md:105`) | a no-effect proof for a SUBMITTED attempt is refused every time |
| `PaymentExecution_closed_unresolved.cfg`, `NoTerminalHeldReservation` | the no-terminal-held-reservation invariant (`operations.md:98`) | closing unresolved leaves a TERMINAL payment with a HELD reservation |
| `MCSpendControl_refund_replay.cfg`, `ReplayReturnsOriginal` | a safe replay returns the original payment (`architecture.md:162`) | a replayed refund is refused when the original has no room left, before the replay is recognised |

A sixth, `IncomingReconciliation_short_page.cfg`, drops `WholeHistory`, on which no
document commits itself: a page shorter than the limit ends a listing above the
cursor, the newest signature becomes the cursor all the same, and `NoTransferLost`
is violated.

**Bounds.** `MaxAttempts` (10 in the code) is 1, 2 or 3: 2 distinguishes the first
claim, the last and the recovery, and every test on the counter is a comparison
with the maximum. The same holds for the 8 retries of an issue. `LeaseTicks` is 2
where renewal matters and otherwise 1. Two routes give one replacement. Two
workers, clients or calls are enough for every pairwise race of check and write;
the theorems cover any number. In `spend` two payments reach the budget and the
cap and two refunds do not fit the original. In `access` a behaviour does one of
five workloads (several calls about credentials, or requests while credentials
change), so that the product of the two stays small; the windows, the stall and
the retention meet at their boundary. `Max...` bounds name every otherwise endless
action of clients, operators, clocks and faults. Deadlock is checked in
`incoming`; the other systems stop when everything is settled or the bounds are
spent. Symmetry is used only in runs without liveness.

**Fairness.** Workers are polled by a timer (`worker.ts`) and restarted, so a
claim that stays possible, and the next step of a claim in progress, eventually
happen (weak fairness). A lease nobody renews runs out, and a back-off elapses.
In `WorkQueue` the owner of a lease eventually finishes or stops renewing (strong
fairness, because renewals interrupt the last tick). In `notifications` only late
matching and the webhook worker are fair: an account that is not ACTIVE is not
scanned, and an inspection may be given up, so that a transfer need never be
stored, and `ManagedPaymentMatched` begins when it is. Nothing is assumed of the
network, of account management, agents, endpoints or operators. Deferrals and
faults are finitely many: endless backpressure really does postpone a payment, a
delivery or an inspection for ever. No liveness is claimed for provisioning:
concurrent retries may mark each other's account PROVISIONING_FAILED.

**Where a property is checked, and where not.** `NoEffectProofIsTrue` is checked
without operators, who may resolve with evidence recorded for an earlier failed
attempt, without stalled executors (see the abort race), and with one executor.
Two executors can run the abort race without stalling, once there is a
replacement: item 1, left CLAIMED by an executor that died, is claimed again and
follows the last attempt, on which the owner of item 2 is at work as well; the
abort of one passes its check, and the other signs and sends. `NoOrphanedPayment`
is checked without stalled executors and with one route: an executor that
outlived its lease may move a payment from REVIEW_REQUIRED back to RECONCILING
while the exception stays open, or execute again an attempt that a reconciler
has just closed, whose item is then completed. `SecretsAccountedFor` and `RecoveredOnce` speak of rotations
whose idempotency key is used for one credential: used for two at once, the
second replacement shares the envelope row of the first and has none of its own.
`EventuallyAnnounced` asks for nothing after a subscription is archived: its
pending rows are neither claimed nor exhausted. `NoReleaseOnceSent` is claimed for
deployments without stalls: a stalled worker signs and sends between check and
write of a finalization to FAILED, as in the abort race.

Of spending, three things are not claimed, because they do not hold. Held funds may
exceed the balance, which is read before the transaction that reserves.
`AdmissionWithinLimits` compares the budget with HELD reservations only: a payment
confirmed between the first two statements is in neither sum. And
`RefundsBounded` counts the refunds for which no outcome without effect was ever
recorded: one that was proved to have no effect (see `rpc_race`), or FAILED and was
executed again, has freed its share and may land all the same.

## 4. Proofs

Eight modules hold theorems. `PROJECT.json` lists the results.

**The queue.** `WorkQueueProofs` proves every safety property of `work_queue` for
all constants. The inductive invariant `QInv` says of every row that a CLAIMED
row has spent at least one attempt, that a recovery is spent only at the full
budget, that a waiting row has something left to spend, and that the number of
its claims is exactly `attempts + recoveries + deferrals`. So a deferral always
gives back what the claim took, and `ClaimsBounded` is arithmetic.

**Execution.** `PaymentExecutionProofs` proves, for any sets of workers and
reconcilers and any number of routes, with or without stalls:

- `TypeCorrect`, `SentIsDurable`, `ConfirmationIsReal`, `TerminalReleasesFunds`
  and `EffectsImmutable`, whatever the timing of RPC reads;
- `SupersededAlwaysDead` and `PaidAtMostOnce`, under the assumption `RpcSnapshot`.

None of these is inductive by itself. The invariant
`IInv == TypeOK /\ WorkersInv /\ RowsInv /\ OutcomeInv` says what a worker's
stale view still guarantees at each program counter. Its core is that what a
worker relies on only grows: row versions never decrease, a persisted effect
never changes, a signed attempt stays signed, and a dead transaction stays dead.
A step that only lets the rows grow preserves every worker's part
(`GrowthKeepsWorkerInv`), so that each action needs an argument only for the
worker that takes it and for the rows it writes. `PaymentSteps` defines `IInv`
and shows that each action but the claim keeps it, and that each action is a step
of the queue; `PaymentExecutionProofs` has the claim, whose sweep may exhaust
several rows, what holds of a single attempt, and the theorems.
`PaidAtMostOnce` combines durability (what is executed is the effect of an
attempt), immutability (one effect per attempt) and `SupersededAlwaysDead`
(every earlier attempt is dead).

`ExecutionImplementsQueue` is the refinement `ImplementsWorkQueue`, with or
without stalls: the rows of attempts that do not exist yet are absent (`Queued`),
six actions touch the rows, and each is an operation of `WorkQueue` with
`claims` read off the row. What `WorkQueueProofs` shows of the queue therefore
holds of payments (`ExecutionInheritsQueue`), and if no worker stalls, two workers
are never busy with the same item (`WorkIsExclusive`).

`NeverOrphaned` and `NoEffectIsProved` are about a payment without a replacement
attempt, and assume that workers do not stall. Then the heartbeat keeps the only
lease alive, whoever is busy owns item 1, and all others are idle (`SoleInv`): an
item is completed only on a payment that rests, and nobody can sign between the
check and the write of an abort (`HarmlessInv`, with `RpcSnapshot` and without
operators). Both end with the first replacement, for the reasons given in
section 3.

**The limiter.** `LimitsHold` (`AccountAccessProofs`) needs that a row counts at
least what was admitted in its window, that a missing row of a window that
admitted something is older than the retention, and that a reading is no older
than `MaxStall` (`LimiterInv`). A late caller therefore never meets a window
whose row was deleted.

**Access.** `AccountAccessProofs` proves all five properties of `access` for any
calls, callers, keys, terms, routes and workloads. `AccessImplementsLimiter`
shows that every step of the composition is a step of the limiter or leaves it
alone, and `AccessWithinLimit` follows from `LimitsHold`. The rest needs
`AccessInv == LimiterInv /\ CredInv /\ AccountFirst /\ RequestInv`. `CredInv`
says that an envelope is the only one of its key and belongs
to a credential made with it, that a credential has its envelope until that is
used up (`Kept`), that no envelope of a key is left once it was recovered
(`Opened`), and that a predecessor is revoked and has one successor; and, of each
call, what its program counter lets one rely on (`CallOK`): a call about to open
an envelope, for example, names a credential of its own operation and key.
`RequestInv` says
that a barred request to the caller's own account cannot have passed
authentication.

**Spending.** `SpendControlProofs` proves the four properties of `spend` for any
clients, keys, intents, policies, routes and payments that exist at the start.
`SpendInv` says that the rows agree with their decision and approval, that a key
names one payment, that the refunds which still have their share fit the
original, and of a call inside the transaction (`Judging`) that its policy is the
active one, its key is free, and the sum of held funds and the number of payments
it has read are not less than what is there now (payments that once FAILED left out
of the number): while it holds the account lock nobody else adds a payment, and an
execution, which takes no lock, only makes the two smaller. The number of
`switches` is no hypothesis anywhere, so late executions are covered in any number.
Sums are recursive functions, and what they compute is shown by the least index
at which it fails (`Least`, `Upwards`), which needs no induction rule.

**x402.** `X402Proofs` proves the three properties of `x402`. `X402Inv` says that
a prepared effect has the terms that were approved and is written once, by a
worker that saw the version of a row without one; that only the signed effect of
a row is ever sent; and that a worker's view is no newer than the row.
`SentStaysHeld` (`NoReleaseOnceSent`) also needs that without stalls whoever is busy
with a payment owns its item, so nobody else is (`Sole`): funds are released by the
write of a finalization to FAILED, and the row is then as unsigned as it was when
`handleFailure` read it.

**Incoming.** `IncomingProofs` proves the three safety properties of `incoming`,
`NoTransferLost` under the assumption `WholeHistory`.
`IncomingInv` has two parts. `ScanInv`: everything up to the cursor is accounted
for, a worker knows what it has still to store, and only the owner's scan began
at the cursor; what is accounted for stays so, and a worker that lost its lease
does no harm. `CountOK`: claims of an issue that are open at the same time carry
different counts, all below the row's, and together with the inspections done
they are covered by the row; so a claim that is given back gives back its own.

**Receiving and webhooks.** `ReceiveProofs` proves the three safety properties of
`notifications`. `MoneyInv`: a PAID request and its transfer name each other, the
amount and the time fit, and no two requests that exist share a reference.
`DeliveryInv`: what was sent of a delivery, and the calls that may still send it,
are covered by the attempts of the row. `PaymentsAreAsAsked` has the hypothesis
`ScalesAgree`, that `/v2` requests for a particular amount are stored at the scale
of transfers; without it the run `receive_scale` shows a violation.

Assumptions: those named in the modules (`NoOwner` is not a worker, positive
bounds, reconcilers are workers, windows and stalls within the retention, finitely
many calls, payments and transactions that exist at the start are as the program
leaves them) and, where said, `RpcSnapshot`, no stalled workers, `WholeHistory` and
`ScalesAgree`. Leaves are left to Zenon unless they need arithmetic or records, and
then name SMT (`WorkQueueProofs` tries SMT first).

Only model-checked: the liveness properties `EventuallyFinished`,
`EventuallySettled`, `EventuallyAccounted`, `ManagedPaymentMatched` and
`EventuallyAnnounced`, which are out of the prover's reach (fairness and
`ENABLED`); and `NoEffectProofIsTrue` after a replacement, which is checked with
one executor.

## 5. Not modelled

- Recipients: one row per operation, copied into a payment when it is created.
  `updateRecipient` compares the wallet with the managed accounts in a read
  before the write, and the V1 update carries no row version.
- Fee sponsorship and platform cost: accounting beside the payment; no guard of
  the modelled code depends on more than success or failure of preparation.
- Custody keys, encryption, hashing, signatures of webhooks, transaction
  encoding: cryptography and formats.
- The V1 payment service (`payments.ts`, `outgoing.ts`), which no runtime
  instantiates.
- Configuration, runtime identity, metrics, validation and serialisation of HTTP
  messages, read models, SDK, scripts: they change none of the modelled state.
- Chain forks, and clocks of different processes that disagree by more than
  `MaxStall`.
