---------------------------- MODULE SpendControl ----------------------------
(***************************************************************************)
(* How a payment of one account comes to exist and to hold funds: payment  *)
(* and refund creation (apps/api/src/payments-v2.ts over createV2Payment   *)
(* of packages/db/src/v2.ts), the spend policy, the approved destination   *)
(* and the approvals an operator decides (packages/db/src/v2-admin.ts).    *)
(*                                                                         *)
(* A creation reads the idempotency record, the policy and the balance on  *)
(* the rail without any lock, and then runs one transaction under the      *)
(* account row lock that reads four aggregates, one statement after the    *)
(* other.  Finalization takes no account lock, so payments change under    *)
(* both kinds of reads.  The execution of a payment is abstracted to its   *)
(* effect on the rail and its committed outcomes; PaymentExecution has the *)
(* detail.                                                                 *)
(***************************************************************************)
EXTENDS Integers, Sequences, FiniteSets

CONSTANTS Clients,         \* concurrent requests of the account
          Keys,            \* idempotency keys
          Intents,         \* what requests ask for: [kind, amount], the
                           \* amount in atomic units of the denomination
          OriginalAmount,  \* the confirmed payment that refunds refer to
          Routes,          \* ACTIVE settlement routes, numbered by priority
          DefaultRoute,    \* configuredDefaultRouteId, or 0
          Underway,        \* payments that exist at the start
          Policies,        \* limits an operator may choose
          FirstPolicy,     \* limits of the policy active at the start
          Unlimited,       \* a limit that is null
          Numerator,       \* economic mapping: settlement units ...
          Denominator,     \* ... per unit of the denomination
          InitialUnits,    \* settlement units on the rail at the start
          Dust,            \* settlement units that a stranger may send
          ApprovalTtl,     \* approvalTtlSeconds
          MaxCalls,        \* bound on requests
          MaxSwitches,     \* bound on switches
          MaxTime          \* bound on the clock

\* A limit is a number or null.
Limit == Nat \cup {Unlimited}
Limits == [max: Limit, budget: Limit, window: Limit, cap: Limit, threshold: Limit]

ASSUME SpendControlAssumption ==
    /\ Intents \subseteq [kind: {"PAY", "REFUND"}, amount: Nat \ {0}]
    /\ Unlimited \notin Nat /\ Policies \cup {FirstPolicy} \subseteq Limits
    /\ OriginalAmount \in Nat
    /\ Routes \subseteq Nat \ {0} /\ DefaultRoute \in Nat
    /\ {Numerator, Denominator} \subseteq Nat \ {0}
    /\ {InitialUnits, Dust, ApprovalTtl, MaxCalls, MaxSwitches,
        MaxTime} \subseteq Nat

VARIABLES now,         \* the clock
          active,      \* the account is ACTIVE
          approved,    \* the destination is an ACTIVE approved destination
          policies,    \* spend_policies: version i is policies[i]
          payments,    \* payments in creation order, with their reservation,
                       \* approval and idempotency record
          units,       \* settlement units of the account on the rail
          lock,        \* the call whose transaction holds the account row lock
          calls,       \* local state of each request
          decider,     \* local state of the operator's decideApproval call
          started,     \* history: requests started
          switches     \* history: what the operator or a stranger changed, and
                       \* what happened to a settled payment

vars == <<now, active, approved, policies, payments, units, lock, calls,
          decider, started, switches>>

NoLock == "none"
NoKey == "none"

Aggregates == <<"confirmed", "held", "unresolved", "count">>

Idle == [pc |-> "idle", key |-> NoKey, intent |-> [kind |-> "PAY", amount |-> 0],
         version |-> 0, at |-> 0, due |-> 0, settled |-> 0,
         read |-> [a \in {} |-> 0], answer |-> 0]

Refused == 0   \* the answer of a call that ended in an error

Waiting == [pc |-> "idle", payment |-> 0, settled |-> 0]

Init ==
    /\ now = 0
    /\ active = TRUE
    /\ approved = TRUE
    /\ policies = <<[limits |-> FirstPolicy, status |-> "ACTIVE"]>>
    /\ payments = Underway
    /\ units = InitialUnits
    /\ lock = NoLock
    /\ calls = [c \in Clients |-> Idle]
    /\ decider = Waiting
    /\ started = 0
    /\ switches = 0

-----------------------------------------------------------------------------
(* Amounts, aggregates and the policy *)

\* A recursive function rather than a fold, so that it can be reasoned about.
Total(a) ==
    LET sum[n \in 0..Len(a)] == IF n = 0 THEN 0 ELSE sum[n - 1] + a[n]
    IN  sum[Len(a)]

\* Of the payments ps, those with the numbers chosen.
AmountOf(ps, chosen) ==
    Total([i \in DOMAIN ps |-> IF i \in chosen THEN ps[i].intent.amount ELSE 0])

CountOf(ps, chosen) == Total([i \in DOMAIN ps |-> IF i \in chosen THEN 1 ELSE 0])

NotSpent == {"REJECTED_BY_POLICY", "REJECTED", "FAILED", "EXPIRED"}

\* A payment counts in the rolling window that ends at time t.
InWindow(p, limits, t) ==
    limits.window = Unlimited \/ p.created >= t - limits.window

Held == AmountOf(payments, {i \in DOMAIN payments : payments[i].reservation = "HELD"})

Aggregate(a, limits, t) ==
    LET inWindow == {i \in DOMAIN payments : InWindow(payments[i], limits, t)} IN
    CASE a = "confirmed" ->
            AmountOf(payments, {i \in inWindow : payments[i].status = "CONFIRMED"})
      [] a = "held" -> Held
      [] a = "unresolved" ->
            AmountOf(payments, {i \in inWindow :
                payments[i].status \in {"REVIEW_REQUIRED", "CLOSED_UNRESOLVED"}})
      [] a = "count" ->
            CountOf(payments, {i \in inWindow : payments[i].status \notin NotSpent})

Refunds(ps) == {i \in DOMAIN ps : ps[i].intent.kind = "REFUND"}

\* A refund awaiting approval is left out of the refunded amount.
RefundsSettled(ps) ==
    AmountOf(ps, {i \in Refunds(ps) :
        ps[i].status \notin NotSpent \cup {"PROVED_NO_EFFECT", "AWAITING_APPROVAL"}})

\* What a further refund of the original payment must leave room for.
RefundsOf(ps) ==
    AmountOf(ps, {i \in Refunds(ps) :
        ps[i].status \notin NotSpent \cup {"PROVED_NO_EFFECT"}})

Refunded == RefundsOf(payments)

Exceeds(value, limit) == limit # Unlimited /\ value > limit

Denials(limits, amount, destination, read) ==
    {r \in {"DESTINATION", "PER_PAYMENT", "BUDGET", "COUNT"} :
        \/ r = "DESTINATION" /\ ~destination
        \/ r = "PER_PAYMENT" /\ Exceeds(amount, limits.max)
        \/ r = "BUDGET" /\ Exceeds(read["confirmed"] + read["held"]
                                    + read["unresolved"] + amount, limits.budget)
        \/ r = "COUNT" /\ Exceeds(read["count"] + 1, limits.cap)}

evaluateSpendPolicy(limits, amount, destination, read) ==
    IF Denials(limits, amount, destination, read) # {} THEN "DENY"
    ELSE IF limits.threshold # Unlimited /\ amount >= limits.threshold
         THEN "REQUIRE_APPROVAL" ELSE "ALLOW"

\* convertFromSettlementAtomicUnits: exact, or an error.
Representable(u) == (u * Denominator) % Numerator = 0
Logical(u) == (u * Denominator) \div Numerator
\* convertToSettlementAtomicUnits of an amount the executor will transfer.
Cost(amount) == (amount * Numerator) \div Denominator

ActivePolicy ==
    LET ids == {i \in DOMAIN policies : policies[i].status = "ACTIVE"}
    IN  IF ids = {} THEN 0 ELSE CHOOSE i \in ids : \A j \in ids : j <= i

Bound(key) == {i \in DOMAIN payments : payments[i].key = key}

\* The stored fingerprint is not compared.
SameKeySuffices(i, intent) == i \in DOMAIN payments

SameIntent(i, intent) == payments[i].intent = intent

-----------------------------------------------------------------------------
(* The rows of a payment: payments, reservations, approval_requests and     *)
(* idempotency_records.                                                     *)

\* ROUTING stands for SUBMITTED and RECONCILING too: no query here tells them
\* apart.
UnderWay == {"ROUTING", "REVIEW_REQUIRED"}

WithoutEffect == {"FAILED", "PROVED_NO_EFFECT"}

\* noEffect is history: the outcomes without effect once recorded.
Payment ==
    [key: Keys \cup {Underway[i].key : i \in DOMAIN Underway},
     intent: [kind: {"PAY", "REFUND"}, amount: Nat],
     created: Nat, decision: {"DENY", "ALLOW", "REQUIRE_APPROVAL"}, landed: BOOLEAN,
     noEffect: SUBSET WithoutEffect,
     status: UnderWay \cup NotSpent
                \cup {"AWAITING_APPROVAL", "CONFIRMED", "PROVED_NO_EFFECT", "CLOSED_UNRESOLVED"},
     reservation: {"NONE", "HELD", "CONSUMED", "RELEASED"},
     approval: {"NONE", "PENDING", "APPROVED", "REJECTED", "EXPIRED"}, expires: Nat]

\* The policy or an operator agreed to payment p.
Agreed(p) == p.decision = "ALLOW" \/ p.approval = "APPROVED"

\* Approval and payment agree on the decision.
Decided(p) ==
    /\ p.approval = "PENDING" <=> p.status = "AWAITING_APPROVAL"
    /\ p.approval \in {"REJECTED", "EXPIRED"} <=> p.status \in {"REJECTED", "EXPIRED"}

\* What holds of every payment row between transactions.
RowOK(p) ==
    /\ Decided(p)
    /\ p.approval # "NONE" => p.decision = "REQUIRE_APPROVAL"
    /\ Agreed(p) \/ p.status \in {"AWAITING_APPROVAL"} \cup NotSpent
    /\ Agreed(p) \/ (p.reservation = "NONE" /\ ~p.landed)
    /\ Agreed(p) /\ p.status \in NotSpent \cup WithoutEffect => p.status \in p.noEffect

\* A refund that has transferred or may transfer: one that was agreed to or
\* waits for an approval, unless an outcome without effect was recorded for it.
KeepsShare(p) == (p.status = "AWAITING_APPROVAL" \/ Agreed(p)) /\ p.noEffect = {}
Outstanding(ps) == AmountOf(ps, {i \in Refunds(ps) : KeepsShare(ps[i])})

\* Payments that exist at the start are as the program leaves them.
ASSUME UnderwayAssumption ==
    /\ Underway \in Seq(Payment)
    /\ \A i, j \in DOMAIN Underway : Underway[i].key = Underway[j].key => i = j
    /\ \A i \in DOMAIN Underway : RowOK(Underway[i])
    /\ Outstanding(Underway) <= OriginalAmount
    /\ NoLock \notin Clients

-----------------------------------------------------------------------------
(* createPayment and createRefund, before the transaction *)

Answer(c, a) == calls' = [calls EXCEPT ![c] = [Idle EXCEPT !.pc = "answered",
                              !.key = calls[c].key, !.intent = calls[c].intent,
                              !.answer = a]]
Fail(c) == Answer(c, Refused)

StartCall(c, key, intent) ==
    /\ calls[c].pc \in {"idle", "answered"}
    /\ started < MaxCalls
    /\ started' = started + 1
    /\ calls' = [calls EXCEPT ![c] =
           [Idle EXCEPT !.key = key, !.intent = intent,
                !.pc = IF intent.kind = "REFUND" THEN "refund" ELSE "lookup"]]
    /\ UNCHANGED <<now, active, approved, policies, payments, units, lock,
                   decider, switches>>

\* createRefund compares with what is refunded so far before createPayment
\* looks at the idempotency record.
CheckRefundable(c) ==
    /\ calls[c].pc = "refund"
    /\ IF calls[c].intent.amount + Refunded > OriginalAmount
       THEN Fail(c)
       ELSE calls' = [calls EXCEPT ![c].pc = "lookup"]
    /\ UNCHANGED <<now, active, approved, policies, payments, units, lock,
                   decider, started, switches>>

AnswerBound(c) ==
    LET i == CHOOSE j \in Bound(calls[c].key) : TRUE
    IN  Answer(c, IF SameIntent(i, calls[c].intent) THEN i ELSE Refused)

LookupIdempotency(c) ==
    /\ calls[c].pc = "lookup"
    /\ IF Bound(calls[c].key) # {}
       THEN AnswerBound(c)
       ELSE calls' = [calls EXCEPT ![c].pc = "route"]
    /\ UNCHANGED <<now, active, approved, policies, payments, units, lock,
                   decider, started, switches>>

\* An explicit preference (0 for none) or nothing, else the configured default,
\* else the first by priority; 0 when no route is left.
selectSettlementRoute(explicit, eligible) ==
    CASE explicit # 0 -> IF explicit \in eligible THEN explicit ELSE 0
      [] explicit = 0 /\ DefaultRoute \in eligible -> DefaultRoute
      [] OTHER -> IF eligible = {} THEN 0
                  ELSE CHOOSE r \in eligible : \A q \in eligible : r <= q

\* Each rail says which routes it can serve now; a refund prefers the route of
\* its original payment.  The recipient, the asset and the mapping of the
\* selected route are loaded, and any of them may be refused.  Which route it
\* is matters to PaymentExecution only.
SelectRoute(c) ==
    /\ calls[c].pc = "route"
    /\ \E eligible \in SUBSET Routes :
           LET explicit == IF calls[c].intent.kind = "REFUND" THEN DefaultRoute ELSE 0
           IN  \/ /\ selectSettlementRoute(explicit, eligible) # 0
                  /\ calls' = [calls EXCEPT ![c].pc = "policy"]
               \/ Fail(c)
    /\ UNCHANGED <<now, active, approved, policies, payments, units, lock,
                   decider, started, switches>>

\* The active policy.  The approved destination and the four aggregates that
\* createPayment reads around it decide nothing by themselves: the transaction
\* reads them again, and refuses unless it finds the same context and decision.
\* CommitCreate lets that comparison go either way.
ReadPolicy(c) ==
    /\ calls[c].pc = "policy"
    /\ IF ActivePolicy = 0
       THEN Fail(c)
       ELSE calls' = [calls EXCEPT ![c].pc = "balance", ![c].version = ActivePolicy]
    /\ UNCHANGED <<now, active, approved, policies, payments, units, lock,
                   decider, started, switches>>

\* An ALLOW decision is followed by a read of the balance on the rail, which
\* fails unless it is a whole number of units of the denomination; any other
\* decision does without, and the transaction does not use the balance.
ReadBalance(c) ==
    /\ calls[c].pc = "balance"
    /\ \/ calls' = [calls EXCEPT ![c].pc = "create", ![c].due = now + ApprovalTtl,
                          ![c].settled = IF Representable(units) THEN Logical(units) ELSE 0]
       \/ ~Representable(units) /\ Fail(c)
    /\ UNCHANGED <<now, active, approved, policies, payments, units, lock,
                   decider, started, switches>>

-----------------------------------------------------------------------------
(* createV2Payment *)

\* The account row is read without FOR UPDATE.
ReadWithoutLock == TRUE

\* SELECT ... FOR UPDATE waits for the lock.
AccountRowFree == lock = NoLock

\* assertSettlementContextIsCurrent: the route that was chosen, its asset or its
\* mapping may have changed since; nothing else here depends on them.
SettlementContextIsCurrent == BOOLEAN

BeginCreate(c) ==
    /\ calls[c].pc = "create"
    /\ AccountRowFree
    /\ \E current \in SettlementContextIsCurrent :
         LET free == Bound(calls[c].key) = {}
             valid == policies[calls[c].version].status = "ACTIVE" /\ current
         IN  \/ /\ ~active \/ (free /\ ~valid)
                /\ Fail(c)
                /\ UNCHANGED lock
             \/ /\ active /\ ~free
                /\ AnswerBound(c)
                /\ UNCHANGED lock
             \/ /\ active /\ free /\ valid
                /\ calls' = [calls EXCEPT ![c].pc = "read", ![c].at = now]
                /\ lock' = c
    /\ UNCHANGED <<now, active, approved, policies, payments, units, decider,
                   started, switches>>

\* The aggregates of the transaction, one statement after the other at READ
\* COMMITTED.
ReadAggregate(c) ==
    /\ calls[c].pc = "read"
    /\ LET n == Cardinality(DOMAIN calls[c].read) + 1
           a == Aggregates[n]
       IN  calls' = [calls EXCEPT
               ![c].read = [b \in DOMAIN @ \cup {a} |->
                   IF b = a THEN Aggregate(a, policies[calls[c].version].limits, calls[c].at)
                   ELSE @[b]],
               ![c].pc = IF n = Len(Aggregates) THEN "commit" ELSE "read"]
    /\ UNCHANGED <<now, active, approved, policies, payments, units, lock,
                   decider, started, switches>>

RefundFits(intent) ==
    intent.kind = "REFUND" => intent.amount + Refunded <= OriginalAmount

Funded(amount, settled) ==
    amount <= settled - Held

NewPayment(c, decision) ==
    [key |-> calls[c].key, intent |-> calls[c].intent, created |-> calls[c].at,
     decision |-> decision, landed |-> FALSE, noEffect |-> {},
     status |-> CASE decision = "DENY" -> "REJECTED_BY_POLICY"
                  [] decision = "ALLOW" -> "ROUTING"
                  [] decision = "REQUIRE_APPROVAL" -> "AWAITING_APPROVAL",
     reservation |-> IF decision = "ALLOW" THEN "HELD" ELSE "NONE",
     approval |-> IF decision = "REQUIRE_APPROVAL" THEN "PENDING" ELSE "NONE",
     expires |-> IF decision = "REQUIRE_APPROVAL" THEN calls[c].due ELSE 0]

CommitCreate(c) ==
    /\ calls[c].pc = "commit"
    /\ lock' = NoLock
    /\ \/ LET intent == calls[c].intent
              decision == evaluateSpendPolicy(policies[calls[c].version].limits,
                              intent.amount, approved, calls[c].read)
          IN  /\ RefundFits(intent)
              /\ decision = "ALLOW" => Funded(intent.amount, calls[c].settled)
              /\ payments' = Append(payments, NewPayment(c, decision))
              /\ Answer(c, Len(payments) + 1)
       \/ Fail(c) /\ UNCHANGED payments
    /\ UNCHANGED <<now, active, approved, policies, units, decider, started,
                   switches>>

-----------------------------------------------------------------------------
(* The operator: policies, destinations, the account and approvals.  Each   *)
(* of these transactions takes the account row lock.                        *)

Retired(ps) == [i \in DOMAIN ps |->
    IF ps[i].status = "ACTIVE" THEN [ps[i] EXCEPT !.status = "RETIRED"] ELSE ps[i]]

createSpendPolicy(limits) ==
    /\ AccountRowFree
    /\ switches < MaxSwitches
    /\ switches' = switches + 1
    /\ policies' = Append(policies, [limits |-> limits, status |-> "DRAFT"])
    /\ UNCHANGED <<now, active, approved, payments, units, lock, calls,
                   decider, started>>

\* The expected version must be that of the active policy.
replaceSpendPolicy(limits, expected) ==
    /\ AccountRowFree
    /\ switches < MaxSwitches
    /\ switches' = switches + 1
    /\ expected = ActivePolicy
    /\ policies' = Append(Retired(policies), [limits |-> limits, status |-> "ACTIVE"])
    /\ UNCHANGED <<now, active, approved, payments, units, lock, calls,
                   decider, started>>

activateSpendPolicy(version) ==
    /\ AccountRowFree
    /\ policies[version].status = "DRAFT"
    /\ policies' = [Retired(policies) EXCEPT ![version].status = "ACTIVE"]
    /\ UNCHANGED <<now, active, approved, payments, units, lock, calls,
                   decider, started, switches>>

transitionAccount ==
    /\ AccountRowFree
    /\ switches < MaxSwitches
    /\ switches' = switches + 1
    /\ active' = ~active
    /\ UNCHANGED <<now, approved, policies, payments, units, lock, calls,
                   decider, started>>

\* createApprovedDestination and revokeApprovedDestination.
SwitchDestination ==
    /\ AccountRowFree
    /\ switches < MaxSwitches
    /\ switches' = switches + 1
    /\ approved' = ~approved
    /\ UNCHANGED <<now, active, policies, payments, units, lock, calls,
                   decider, started>>

\* decideApproval of the management service reads the balance on the rail
\* before the transaction that decides.
ReadForApproval(i) ==
    /\ decider.pc = "idle"
    /\ payments[i].approval = "PENDING"
    /\ Representable(units)
    /\ decider' = [pc |-> "approve", payment |-> i, settled |-> Logical(units)]
    /\ UNCHANGED <<now, active, approved, policies, payments, units, lock,
                   calls, started, switches>>

\* The status of the approval is not looked at.
AnyApproval(p) == p.approval # "NONE"

Undecided(p) == p.approval = "PENDING"

Approvable(p, settled) ==
    /\ Undecided(p)
    /\ p.expires > now
    /\ p.status = "AWAITING_APPROVAL"
    /\ active
    /\ Funded(p.intent.amount, settled)

decideApprove ==
    /\ decider.pc = "approve"
    /\ AccountRowFree
    /\ decider' = Waiting
    /\ IF Approvable(payments[decider.payment], decider.settled)
       THEN payments' = [payments EXCEPT ![decider.payment].approval = "APPROVED",
                             ![decider.payment].status = "ROUTING",
                             ![decider.payment].reservation = "HELD"]
       ELSE UNCHANGED payments
    /\ UNCHANGED <<now, active, approved, policies, units, lock, calls,
                   started, switches>>

\* REJECT and EXPIRE; neither looks at the expiry time.
decideClose(i, next) ==
    /\ AccountRowFree
    /\ Undecided(payments[i])
    /\ payments' = [payments EXCEPT ![i].approval = next, ![i].status = next]
    /\ UNCHANGED <<now, active, approved, policies, units, lock, calls,
                   decider, started, switches>>

-----------------------------------------------------------------------------
(* Execution: what the workers do to a payment that holds funds *)

Settled(p) == p.status \in {"CONFIRMED", "CLOSED_UNRESOLVED"} \cup WithoutEffect

\* A payment that was agreed to is executed, or what was sent takes effect.
\* Rarely that comes too late: a worker is overtaken by another, a FAILED payment
\* is executed again, or what was given up has been sent.
Affect(i, late) ==
    /\ Agreed(payments[i])
    /\ late => switches < MaxSwitches
    /\ switches' = IF late THEN switches + 1 ELSE switches
    /\ UNCHANGED <<now, active, approved, policies, lock, calls, decider, started>>

\* The transfer lands on the rail, whatever is recorded.
Land(i) ==
    /\ Affect(i, Settled(payments[i]))
    /\ ~payments[i].landed
    /\ units >= Cost(payments[i].intent.amount)
    /\ units' = units - Cost(payments[i].intent.amount)
    /\ payments' = [payments EXCEPT ![i].landed = TRUE]

\* finalizeV2Payment, and abortPreEffectPayment: the status and a reservation that
\* is still HELD, without the account lock.  The attempt is what they compare, by
\* reads that another worker can overtake, so no status of the payment rules an
\* outcome out.  (With a replacement attempt the payment stays as it is.)
finalizeV2Payment(i, status) ==
    /\ Affect(i, Settled(payments[i]) \/ (payments[i].landed /\ status # "CONFIRMED"))
    /\ status = "CONFIRMED" => payments[i].landed
    /\ payments' = [payments EXCEPT ![i].status = status,
                        ![i].noEffect = @ \cup ({status} \cap WithoutEffect),
                        ![i].reservation = IF @ # "HELD" THEN @
                                           ELSE IF status = "CONFIRMED" THEN "CONSUMED"
                                           ELSE "RELEASED"]
    /\ UNCHANGED units

\* updatePaymentExecution: the status its attempt projects to, whatever the
\* payment's status was, and no change of the reservation.  So a FAILED payment
\* that is executed again counts as spent, without funds held for it.
updatePaymentExecution(i) ==
    /\ Affect(i, Settled(payments[i]))
    /\ payments' = [payments EXCEPT ![i].status = "ROUTING"]
    /\ UNCHANGED units

\* Exhausted work sends a payment to review; an operator may close it
\* unresolved.  The reservation stays HELD.
Unresolve(i, from, to) ==
    /\ payments[i].status = from
    /\ payments' = [payments EXCEPT ![i].status = to]
    /\ UNCHANGED <<now, active, approved, policies, units, lock, calls, decider,
                   started, switches>>

\* Someone pays into the account's token account.
Deposit ==
    /\ switches < MaxSwitches
    /\ switches' = switches + 1
    /\ units' = units + Dust
    /\ UNCHANGED <<now, active, approved, policies, payments, lock, calls,
                   decider, started>>

Tick ==
    /\ now < MaxTime
    /\ now' = now + 1
    /\ UNCHANGED <<active, approved, policies, payments, units, lock, calls,
                   decider, started, switches>>

Request == \E c \in Clients :
    \/ \E key \in Keys, intent \in Intents : StartCall(c, key, intent)
    \/ CheckRefundable(c)
    \/ LookupIdempotency(c)
    \/ SelectRoute(c)
    \/ ReadPolicy(c)
    \/ ReadBalance(c)
    \/ BeginCreate(c)
    \/ ReadAggregate(c)
    \/ CommitCreate(c)

Operate ==
    \/ \E limits \in Policies : createSpendPolicy(limits)
    \/ \E limits \in Policies, v \in DOMAIN policies : replaceSpendPolicy(limits, v)
    \/ \E v \in DOMAIN policies : activateSpendPolicy(v)
    \/ transitionAccount
    \/ SwitchDestination
    \/ \E i \in DOMAIN payments : ReadForApproval(i)
    \/ decideApprove
    \/ \E i \in DOMAIN payments, next \in {"REJECTED", "EXPIRED"} : decideClose(i, next)

Execute == \E i \in DOMAIN payments :
    \/ Land(i)
    \/ \E status \in {"CONFIRMED", "PROVED_NO_EFFECT", "FAILED"} :
           finalizeV2Payment(i, status)
    \/ updatePaymentExecution(i)
    \/ Unresolve(i, "ROUTING", "REVIEW_REQUIRED")
    \/ Unresolve(i, "REVIEW_REQUIRED", "CLOSED_UNRESOLVED")

Next == Request \/ Operate \/ Execute \/ Deposit \/ Tick

Spec == Init /\ [][Next]_vars

-----------------------------------------------------------------------------
(* Properties *)

\* The payments of a window, without those that ended before any effect or FAILED.
Spent(p) == p.status \notin NotSpent /\ "FAILED" \notin p.noEffect
SpentCount(limits, t) ==
    CountOf(payments, {i \in DOMAIN payments :
        InWindow(payments[i], limits, t) /\ Spent(payments[i])})

\* A payment that the step adds is admitted within the limits in force.
AdmitsWithin ==
    Len(payments') > Len(payments) =>
        LET p == payments'[Len(payments')]
            limits == policies[ActivePolicy].limits
        IN  p.decision # "DENY" =>
                /\ active /\ approved
                /\ ~Exceeds(p.intent.amount, limits.max)
                /\ ~Exceeds(SpentCount(limits, p.created) + 1, limits.cap)
                /\ p.decision = "ALLOW" =>
                     ~Exceeds(Held + p.intent.amount, limits.budget)

\* createV2Payment reads the policy and the aggregates twice, the first time
\* without any lock, and finalizations go on meanwhile.  Whenever it admits a
\* payment, the account is ACTIVE, the destination approved and the policy it
\* judged by the active one; with the new payment the number of payments in
\* the window is within the cap, and an allowed payment keeps the held
\* reservations within the rolling budget.  Payments that once FAILED are left
\* out of the number: one may be executed again after the count was read.
AdmissionWithinLimits == [][AdmitsWithin]_vars

\* However refund requests, approvals and executions interleave, the refunds
\* that were agreed to or may still be approved never exceed the original
\* payment: a refund keeps its share while it awaits approval, is executed, under
\* review or closed unresolved, and gives it up only by a rejection, an expiry or
\* an outcome without effect.
RefundsBounded == Outstanding(payments) <= OriginalAmount

\* One idempotency key creates at most one payment whatever concurrent
\* requests carry it, and a request that is answered with a payment gets the
\* payment of its own key and intent.
AnswersAreFaithful ==
    /\ \A i, j \in DOMAIN payments : payments[i].key = payments[j].key => i = j
    /\ \A c \in Clients : calls[c].answer # Refused =>
           /\ payments[calls[c].answer].key = calls[c].key
           /\ payments[calls[c].answer].intent = calls[c].intent

\* A payment holds or moves funds only if the policy allowed it or an operator
\* approved it; one whose approval is pending, rejected or expired never has a
\* reservation or an effect, and approval and payment agree on the decision.
ApprovalGovernsFunds ==
    \A i \in DOMAIN payments :
        LET p == payments[i]
        IN  /\ p.reservation # "NONE" \/ p.landed => Agreed(p)
            /\ Decided(p)

\* docs/architecture.md: "a safe replay returns the original payment".  No
\* request of an ACTIVE account is refused while its key belongs to a payment
\* of the same intent.
ReplayReturnsOriginal ==
    [][ \A c \in Clients :
            /\ active
            /\ calls[c].pc # "answered" /\ calls'[c].pc = "answered"
            /\ \E i \in Bound(calls[c].key) : payments[i].intent = calls[c].intent
            => calls'[c].answer # Refused ]_vars
=============================================================================
