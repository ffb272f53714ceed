--------------------------- MODULE AccountAccess ---------------------------
(***************************************************************************)
(* Requests of an agent with the credentials of its account: the hook that *)
(* counts a request (apps/api/src/app.ts), authentication and scope check  *)
(* (apps/api/src/auth.ts), the account's own limits on some routes, and    *)
(* the capacity budget of the workers (apps/api/src/capacity.ts).          *)
(*                                                                         *)
(* Requests and worker steps are the callers of RateLimits; they run       *)
(* beside the administrative calls of Credentials.  What a handler does    *)
(* once it is reached belongs to the other modules.                        *)
(***************************************************************************)
EXTENDS Credentials

CONSTANTS Routes,       \* the paths that are exercised
          Dependencies  \* the dependencies workers ask capacity for

VARIABLE requests       \* what each caller is doing

vars == <<limiter, credentialVars, requests>>

\* A route: the scope it asks for, the limit of its own it has, and whether its
\* path names the account.
Route(version, path, scope, bucket, named) ==
    [version |-> version, path |-> path, scope |-> scope, bucket |-> bucket,
     named |-> named]

\* Most routes have no limit of their own; some /v2/ paths name the account.
V1(scope, path) == Route("v1", path, scope, "none", FALSE)
V2(scope, path) == Route("v2", path, scope, "none", FALSE)
OfAccount(scope, path) == Route("v2", path, scope, "none", TRUE)
Limited(scope, path, bucket) == Route("v2", path, scope, bucket, FALSE)

\* The routes an agent's key opens, and those of the operator ("admin") that leave
\* the credentials alone: the ones that change them are the calls of Credentials.
ListAccountsV1 == V1("admin", "GET accounts")
BalanceV1 == V1("balance:read", "GET balance")
CreateReceiveV1 == V1("receive:manage", "POST receives")
GetReceiveV1 == V1("receive:manage", "GET receives/:id")
CreateRecipientV1 == V1("contacts:manage", "POST recipients")
ListRecipientsV1 == V1("contacts:manage", "GET recipients")
GetRecipientV1 == V1("contacts:manage", "GET recipients/:id")
UpdateRecipientV1 == V1("contacts:manage", "PATCH recipients/:id")
PayV1 == V1("payments:create", "POST pay")
RefundV1 == V1("payments:create", "POST refunds")
SendV1 == V1("payments:create", "POST send")
GetPaymentV1 == V1("payments:read", "GET payments/:id")
ListPaymentsV1 == V1("payments:read", "GET payments")
ListTransactionsV1 == V1("history:read", "GET transactions")
GetTransactionV1 == V1("history:read", "GET transactions/:id")
CreatePaymentV2 == Limited("payments:create", "POST payments", "payment:create")
CreateX402V2 ==
    Limited("payments:create", "POST external-payments/x402", "payment:create")
GetPaymentV2 == V2("payments:read", "GET payments/:id")
ListPaymentsV2 == V2("payments:read", "GET payments")
RefundV2 == Limited("payments:create", "POST payments/:id/refunds", "payment:create")
CreateRecipientV2 == V2("contacts:manage", "POST recipients")
ListRecipientsV2 == V2("contacts:manage", "GET recipients")
GetRecipientV2 == V2("contacts:manage", "GET recipients/:id")
UpdateRecipientV2 == V2("contacts:manage", "PATCH recipients/:id")
ArchiveRecipientV2 == V2("contacts:manage", "POST recipients/:id/archive")
GetAccountV2 == OfAccount("balance:read", "GET accounts/:id")
ListCredentialsV2 == V2("admin", "GET accounts/:id/credentials")
ListPoliciesV2 == V2("admin", "GET accounts/:id/policies")
GetPolicyV2 == V2("admin", "GET accounts/:id/policy")
ReplacePolicyV2 == V2("admin", "PUT accounts/:id/policy")
CreatePolicyV2 == V2("admin", "POST accounts/:id/policies")
ActivatePolicyV2 == V2("admin", "POST policies/:id/activate")
ListApprovalsV2 == V2("admin", "GET accounts/:id/approvals")
DecideApprovalV2 == V2("admin", "POST accounts/:id/approvals/:id/decision")
ListDestinationsV2 == V2("admin", "GET accounts/:id/approved-destinations")
ApproveDestinationV2 == V2("admin", "POST accounts/:id/approved-destinations")
RevokeDestinationV2 == V2("admin", "POST accounts/:id/approved-destinations/:id/revoke")
FundingOfV2 == OfAccount("receive:manage", "GET accounts/:id/funding-destination")
BalanceOfV2 == OfAccount("balance:read", "GET accounts/:id/balance")
BalanceV2 == V2("balance:read", "GET balance")
FundingV2 == V2("receive:manage", "GET funding-destination")
HistoryV2 == V2("history:read", "GET history")
HistoryOfV2 == OfAccount("history:read", "GET accounts/:id/history")
CreateReceiveOfV2 ==
    Route("v2", "POST accounts/:id/receive-requests", "receive:manage", "receive:create", TRUE)
CreateReceiveV2 == Limited("receive:manage", "POST receive-requests", "receive:create")
ListReceivesOfV2 == OfAccount("receive:manage", "GET accounts/:id/receive-requests")
GetReceiveOfV2 == OfAccount("receive:manage", "GET accounts/:id/receive-requests/:id")
CancelReceiveOfV2 ==
    OfAccount("receive:manage", "POST accounts/:id/receive-requests/:id/cancel")
ListReceivesV2 == V2("receive:manage", "GET receive-requests")
GetReceiveV2 == V2("receive:manage", "GET receive-requests/:id")
CancelReceiveV2 == V2("receive:manage", "POST receive-requests/:id/cancel")
TimelineV2 == V2("history:read", "GET timeline")
ListWebhooksV2 == V2("webhooks:manage", "GET webhooks")
CreateWebhookV2 == V2("webhooks:manage", "POST webhooks")
ArchiveWebhookV2 == V2("webhooks:manage", "POST webhooks/:id/archive")
ListExceptionsV2 == V2("admin", "GET operator/exceptions")
GetExceptionV2 == V2("admin", "GET operator/exceptions/:id")
AcknowledgeExceptionV2 == V2("admin", "POST operator/exceptions/:id/acknowledge")
ResolveConfirmedV2 == V2("admin", "POST operator/exceptions/:id/resolve-confirmed")
ResolveProvedNoEffectV2 ==
    V2("admin", "POST operator/exceptions/:id/resolve-proved-no-effect")
CloseUnresolvedV2 == V2("admin", "POST operator/exceptions/:id/close-unresolved")

AllRoutes ==
    {ListAccountsV1, BalanceV1, CreateReceiveV1, GetReceiveV1, CreateRecipientV1,
     ListRecipientsV1, GetRecipientV1, UpdateRecipientV1, PayV1, RefundV1, SendV1,
     GetPaymentV1, ListPaymentsV1, ListTransactionsV1, GetTransactionV1,
     CreatePaymentV2, CreateX402V2, GetPaymentV2, ListPaymentsV2, RefundV2,
     CreateRecipientV2, ListRecipientsV2, GetRecipientV2, UpdateRecipientV2,
     ArchiveRecipientV2, GetAccountV2, ListCredentialsV2, ListPoliciesV2, GetPolicyV2,
     ReplacePolicyV2, CreatePolicyV2, ActivatePolicyV2, ListApprovalsV2,
     DecideApprovalV2, ListDestinationsV2, ApproveDestinationV2, RevokeDestinationV2,
     FundingOfV2, BalanceOfV2, BalanceV2, FundingV2, HistoryV2, HistoryOfV2,
     CreateReceiveOfV2, CreateReceiveV2, ListReceivesOfV2, GetReceiveOfV2,
     CancelReceiveOfV2, ListReceivesV2, GetReceiveV2, CancelReceiveV2, TimelineV2,
     ListWebhooksV2, CreateWebhookV2, ArchiveWebhookV2, ListExceptionsV2,
     GetExceptionV2, AcknowledgeExceptionV2, ResolveConfirmedV2,
     ResolveProvedNoEffectV2, CloseUnresolvedV2}

Exercised == {r \in AllRoutes : r.path \in Routes}

ASSUME AccessAssumption ==
    /\ {"request", "request-burst"} \union Dependencies \subseteq Buckets
    /\ \A r \in Exercised : r.bucket \in Buckets \union {"none"}

----------------------------------------------------------------------------
Free == [pc |-> "free", route |-> "none", cred |-> 0, own |-> TRUE, barred |-> FALSE]

Init ==
    /\ LimiterInit
    /\ CredentialsInit
    /\ requests = [q \in Callers |-> Free]

Is(q, pc) == requests[q].pc = pc /\ readings[q] = NoReading

Move(q, pc) == requests' = [requests EXCEPT ![q].pc = pc]

Leave(q) == requests' = [requests EXCEPT ![q] = Free]

\* Revoked or expired: for good.
Dead(i) == creds[i].status = "REVOKED" \/ creds[i].expires <= now

\* A request is sent with the key of a credential, or with the key of the platform
\* operator (0), and may name an account that is not the caller's; only /v2/
\* requests pass the onRequest hook.
SendRequest(q, r, i, own) ==
    /\ Is(q, "free")
    /\ Do("requests")
    /\ (i = 0) = (r.scope = "admin") /\ (r.named \/ own)
    /\ requests' = [requests EXCEPT ![q] =
         [pc |-> IF r.version = "v2" THEN "request" ELSE "auth",
          route |-> r, cred |-> i, own |-> own,
          barred |-> own => i # 0 /\ (Dead(i) \/ r.scope \notin creds[i].scopes)]]
    /\ UNCHANGED <<limiter, account, funded, creds, envelopes, calls, delivered, spent,
                   recovered>>

\* A worker asks for capacity of a dependency: DurableCapacityController.acquire.
Acquire(q, dependency) ==
    /\ Is(q, "free")
    /\ Do("requests")
    /\ ReadClock(q, dependency)
    /\ requests' = [requests EXCEPT ![q].pc = "capacity"]
    /\ UNCHANGED <<account, funded, creds, envelopes, calls, delivered, spent, recovered>>

\* The bucket a request has to pass next: enforceRequestRateLimits, enforceRateLimit.
BucketAt(q) ==
    CASE requests[q].pc = "request"       -> "request"
      [] requests[q].pc = "request-burst" -> "request-burst"
      [] requests[q].pc = "account"       -> requests[q].route.bucket
      [] OTHER                            -> "none"

\* Where it goes from there when it is admitted.
NextAfter(pc) ==
    CASE pc = "request"       -> "request-burst"
      [] pc = "request-burst" -> "auth"
      [] pc = "account"       -> "handler"
      [] pc = "capacity"      -> "acquired"

EnterBucket(q) ==
    /\ BucketAt(q) # "none"
    /\ ReadClock(q, BucketAt(q))
    /\ UNCHANGED <<credentialVars, requests>>

PassBucket(q) ==
    /\ consumeRateLimit(q)
    /\ IF Allowed(readings[q].bucket, WindowStart(readings[q].bucket, readings[q].at))
       THEN Move(q, NextAfter(requests[q].pc)) ELSE Leave(q)
    /\ UNCHANGED credentialVars

\* MUTANT: the status of the credential is not looked at.
AuthenticUnlessExpired(i) == creds[i].expires > now /\ account.status = "ACTIVE"

\* authenticateAgent: one query for the credential and its account.
Authentic(i) ==
    /\ creds[i].status = "ACTIVE"
    /\ creds[i].expires > now
    /\ account.status = "ACTIVE"

\* authenticateAgentWithScope; assertAdminApiKey for the operator.
Authorised(q) ==
    LET request == requests[q]
    IN request.cred # 0 =>
         Authentic(request.cred) /\ request.route.scope \in creds[request.cred].scopes

Authenticate(q) ==
    /\ Is(q, "auth")
    /\ IF ~Authorised(q) THEN Leave(q)
       ELSE Move(q, IF requests[q].route.bucket = "none" THEN "handler" ELSE "account")
    /\ UNCHANGED <<limiter, credentialVars>>

\* The handler first compares the account in the path with the caller's.
Handle(q) ==
    /\ Is(q, "handler")
    /\ IF requests[q].own THEN Move(q, "served") ELSE Leave(q)
    /\ UNCHANGED <<limiter, credentialVars>>

\* The handler, or the worker's step, has done its work.
Done(q) ==
    /\ requests[q].pc \in {"served", "acquired"}
    /\ Leave(q)
    /\ UNCHANGED <<limiter, credentialVars>>

----------------------------------------------------------------------------
RequestStep(q) ==
    \/ \E r \in Exercised, i \in delivered \union {0}, own \in BOOLEAN :
         SendRequest(q, r, i, own)
    \/ \E d \in Dependencies : Acquire(q, d)
    \/ EnterBucket(q) \/ PassBucket(q) \/ Authenticate(q) \/ Handle(q) \/ Done(q)

Next ==
    \/ CredentialsNext /\ UNCHANGED <<limiter, requests>>
    \/ now < work.until /\ Tick /\ UNCHANGED <<credentialVars, requests>>
    \/ \E q \in Callers : RequestStep(q)

Spec == Init /\ [][Next]_vars

----------------------------------------------------------------------------
\* No request is served that was barred when it was sent: its credential was
\* revoked, rotated away or expired by then, lacks the scope of the route, or the
\* path names another account.  It does not matter how long the request waits in
\* the limits and what happens to the account meanwhile (authenticateAgent,
\* authenticateAgentWithScope and the handlers).
BarredIsNotServed ==
    \A q \in Callers : requests[q].pc = "served" => ~requests[q].barred
=============================================================================
