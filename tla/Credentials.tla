---------------------------- MODULE Credentials ----------------------------
(***************************************************************************)
(* An agent account and its API credentials: provisioning, issuance,       *)
(* rotation and revocation, with the recovery envelopes that let a caller  *)
(* who lost the answer fetch the key once more.                            *)
(*   apps/api/src/accounts.ts        createAccount, createAccountV2        *)
(*   apps/api/src/v2-management.ts   credentials and account lifecycle     *)
(*   packages/db/src/v2-admin.ts     the transactions behind them          *)
(*                                                                         *)
(* A call of an administrator is a process that runs one transaction or    *)
(* read per step.  Several calls, retries with the same idempotency key    *)
(* included, run at once, and any call may be lost together with its       *)
(* answer.  The raw key exists only in the memory of the call that made    *)
(* or recovered it and, encrypted, in the envelope.                        *)
(*                                                                         *)
(* Idempotency records are inserted with their credential and never        *)
(* deleted, so they are read off the credentials.  The clock is the one of *)
(* the rate limits.                                                        *)
(***************************************************************************)
EXTENDS RateLimits, Sequences, FiniteSets

CONSTANTS Calls,        \* administrative calls that may run at once
          Keys,         \* idempotency keys
          Terms,        \* what is asked for: an account name, or scopes and expiry
          Scopes,       \* Scopes[t]: the scopes asked for
          Expiry,       \* Expiry[t]: expires_at, or Never
          RecoveryTtl,  \* credentialRecoveryTtlSeconds
          Workloads     \* how much work of each kind a behaviour does, until when

Never == 1000000

AllScopes == {"payments:create", "payments:read", "contacts:manage", "receive:manage",
              "balance:read", "history:read", "webhooks:manage"}

ASSUME CredentialsAssumption ==
    /\ RecoveryTtl \in Nat \ {0}
    /\ \A t \in Terms : Expiry[t] \in Nat /\ Scopes[t] \subseteq AllScopes
    /\ Workloads \subseteq [calls: Nat, requests: Nat, faults: Nat, changes: Nat,
                          until: Nat]

VARIABLES account,    \* status and rowVersion; the account of one provisioning key
          funded,     \* whether a READY funding destination is stored
          creds,      \* the credentials of the account, oldest first
          envelopes,  \* credential_recovery_envelopes
          calls,      \* the administrative calls
          delivered,  \* history: credentials whose key has reached the caller
          spent,      \* history: credentials whose envelope has been used up
          recovered,  \* history: how often a key was taken from an envelope
          work        \* what is left of the workload

credentialVars == <<account, funded, creds, envelopes, calls, delivered, spent,
                    recovered, work>>

Statuses == {"NONE", "PROVISIONING", "ACTIVE", "DISABLED", "PROVISIONING_FAILED"}

\* canTransitionAgentAccount
CanTransition(from, to) ==
    <<from, to>> \in {<<"PROVISIONING", "ACTIVE">>,
                      <<"PROVISIONING", "PROVISIONING_FAILED">>,
                      <<"PROVISIONING", "DISABLED">>, <<"ACTIVE", "DISABLED">>,
                      <<"DISABLED", "ACTIVE">>, <<"PROVISIONING_FAILED", "PROVISIONING">>,
                      <<"PROVISIONING_FAILED", "DISABLED">>}

Credential == [op: {"v1", "provision", "issue", "rotate"}, key: Keys \union {"none"},
               terms: Terms \union {"none"}, scopes: SUBSET AllScopes, expires: Nat,
               from: Nat, status: {"ACTIVE", "REVOKED"}]

Envelope == [op: {"provision", "issue", "rotate"}, key: Keys, cred: Nat, expires: Nat]

Idle == [pc |-> "idle", op |-> "none", key |-> "none", terms |-> "none", old |-> 0,
         at |-> 0, rowVersion |-> 0, then |-> "none", cred |-> 0, secret |-> 0]

CredentialsInit ==
    /\ account = [status |-> "NONE", rowVersion |-> 0]
    /\ funded = FALSE
    /\ creds = <<>>
    /\ envelopes = {}
    /\ calls = [c \in Calls |-> Idle]
    /\ delivered = {}
    /\ spent = {}
    /\ recovered = <<>>
    /\ work \in Workloads

----------------------------------------------------------------------------
At(c, pc) == calls[c].pc = pc

Step(c, changes) == calls' = [calls EXCEPT ![c] = changes]

Goto(c, pc) == Step(c, [calls[c] EXCEPT !.pc = pc])

\* The call ends: it failed, or it answered without a key.
End(c) == Step(c, Idle)

Do(kind) == work[kind] > 0 /\ work' = [work EXCEPT ![kind] = @ - 1]

Bound(op, key) == {i \in DOMAIN creds : creds[i].op = op /\ creds[i].key = key}

EnvelopesOf(op, key) == {e \in envelopes : e.op = op /\ e.key = key}

NewCredential(op, key, terms, scopes, expires, from) ==
    [op |-> op, key |-> key, terms |-> terms, scopes |-> scopes, expires |-> expires,
     from |-> from, status |-> "ACTIVE"]

\* The new credential is inserted together with its envelope; the call has the key.
Insert(c, credential, expires, next) ==
    LET i == Len(creds) + 1
        call == calls[c]
    IN /\ creds' = Append(creds, credential)
       /\ envelopes' = envelopes \union
            {[op |-> call.op, key |-> call.key, cred |-> i, expires |-> expires]}
       /\ recovered' = Append(recovered, 0)
       /\ Step(c, [call EXCEPT !.pc = next, !.then = "answer", !.cred = i, !.secret = i])

\* transitionAccount: a compare-and-set on status and row version.
CanSet(c, from) == account = [status |-> from, rowVersion |-> calls[c].rowVersion]

SetStatus(to) == account' = [status |-> to, rowVersion |-> account.rowVersion + 1]

----------------------------------------------------------------------------
\* POST /v2/accounts: createAccountV2.
BeginProvision(c, key, terms) ==
    /\ At(c, "idle")
    /\ \/ account.status = "NONE"
       \/ Bound("provision", key) # {}
    /\ Do("calls")
    /\ Step(c, [Idle EXCEPT !.pc = "replay", !.op = "provision", !.key = key,
                            !.terms = terms, !.at = now])
    /\ UNCHANGED <<account, funded, creds, envelopes, delivered, spent, recovered>>

findProvisioningReplay(c) ==
    LET call == calls[c]
        bound == Bound("provision", call.key)
    IN /\ At(c, "replay")
       /\ \/ bound = {} /\ Goto(c, "provision")
          \/ \E i \in bound :
               IF creds[i].terms # call.terms THEN End(c)
               ELSE Step(c, [call EXCEPT !.pc = "finish", !.then = "recover", !.cred = i])
       /\ UNCHANGED <<account, funded, creds, envelopes, delivered, spent, recovered,
                      work>>

\* The transaction looks the key up again under an advisory lock.  Another key makes
\* another account, which is not followed here.
provisionAccount(c) ==
    LET call == calls[c]
        bound == Bound("provision", call.key)
    IN /\ At(c, "provision")
       /\ \/ /\ bound = {} /\ account.status = "NONE"
             /\ account' = [status |-> "PROVISIONING", rowVersion |-> 1]
             /\ Insert(c, NewCredential("provision", call.key, call.terms, AllScopes,
                                        Never, 0),
                       call.at + RecoveryTtl, "finish")
          \/ /\ \/ bound = {} /\ account.status # "NONE" /\ End(c)
                \/ \E i \in bound :
                     IF \/ creds[i].terms # call.terms
                        \/ EnvelopesOf("provision", call.key) = {}
                     THEN End(c)
                     ELSE Step(c, [call EXCEPT !.pc = "finish", !.then = "again",
                                               !.cred = i])
             /\ UNCHANGED <<account, creds, envelopes, recovered>>
       /\ UNCHANGED <<funded, delivered, spent, work>>

\* What createAccountV2 does once finishV2Provisioning has returned.
Finished(c) ==
    LET call == calls[c]
    IN Step(c, CASE call.then = "answer"  -> [call EXCEPT !.pc = "answer"]
                 [] call.then = "again"   -> [call EXCEPT !.pc = "finish",
                                                          !.then = "recover"]
                 [] call.then = "recover" -> [call EXCEPT !.pc = "peek"])

\* finishV2Provisioning reads the account, before and after a retry reopened it.
StartFinishing(c) ==
    LET see(pc) == Step(c, [calls[c] EXCEPT !.pc = pc, !.rowVersion = account.rowVersion])
    IN /\ \/ /\ At(c, "finish")
             /\ CASE account.status = "ACTIVE"              -> Finished(c)
                  [] account.status = "PROVISIONING_FAILED" -> see("reopen")
                  [] account.status = "PROVISIONING"        -> see("fund")
                  [] OTHER                                  -> End(c)
          \/ /\ At(c, "reread")
             /\ IF account.status = "PROVISIONING" THEN see("fund") ELSE End(c)
       /\ UNCHANGED <<account, funded, creds, envelopes, delivered, spent, recovered,
                      work>>

\* PROVISIONING_FAILED to PROVISIONING; a conflict fails the call.
Reopen(c) ==
    /\ At(c, "reopen")
    /\ IF CanSet(c, "PROVISIONING_FAILED")
       THEN SetStatus("PROVISIONING") /\ Goto(c, "reread")
       ELSE UNCHANGED account /\ End(c)
    /\ UNCHANGED <<funded, creds, envelopes, delivered, spent, recovered, work>>

\* createFundingProvisioner: stores the destination, or the route or the token
\* account is not ready.
Provision(c) ==
    /\ At(c, "fund")
    /\ \/ funded' = TRUE /\ Goto(c, "refetch") /\ UNCHANGED work
       \/ Do("faults") /\ Goto(c, "caught") /\ UNCHANGED funded
    /\ UNCHANGED <<account, creds, envelopes, delivered, spent, recovered>>

Refetch(c) ==
    /\ At(c, "refetch")
    /\ CASE account.status = "ACTIVE"       -> Finished(c)
         [] account.status = "PROVISIONING" ->
              Step(c, [calls[c] EXCEPT !.pc = "activate",
                                       !.rowVersion = account.rowVersion])
         [] OTHER                           -> Goto(c, "caught")
    /\ UNCHANGED <<account, funded, creds, envelopes, delivered, spent, recovered, work>>

Activate(c) ==
    /\ At(c, "activate")
    /\ IF CanSet(c, "PROVISIONING") THEN SetStatus("ACTIVE") /\ Finished(c)
       ELSE UNCHANGED account /\ Goto(c, "conflict")
    /\ UNCHANGED <<funded, creds, envelopes, delivered, spent, recovered, work>>

\* The catch clause: somebody else's activation is as good, any other failure is
\* recorded if the account is still PROVISIONING.
HandleFailure(c) ==
    /\ \/ At(c, "conflict") /\ account.status = "ACTIVE" /\ Finished(c)
       \/ /\ \/ At(c, "caught")
             \/ At(c, "conflict") /\ account.status # "ACTIVE"
          /\ IF account.status = "PROVISIONING"
             THEN Step(c, [calls[c] EXCEPT !.pc = "fail", !.rowVersion = account.rowVersion])
             ELSE End(c)
    /\ UNCHANGED <<account, funded, creds, envelopes, delivered, spent, recovered, work>>

MarkFailed(c) ==
    /\ At(c, "fail")
    /\ IF CanSet(c, "PROVISIONING") THEN SetStatus("PROVISIONING_FAILED")
       ELSE UNCHANGED account
    /\ End(c)
    /\ UNCHANGED <<funded, creds, envelopes, delivered, spent, recovered, work>>

----------------------------------------------------------------------------
\* POST /v2/accounts/:id/credentials: createCredential.
BeginIssue(c, key, terms) ==
    /\ At(c, "idle") /\ account.status # "NONE"
    /\ Do("calls")
    /\ Step(c, [Idle EXCEPT !.pc = "lookup", !.op = "issue", !.key = key,
                            !.terms = terms])
    /\ UNCHANGED <<account, funded, creds, envelopes, delivered, spent, recovered>>

\* A replay recovers the key if the terms are the same.
ReplayIssued(c, i) ==
    IF creds[i].terms # calls[c].terms THEN End(c)
    ELSE Step(c, [calls[c] EXCEPT !.pc = "peek", !.cred = i])

findCredentialIdempotency(c) ==
    LET bound == Bound("issue", calls[c].key)
    IN /\ At(c, "lookup")
       /\ \/ \E i \in bound : ReplayIssued(c, i)
          \/ /\ bound = {}
             /\ IF account.status = "ACTIVE" /\ Expiry[calls[c].terms] > now
                THEN Goto(c, "create") ELSE End(c)
       /\ UNCHANGED <<account, funded, creds, envelopes, delivered, spent, recovered,
                      work>>

\* The transaction checks key and status again under the lock of the account.
createCredential(c) ==
    LET call == calls[c]
        bound == Bound("issue", call.key)
    IN /\ At(c, "create")
       /\ \/ /\ bound = {} /\ account.status = "ACTIVE"
             /\ Insert(c, NewCredential("issue", call.key, call.terms, Scopes[call.terms],
                                        Expiry[call.terms], 0),
                       now + RecoveryTtl, "answer")
          \/ /\ \/ bound = {} /\ account.status # "ACTIVE" /\ End(c)
                \/ \E i \in bound : ReplayIssued(c, i)
             /\ UNCHANGED <<creds, envelopes, recovered>>
       /\ UNCHANGED <<account, funded, delivered, spent, work>>

\* POST /v2/accounts/:id/credentials/recovery/acknowledge; it knows the envelopes
\* of issued credentials only.
acknowledgeRecoveryEnvelope(key) ==
    /\ EnvelopesOf("issue", key) # {}
    /\ Do("changes")
    /\ envelopes' = envelopes \ EnvelopesOf("issue", key)
    /\ spent' = spent \union {e.cred : e \in EnvelopesOf("issue", key)}
    /\ UNCHANGED <<account, funded, creds, calls, delivered, recovered>>

----------------------------------------------------------------------------
\* POST /v2/accounts/:id/credentials/:id/rotate: rotateCredential first tries to
\* recover the answer of an earlier rotation.
BeginRotate(c, key, i) ==
    /\ At(c, "idle")
    /\ Do("calls")
    /\ Step(c, [Idle EXCEPT !.pc = "peek", !.op = "rotate", !.key = key, !.old = i])
    /\ UNCHANGED <<account, funded, creds, envelopes, delivered, spent, recovered>>

listCredentials(c) ==
    /\ At(c, "list")
    /\ IF creds[calls[c].old].status = "ACTIVE" THEN Goto(c, "rotate") ELSE End(c)
    /\ UNCHANGED <<account, funded, creds, envelopes, delivered, spent, recovered, work>>

\* The successor has the scopes of its predecessor and no expiry.
Successor(c) ==
    NewCredential("rotate", calls[c].key, "none", creds[calls[c].old].scopes, Never,
                  calls[c].old)

\* The transaction: the successor is inserted and the predecessor revoked; the
\* envelope is upserted, and an envelope the key already has is left as it is.
Replace(c) ==
    LET call == calls[c]
        i == Len(creds) + 1
    IN /\ creds' = Append([creds EXCEPT ![call.old].status = "REVOKED"], Successor(c))
       /\ recovered' = Append(recovered, 0)
       /\ Step(c, [call EXCEPT !.pc = "answer", !.cred = i, !.secret = i])

KeepEnvelope(c) ==
    IF EnvelopesOf("rotate", calls[c].key) # {} THEN UNCHANGED envelopes
    ELSE envelopes' = envelopes \union
           {[op |-> "rotate", key |-> calls[c].key, cred |-> Len(creds) + 1,
             expires |-> now + RecoveryTtl]}

\* MUTANT: the count of revoked rows is not checked.
RotateUncounted(c) ==
    /\ At(c, "rotate")
    /\ Replace(c)
    /\ KeepEnvelope(c)
    /\ UNCHANGED <<account, funded, delivered, spent, work>>

\* MUTANT: the recovery envelope is left for later.
RotateWithoutEnvelope(c) ==
    /\ At(c, "rotate")
    /\ IF creds[calls[c].old].status = "ACTIVE" THEN Replace(c)
       ELSE /\ Step(c, [calls[c] EXCEPT !.pc = "peek", !.then = "late"])
            /\ UNCHANGED <<creds, recovered>>
    /\ UNCHANGED <<account, funded, envelopes, delivered, spent, work>>

\* Whoever finds the predecessor revoked rolls back and looks for the envelope.
rotateCredential(c) ==
    /\ At(c, "rotate")
    /\ IF creds[calls[c].old].status = "ACTIVE" THEN Replace(c) /\ KeepEnvelope(c)
       ELSE /\ Step(c, [calls[c] EXCEPT !.pc = "peek", !.then = "late"])
            /\ UNCHANGED <<creds, envelopes, recovered>>
    /\ UNCHANGED <<account, funded, delivered, spent, work>>

----------------------------------------------------------------------------
\* There is nothing to recover: a provisioning replay fails, an issuance replay
\* answers without a key, a rotation goes on.
NothingToRecover(c) ==
    IF calls[c].op = "rotate" /\ calls[c].then # "late" THEN Goto(c, "list") ELSE End(c)

\* The time a call compares with: createAccountV2 took it when it began.
CallTime(c) == IF calls[c].op = "provision" THEN calls[c].at ELSE now

\* consumeRecoveryEnvelope, its read; an expired envelope is deleted.
PeekEnvelope(c) ==
    LET found == EnvelopesOf(calls[c].op, calls[c].key)
    IN /\ At(c, "peek")
       /\ \/ found = {} /\ NothingToRecover(c) /\ UNCHANGED <<envelopes, spent>>
          \/ \E e \in found :
               IF e.expires <= CallTime(c)
               THEN /\ envelopes' = envelopes \ found
                    /\ spent' = spent \union {e.cred}
                    /\ NothingToRecover(c)
               ELSE /\ Step(c, [calls[c] EXCEPT !.pc = "take", !.cred = e.cred])
                    /\ UNCHANGED <<envelopes, spent>>
       /\ UNCHANGED <<account, funded, creds, delivered, recovered, work>>

\* The envelope that was read is opened.  A rotation refuses the successor of
\* another credential, when the envelope is gone already.
Open(c) ==
    LET call == calls[c]
    IN /\ recovered' = [recovered EXCEPT ![call.cred] = @ + 1]
       /\ IF call.op = "rotate" /\ creds[call.cred].from # call.old THEN End(c)
          ELSE Step(c, [call EXCEPT !.pc = "answer", !.secret = call.cred])

\* MUTANT: the number of deleted envelopes is not checked.
TakeUncounted(c) ==
    LET found == EnvelopesOf(calls[c].op, calls[c].key)
    IN /\ At(c, "take")
       /\ envelopes' = envelopes \ found
       /\ spent' = spent \union {e.cred : e \in found}
       /\ Open(c)
       /\ UNCHANGED <<account, funded, creds, delivered, work>>

\* consumeRecoveryEnvelope, its delete, by key: only who deletes a row may open.
TakeEnvelope(c) ==
    LET found == EnvelopesOf(calls[c].op, calls[c].key)
    IN /\ At(c, "take")
       /\ envelopes' = envelopes \ found
       /\ spent' = spent \union {e.cred : e \in found}
       /\ IF found # {} THEN Open(c) ELSE NothingToRecover(c) /\ UNCHANGED recovered
       /\ UNCHANGED <<account, funded, creds, delivered, work>>

\* The response with the key reaches the caller.
Answer(c) ==
    /\ At(c, "answer")
    /\ delivered' = delivered \union {calls[c].secret}
    /\ End(c)
    /\ UNCHANGED <<account, funded, creds, envelopes, spent, recovered, work>>

\* The process dies, or the response is lost, with what the call has in memory.
Lose(c) ==
    /\ ~At(c, "idle")
    /\ Do("faults")
    /\ End(c)
    /\ UNCHANGED <<account, funded, creds, envelopes, delivered, spent, recovered>>

----------------------------------------------------------------------------
\* POST /v1/accounts: an account that is ACTIVE at once, without an envelope.
createAgentAccount ==
    /\ account.status = "NONE"
    /\ Do("calls")
    /\ account' = [status |-> "ACTIVE", rowVersion |-> 1]
    /\ creds' = <<NewCredential("v1", "none", "none", AllScopes, Never, 0)>>
    /\ recovered' = <<0>>
    /\ delivered' \in {delivered, {1}}
    /\ UNCHANGED <<funded, envelopes, calls, spent>>

\* POST /v1/accounts/:id/credentials: whatever the status, without an envelope.
createApiCredential ==
    /\ account.status # "NONE"
    /\ Do("changes")
    /\ creds' = Append(creds, NewCredential("v1", "none", "none", AllScopes, Never, 0))
    /\ recovered' = Append(recovered, 0)
    /\ delivered' \in {delivered, delivered \union {Len(creds) + 1}}
    /\ UNCHANGED <<account, funded, envelopes, calls, spent>>

\* Both revoke routes: only a credential that is not revoked.
revokeCredential(i) ==
    /\ creds[i].status = "ACTIVE"
    /\ Do("changes")
    /\ creds' = [creds EXCEPT ![i].status = "REVOKED"]
    /\ UNCHANGED <<account, funded, envelopes, calls, delivered, spent, recovered>>

\* POST /v2/accounts/:id/lifecycle, with the current status and row version.
transitionAccount(to) ==
    /\ CanTransition(account.status, to)
    /\ Do("changes")
    /\ SetStatus(to)
    /\ UNCHANGED <<funded, creds, envelopes, calls, delivered, spent, recovered>>

----------------------------------------------------------------------------
CallStep(c) ==
    \/ \E key \in Keys, t \in Terms : BeginProvision(c, key, t) \/ BeginIssue(c, key, t)
    \/ \E key \in Keys, i \in DOMAIN creds : BeginRotate(c, key, i)
    \/ findProvisioningReplay(c) \/ provisionAccount(c)
    \/ StartFinishing(c) \/ Reopen(c) \/ Provision(c) \/ Refetch(c) \/ Activate(c)
    \/ HandleFailure(c) \/ MarkFailed(c)
    \/ findCredentialIdempotency(c) \/ createCredential(c)
    \/ listCredentials(c) \/ rotateCredential(c)
    \/ PeekEnvelope(c) \/ TakeEnvelope(c)
    \/ Answer(c) \/ Lose(c)

CredentialsNext ==
    \/ \E c \in Calls : CallStep(c)
    \/ createAgentAccount \/ createApiCredential
    \/ \E i \in DOMAIN creds : revokeCredential(i)
    \/ \E to \in Statuses : transitionAccount(to)
    \/ \E key \in Keys : acknowledgeRecoveryEnvelope(key)

----------------------------------------------------------------------------
\* A rotation replaces a credential once and for all: the predecessor is revoked
\* and has no other successor, so that one credential of a chain of rotations is
\* alive at a time, however many rotations, retries and revocations run at once
\* (rotateCredential and its guarded updateMany).
OneSuccessor ==
    \A i \in DOMAIN creds : creds[i].from # 0 =>
        /\ creds[creds[i].from].status = "REVOKED"
        /\ \A j \in DOMAIN creds : creds[j].from = creds[i].from => j = i

\* The idempotency key of a rotation has been used for this rotation only.
OwnKey(i) ==
    creds[i].op = "rotate" =>
        \A j \in DOMAIN creds : creds[j].op = "rotate" /\ creds[j].key = creds[i].key => j = i

\* The key of no V2 credential gets lost: it has reached the caller, a call holds
\* it, or its envelope still waits, unless the envelope has been used up.  An
\* answer that is lost right after the commit can be fetched again
\* (provisionAccount, createCredential, rotateCredential and their envelopes).
SecretsAccountedFor ==
    \A i \in DOMAIN creds : creds[i].op # "v1" /\ OwnKey(i) =>
        \/ i \in delivered \union spent
        \/ \E c \in Calls : calls[c].secret = i
        \/ \E e \in envelopes : e.cred = i

\* An envelope is opened once, by however many retries at the same time
\* (consumeRecoveryEnvelope and its count of deleted rows).
RecoveredOnce ==
    \A i \in DOMAIN creds : OwnKey(i) => recovered[i] <= 1
=============================================================================
