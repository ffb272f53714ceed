----------------------- MODULE IncomingReconciliation -----------------------
(***************************************************************************)
(* How transfers to one account are discovered: the incoming worker        *)
(* (apps/api/src/incoming.ts) over the chain reader                        *)
(* (packages/solana-rail/src/incoming.ts) and the tables of                *)
(* packages/db/src/index.ts.                                               *)
(*                                                                         *)
(* A worker holds the account's partition by a lease, scans the signatures *)
(* after the cursor, stores each transfer or an issue for each signature   *)
(* it could not read, and then saves the cursor.  Issues are retried by    *)
(* any worker, without a lease, on a counter and a back-off.  Here a       *)
(* stored transfer is a member of a set; what the transaction that stores  *)
(* it does to receive requests and events is in ReceiveNotifications.      *)
(***************************************************************************)
EXTENDS Integers, Sequences, FiniteSets

CONSTANTS Workers,       \* processes with the role "incoming"
          Slots,         \* positions of signatures on the chain: 1..n
          Kinds,         \* what may land: TRUE for a transfer that brings money
          Unreadable,    \* positions whose transaction a node may fail to show
          WholeHistory,  \* whether nodes list all signatures below their newest
          Nothing,       \* no owner
          Gone,          \* owner string of a process that no longer exists
          MaxRetries,    \* MAX_INCOMING_ISSUE_RETRIES
          MaxFaults      \* bound on crashes, lagging nodes, refusals, errors
                         \* and changes of the account's status

ASSUME IncomingAssumption ==
    /\ Slots \subseteq Nat \ {0} /\ Kinds \subseteq BOOLEAN /\ Unreadable \subseteq Slots
    /\ WholeHistory \in BOOLEAN
    /\ {Nothing, Gone} \intersect Workers = {} /\ Nothing # Gone
    /\ {MaxRetries, MaxFaults} \subseteq Nat

VARIABLES active,     \* the account is ACTIVE
          chain,      \* signatures of the account's token account, oldest first:
                      \* whether each brings money
          stored,     \* positions that have an incoming_payments row
          issues,     \* incoming_reconciliation_issues
          partition,  \* indexer_checkpoints: cursor and lease
          workers,    \* local state of each worker
          inspected,  \* history: RPC inspections made for an issue
          faults      \* history: faults so far

vars == <<active, chain, stored, issues, partition, workers, inspected, faults>>

NoIssue == [status |-> "NONE", retries |-> 0, recoveries |-> 0, due |-> FALSE]

Idle == [pc |-> "idle", cursor |-> 0, next |-> 0, found |-> {}, unread |-> {},
         batch |-> [i \in {} |-> 0]]

Init ==
    /\ active = TRUE
    /\ chain = <<>>
    /\ stored = {}
    /\ issues = [i \in Slots |-> NoIssue]
    /\ partition = [cursor |-> 0, owner |-> Nothing, live |-> FALSE]
    /\ workers = [w \in Workers |-> Idle]
    /\ inspected = [i \in Slots |-> 0]
    /\ faults = 0

\* A transaction on the token account.
Land(relevant) ==
    /\ Len(chain) + 1 \in Slots
    /\ chain' = Append(chain, relevant)
    /\ UNCHANGED <<active, stored, issues, partition, workers, inspected,
                   faults>>

----------------------------------------------------------------------------
(* One run of a worker: the partition, the scan, the issues, the rest. *)

Goto(w, pc) == workers' = [workers EXCEPT ![w].pc = pc]
At(w, pc) == workers[w].pc = pc
Fault == faults < MaxFaults /\ faults' = faults + 1

\* An operator disables or activates the account.
SwitchAccount ==
    /\ Fault
    /\ active' = ~active
    /\ UNCHANGED <<chain, stored, issues, partition, workers, inspected>>

\* MUTANT: a lease that has expired still keeps others out.
HeldForever(w) == partition.owner \notin {Nothing, w}

\* Another owner holds a live lease.
Held(w) == partition.live /\ partition.owner \notin {Nothing, w}

\* Accounts are listed while they are ACTIVE; the partition of one is claimed
\* unless it is held.
claimIncomingPartition(w) ==
    /\ At(w, "idle")
    /\ IF ~active \/ Held(w)
       THEN /\ Goto(w, "claimIssues")
            /\ UNCHANGED partition
       ELSE /\ partition' = [partition EXCEPT !.owner = w, !.live = TRUE]
            /\ workers' = [workers EXCEPT ![w].pc = "scan",
                                          ![w].cursor = partition.cursor]
    /\ UNCHANGED <<active, chain, stored, issues, inspected, faults>>

Scanning(w) == workers[w].pc \in {"scan", "store", "release"}

\* The heartbeat compares the lease end and not the clock.
renewIncomingPartition(w) ==
    /\ Scanning(w) /\ partition.owner = w /\ ~partition.live
    /\ partition' = [partition EXCEPT !.live = TRUE]
    /\ UNCHANGED <<active, chain, stored, issues, workers, inspected, faults>>

\* Where a listing from position seen ends.  Pages are asked for, newest first,
\* until one contains the cursor or is not full: at the cursor, or with all the
\* node has when it lags behind the cursor.  A page that comes short ends it above
\* the cursor: the node that answers this page lags, or has dropped old history.
collectHistory(seen, cursor) ==
    LET from == IF seen >= cursor THEN cursor ELSE 0
    IN {from} \union (IF WholeHistory THEN {} ELSE (from + 1)..(seen - 1))

\* Every signature that is listed is inspected; any may be unreadable.  The next
\* cursor is the newest one, wherever the listing ended.
scanWithCursor(w) ==
    /\ At(w, "scan")
    /\ \E seen \in 0..Len(chain) : \E from \in collectHistory(seen, workers[w].cursor) :
         LET listed == (from + 1)..seen
         IN /\ IF seen < Len(chain) THEN Fault ELSE UNCHANGED faults
            /\ \E unread \in SUBSET (listed \intersect Unreadable) :
                 workers' = [workers EXCEPT
                   ![w].pc = "store",
                   ![w].found = {i \in listed \ unread : chain[i]},
                   ![w].unread = unread,
                   ![w].next = IF seen = 0 THEN workers[w].cursor ELSE seen]
    /\ UNCHANGED <<active, chain, stored, issues, partition, inspected>>

\* persistTransfer, oldest first.
StoreTransfer(w) ==
    /\ At(w, "store") /\ workers[w].found # {}
    /\ LET i == CHOOSE i \in workers[w].found : \A j \in workers[w].found : i <= j
       IN /\ stored' = stored \union {i}
          /\ workers' = [workers EXCEPT ![w].found = @ \ {i}]
    /\ UNCHANGED <<active, chain, issues, partition, inspected, faults>>

\* An issue that exists keeps its state.
recordIncomingReconciliationIssue(w) ==
    /\ At(w, "store") /\ workers[w].found = {} /\ workers[w].unread # {}
    /\ LET i == CHOOSE i \in workers[w].unread : \A j \in workers[w].unread : i <= j
       IN /\ issues' = IF issues[i].status # "NONE" THEN issues
                       ELSE [issues EXCEPT ![i].status = "PENDING", ![i].due = TRUE]
          /\ workers' = [workers EXCEPT ![w].unread = @ \ {i}]
    /\ UNCHANGED <<active, chain, stored, partition, inspected, faults>>

\* MUTANT: the update names the partition only.
WrittenByAnyone(w, row) == {partition, row}

\* A conditional update names the owner and the lease end that the scan knows.
\* It changes nothing when another owner has the partition, and nothing while the
\* answer to a renewal of this worker is still on its way.
Written(w, row) == IF partition.owner = w THEN {partition, row} ELSE {partition}

\* A lease that is no longer owned is an error, which ends the scan.
saveIncomingCursor(w) ==
    /\ At(w, "store") /\ workers[w].found = {} /\ workers[w].unread = {}
    /\ partition' \in Written(w, IF workers[w].next = workers[w].cursor THEN partition
                                 ELSE [partition EXCEPT !.cursor = workers[w].next])
    /\ workers' = [workers EXCEPT ![w] = [Idle EXCEPT !.pc = "release"]]
    /\ UNCHANGED <<active, chain, stored, issues, inspected, faults>>

\* Capacity refused, RPC or database error: the cursor stays where it was.
ScanFails(w) ==
    /\ workers[w].pc \in {"scan", "store"}
    /\ Fault
    /\ workers' = [workers EXCEPT ![w] = [Idle EXCEPT !.pc = "release"]]
    /\ UNCHANGED <<active, chain, stored, issues, partition, inspected>>

releaseIncomingPartition(w) ==
    /\ At(w, "release")
    /\ partition' \in Written(w, [partition EXCEPT !.owner = Nothing, !.live = FALSE])
    /\ workers' = [workers EXCEPT ![w] = [Idle EXCEPT !.pc = "claimIssues"]]
    /\ UNCHANGED <<active, chain, stored, issues, inspected, faults>>

LeaseExpires ==
    /\ partition.live
    /\ partition' = [partition EXCEPT !.live = FALSE]
    /\ UNCHANGED <<active, chain, stored, issues, workers, inspected, faults>>

----------------------------------------------------------------------------
(* Issues. *)

Lesser(a, b) == IF a < b THEN a ELSE b
CountAfter(before) == Lesser(before + 1, MaxRetries + 1)

Spent(i) ==
    /\ issues[i].status = "PENDING" /\ issues[i].due
    /\ issues[i].retries >= MaxRetries + 1 /\ issues[i].recoveries >= 1
Claimable(i) ==
    /\ issues[i].status = "PENDING" /\ issues[i].due
    /\ issues[i].retries < MaxRetries + 1 \/ issues[i].recoveries < 1

\* MUTANT: the counter moves only when an inspection fails.
ClaimedUncounted(issue) == [issue EXCEPT !.due = FALSE]

Claimed(issue) ==
    [issue EXCEPT !.due = FALSE, !.retries = CountAfter(issue.retries),
                  !.recoveries = @ + (IF issue.retries >= MaxRetries THEN 1 ELSE 0)]

\* Issues whose last claim died are exhausted, all others that are due claimed.
claimIncomingReconciliationIssues(w) ==
    /\ At(w, "claimIssues")
    /\ issues' = [i \in Slots |->
                    IF Spent(i) THEN [issues[i] EXCEPT !.status = "EXHAUSTED"]
                    ELSE IF Claimable(i) THEN Claimed(issues[i]) ELSE issues[i]]
    /\ LET batch == {i \in Slots : Claimable(i)}
       IN workers' = [workers EXCEPT ![w].pc = "issues",
                                     ![w].batch = [i \in batch |-> issues[i].retries]]
    /\ UNCHANGED <<active, chain, stored, partition, inspected, faults>>

Pending(w) == DOMAIN workers[w].batch
RetryCount(w, i) == CountAfter(workers[w].batch[i])
Rest(w, i) == [j \in Pending(w) \ {i} |-> workers[w].batch[j]]
DropIssue(w, i) ==
    workers' = [workers EXCEPT ![w].pc = "issues", ![w].batch = Rest(w, i)]

ChangePending(i, issue) ==
    issues' = IF issues[i].status = "PENDING" THEN [issues EXCEPT ![i] = issue]
              ELSE issues
Exhausted(i) == [issues[i] EXCEPT !.status = "EXHAUSTED"]

\* The claim beyond the last retry.
exhaustIncomingReconciliationIssue(w, i) ==
    /\ At(w, "issues") /\ i \in Pending(w)
    /\ RetryCount(w, i) > MaxRetries
    /\ ChangePending(i, Exhausted(i))
    /\ DropIssue(w, i)
    /\ UNCHANGED <<active, chain, stored, partition, inspected, faults>>

\* Capacity refused: the claim is given back unless the row has moved on.
deferIncomingReconciliationIssue(w, i) ==
    /\ At(w, "issues") /\ i \in Pending(w)
    /\ RetryCount(w, i) <= MaxRetries
    /\ Fault
    /\ IF issues[i].status = "PENDING" /\ issues[i].retries = RetryCount(w, i)
       THEN issues' = [issues EXCEPT ![i].due = FALSE,
                                     ![i].retries = workers[w].batch[i]]
       ELSE IF RetryCount(w, i) >= MaxRetries
            THEN ChangePending(i, Exhausted(i)) ELSE UNCHANGED issues
    /\ DropIssue(w, i)
    /\ UNCHANGED <<active, chain, stored, partition, inspected>>

\* Still unreadable, or the inspection fails: exhausted on the last retry.
InspectUnresolved(w, i) ==
    /\ At(w, "issues") /\ i \in Pending(w)
    /\ RetryCount(w, i) <= MaxRetries
    /\ inspected' = [inspected EXCEPT ![i] = @ + 1]
    /\ IF RetryCount(w, i) >= MaxRetries THEN ChangePending(i, Exhausted(i))
       ELSE UNCHANGED issues
    /\ DropIssue(w, i)
    /\ UNCHANGED <<active, chain, stored, partition, faults>>

\* MUTANT: the issue is resolved first, and the process may stop after that.
InspectResolvedFirst(w, i) ==
    /\ At(w, "issues") /\ i \in Pending(w)
    /\ RetryCount(w, i) <= MaxRetries
    /\ inspected' = [inspected EXCEPT ![i] = @ + 1]
    /\ ChangePending(i, [issues[i] EXCEPT !.status = "RESOLVED"])
    /\ stored' \in {stored, stored \union {i}}
    /\ DropIssue(w, i)
    /\ UNCHANGED <<active, chain, partition, faults>>

\* Read at last: a transfer is stored first, and the issue resolved after it.
InspectResolved(w, i) ==
    /\ At(w, "issues") /\ i \in Pending(w)
    /\ RetryCount(w, i) <= MaxRetries
    /\ inspected' = [inspected EXCEPT ![i] = @ + 1]
    /\ stored' = IF chain[i] THEN stored \union {i} ELSE stored
    /\ workers' = [workers EXCEPT ![w].pc = "resolve", ![w].found = {i}]
    /\ UNCHANGED <<active, chain, issues, partition, faults>>

resolveIncomingReconciliationIssue(w) ==
    /\ At(w, "resolve")
    /\ \E i \in workers[w].found :
         /\ ChangePending(i, [issues[i] EXCEPT !.status = "RESOLVED"])
         /\ workers' = [workers EXCEPT ![w].pc = "issues", ![w].found = {},
                                       ![w].batch = Rest(w, i)]
    /\ UNCHANGED <<active, chain, stored, partition, inspected, faults>>

BackoffElapses(i) ==
    /\ issues[i].status = "PENDING" /\ ~issues[i].due
    /\ issues' = [issues EXCEPT ![i].due = TRUE]
    /\ UNCHANGED <<active, chain, stored, partition, workers, inspected, faults>>

----------------------------------------------------------------------------
(* The end of a run, and its death. *)

\* The run ends with the pass over unmatched transfers.
EndRun(w) ==
    /\ At(w, "issues") /\ Pending(w) = {}
    /\ workers' = [workers EXCEPT ![w] = Idle]
    /\ UNCHANGED <<active, chain, stored, issues, partition, inspected, faults>>

\* The process stops; its successor has another owner string.
Crash(w) ==
    /\ ~At(w, "idle")
    /\ Fault
    /\ workers' = [workers EXCEPT ![w] = Idle]
    /\ partition' = IF partition.owner = w THEN [partition EXCEPT !.owner = Gone]
                    ELSE partition
    /\ UNCHANGED <<active, chain, stored, issues, inspected>>

Work(w) ==
    \/ claimIncomingPartition(w) \/ scanWithCursor(w) \/ StoreTransfer(w)
    \/ recordIncomingReconciliationIssue(w) \/ saveIncomingCursor(w)
    \/ releaseIncomingPartition(w)
    \/ claimIncomingReconciliationIssues(w)
    \/ \E i \in Slots : \/ exhaustIncomingReconciliationIssue(w, i)
                        \/ InspectUnresolved(w, i) \/ InspectResolved(w, i)
    \/ resolveIncomingReconciliationIssue(w)
    \/ EndRun(w)

Next ==
    \/ \E relevant \in Kinds : Land(relevant)
    \/ \E i \in Slots : BackoffElapses(i)
    \/ SwitchAccount \/ LeaseExpires
    \/ \E w \in Workers :
         \/ Work(w) \/ renewIncomingPartition(w) \/ ScanFails(w) \/ Crash(w)
         \/ \E i \in Slots : deferIncomingReconciliationIssue(w, i)

Spec == Init /\ [][Next]_vars

\* Workers are started in a loop and a process that stopped is started again;
\* clocks run.  Faults are finitely many, the agent and the chain owe nothing.
Fairness ==
    /\ \A w \in Workers : WF_vars(Work(w))
    /\ \A i \in Slots : WF_vars(BackoffElapses(i))
    /\ WF_vars(LeaseExpires)

FairSpec == Spec /\ Fairness

----------------------------------------------------------------------------
(* Properties. *)

Relevant(i) == i \in DOMAIN chain /\ chain[i]

\* The saved cursor never passes a transfer that is neither stored nor kept as
\* an issue: not when a worker loses its lease, a node lags or a process stops
\* between storing and saving, or between storing and resolving (incoming.ts
\* reconcileAccount and reconcilePendingIssues).  Only a page without part of the
\* history can make it do so.
NoTransferLost ==
    \A i \in Slots :
      (i <= partition.cursor /\ Relevant(i)) =>
         i \in stored \/ issues[i].status \in {"PENDING", "EXHAUSTED"}

\* A step that moves the cursor is taken by the owner, from where its scan began
\* to where it ended.
MovesOwnCursor ==
    partition'.cursor # partition.cursor =>
       \E w \in Workers : /\ partition.owner = w
                          /\ workers[w].cursor = partition.cursor
                          /\ workers[w].next = partition'.cursor

\* The cursor moves only from where its writer found it, so no worker undoes the
\* progress of another (saveIncomingCursor compares owner and lease end).
CursorHandedOver == [][MovesOwnCursor]_vars

\* An issue is inspected at most MaxRetries times, however many workers claim it
\* after each other's back-off and however often capacity hands a claim back
\* (claim and deferIncomingReconciliationIssue).
InspectionsBounded == \A i \in Slots : inspected[i] <= MaxRetries

\* A transfer that landed is eventually stored, or given to an operator as an
\* exhausted issue, while the account stays active.
EventuallyAccounted ==
    \A i \in Slots :
      Relevant(i) ~> (i \in stored \/ issues[i].status = "EXHAUSTED" \/ ~active)
=============================================================================
