--------------------------- MODULE IncomingProofs ---------------------------
(***************************************************************************)
(* Proofs about IncomingReconciliation, for any number of workers, chain   *)
(* length, retry limit and number of faults.                               *)
(*                                                                         *)
(* The cursor: what is accounted for stays accounted for, so a worker that *)
(* has lost its lease can do no harm; what it was about to store is still  *)
(* in its hands when it saves the cursor.  The retries: claims of an issue *)
(* that are open at the same time have different counts, all below the     *)
(* row's, so a claim that is given back gives back its own count.          *)
(***************************************************************************)
EXTENDS IncomingReconciliation, FiniteSetTheorems, WellFoundedInduction, TLAPS

\* A leaf is left to Zenon, unless it names SMT: those need arithmetic, or terms of
\* records and functions that Zenon does not simplify.
USE ZenonT(60)

-----------------------------------------------------------------------------
(* The invariants. *)

Issue == [status: {"NONE", "PENDING", "EXHAUSTED", "RESOLVED"}, retries: Nat,
          recoveries: Nat, due: BOOLEAN]

Partition == [cursor: Nat, owner: Workers \cup {Nothing, Gone}, live: BOOLEAN]

Batch == UNION {[A -> Nat] : A \in SUBSET Slots}

Local == [pc: {"idle", "scan", "store", "release", "claimIssues", "issues", "resolve"},
          cursor: Nat, next: Nat, found: SUBSET Nat, unread: SUBSET Nat, batch: Batch]

\* Position i is on the chain and, when it brings money, stored.
Safe(i) == i \in DOMAIN chain /\ (chain[i] => i \in stored)

\* ... or kept as an issue.
Accounted(i) ==
    /\ i \in DOMAIN chain
    /\ WholeHistory /\ chain[i] =>
         i \in stored \/ issues[i].status \in {"PENDING", "EXHAUSTED"}

Known(i) == i \in Slots /\ issues[i].status # "NONE"

LocalOK(s) ==
    /\ s.pc = "scan" => \A i \in 1..s.cursor : Accounted(i)
    /\ s.pc = "store" =>
         /\ s.found \subseteq DOMAIN chain /\ s.unread \subseteq DOMAIN chain
         /\ \A i \in 1..s.next : Accounted(i) \/ i \in s.found \/ i \in s.unread
    /\ s.pc \in {"issues", "resolve"} => \A i \in DOMAIN s.batch : Known(i)
    /\ s.pc = "resolve" => \E i \in DOMAIN s.batch : s.found = {i} /\ Safe(i)

IssueOK(i) ==
    /\ issues[i].status # "NONE" => i \in DOMAIN chain
    /\ issues[i].status = "RESOLVED" => Safe(i)

\* Only the owner's scan can move the cursor, and it started from there.
OwnerOK(w, s) == partition.owner = w /\ s.pc \in {"scan", "store"} => s.cursor = partition.cursor

ScanInv ==
    /\ chain \in Seq(BOOLEAN) /\ DOMAIN chain \subseteq Slots
    /\ issues \in [Slots -> Issue] /\ partition \in Partition /\ workers \in [Workers -> Local]
    /\ \A i \in 1..partition.cursor : Accounted(i)
    /\ \A i \in Slots : IssueOK(i)
    /\ \A w \in Workers : LocalOK(workers[w]) /\ OwnerOK(w, workers[w])

\* A claim of issue i that may still inspect it, in worker state s.
OpenIn(s, i) ==
    /\ s.pc \in {"issues", "resolve"} /\ i \in DOMAIN s.batch /\ s.batch[i] < MaxRetries
    /\ ~(s.pc = "resolve" /\ i \in s.found)

Open(i) == {w \in Workers : OpenIn(workers[w], i)}
Levels(i) == {workers[w].batch[i] : w \in Open(i)}

CountOK(i) ==
    /\ \A w, v \in Open(i) : workers[w].batch[i] = workers[v].batch[i] => w = v
    /\ \A w \in Open(i) : workers[w].batch[i] < issues[i].retries
    /\ inspected[i] + Cardinality(Levels(i)) <= Lesser(issues[i].retries, MaxRetries)

IncomingInv == ScanInv /\ inspected \in [Slots -> Nat] /\ \A i \in Slots : CountOK(i)

-----------------------------------------------------------------------------
(* What lasts. *)

\* What a step does to the status of issue i.
StatusStep(i) ==
    \/ issues'[i].status = issues[i].status
    \/ issues[i].status = "NONE" /\ issues'[i].status = "PENDING" /\ i \in DOMAIN chain
    \/ issues[i].status = "PENDING" /\ issues'[i].status = "EXHAUSTED"
    \/ issues[i].status = "PENDING" /\ issues'[i].status = "RESOLVED" /\ Safe(i)

Lasting ==
    /\ \A i : (Safe(i) => Safe(i)') /\ (Accounted(i) => Accounted(i)') /\ (Known(i) => Known(i)')
    /\ DOMAIN chain \subseteq DOMAIN chain'

LEMMA LocalKept ==
    ASSUME NEW s, LocalOK(s), Lasting
    PROVE  LocalOK(s)'
BY DEF LocalOK, Lasting

LEMMA LocalReached ==
    ASSUME NEW w, NEW s, LocalOK(s)', workers'[w] = s
    PROVE  LocalOK(workers[w])'
BY DEF LocalOK, Safe, Accounted, Known

LEMMA OwnerReached ==
    ASSUME NEW w, NEW s, OwnerOK(w, s)', workers'[w] = s
    PROVE  OwnerOK(w, workers[w])'
BY DEF OwnerOK

LEMMA IssuesMove ==
    ASSUME ScanInv, chain' = chain, stored \subseteq stored', issues' \in [Slots -> Issue],
           \A i \in Slots : StatusStep(i)
    PROVE  Lasting /\ \A i \in Slots : IssueOK(i)'
<1>1. \A i : Safe(i) => Safe(i)'
  BY DEF Safe
<1>2. ASSUME NEW i, Accounted(i) PROVE Accounted(i)'
  <2>1. i \in Slots /\ StatusStep(i)
    BY <1>2 DEF Accounted, ScanInv
  <2> QED
    BY <1>2, <2>1 DEF Accounted, StatusStep, Safe
<1>3. ASSUME NEW i, Known(i) PROVE Known(i)'
  BY <1>3 DEF Known, StatusStep
<1>4. ASSUME NEW i \in Slots PROVE IssueOK(i)'
  <2>1. IssueOK(i) /\ StatusStep(i) /\ (Safe(i) => Safe(i)')
    BY <1>1 DEF ScanInv
  <2> QED
    BY <2>1 DEF IssueOK, StatusStep
<1> QED
  BY <1>1, <1>2, <1>3, <1>4 DEF Lasting

\* What is left to show of a step that makes things last.
LEMMA Moves ==
    ASSUME ScanInv, Lasting, chain' \in Seq(BOOLEAN), DOMAIN chain' \subseteq Slots,
           issues' \in [Slots -> Issue], partition' \in Partition, workers' \in [Workers -> Local],
           \A i \in Slots : IssueOK(i)',
           partition'.cursor = partition.cursor \/ \A i \in 1..partition'.cursor : Accounted(i)',
           NEW w, w \in Workers => LocalOK(workers[w])' /\ OwnerOK(w, workers[w])',
           \A v \in Workers \ {w} :
              /\ workers'[v] = workers[v]
              /\ partition'.owner = v => /\ partition.owner = v
                                         /\ partition'.cursor = partition.cursor
    PROVE  ScanInv'
<1>1. \A i \in 1..partition'.cursor : Accounted(i)'
  BY DEF ScanInv, Lasting
<1>2. ASSUME NEW v \in Workers \ {w} PROVE LocalOK(workers[v])' /\ OwnerOK(v, workers[v])'
  <2>1. PICK s : s = workers[v]
    OBVIOUS
  <2>2. LocalOK(s) /\ OwnerOK(v, s)
    BY <2>1 DEF ScanInv
  <2>3. LocalOK(s)'
    BY <2>2, LocalKept
  <2>4. OwnerOK(v, s)'
    BY <2>2 DEF OwnerOK
  <2>5. workers'[v] = s
    BY <2>1
  <2> QED
    BY <2>3, <2>4, <2>5, LocalReached, OwnerReached
<1> QED
  BY <1>1, <1>2 DEF ScanInv

\* One worker moves; the chain stands still.
LEMMA WorkerStep ==
    ASSUME ScanInv, NEW w \in Workers, NEW x \in Local, workers' = [workers EXCEPT ![w] = x],
           chain' = chain, stored \subseteq stored', issues' \in [Slots -> Issue],
           \A i \in Slots : StatusStep(i), partition' \in Partition,
           partition'.cursor = partition.cursor \/ \A i \in 1..partition'.cursor : Accounted(i)',
           \A v \in Workers : v # w /\ partition'.owner = v =>
                                 /\ partition.owner = v
                                 /\ partition'.cursor = partition.cursor,
           LocalOK(x)', OwnerOK(w, x)'
    PROVE  ScanInv'
<1>1. Lasting /\ \A i \in Slots : IssueOK(i)'
  BY IssuesMove
<1>2. workers' \in [Workers -> Local] /\ workers'[w] = x
      /\ \A v \in Workers : v # w => workers'[v] = workers[v]
  BY DEF ScanInv
<1>3. LocalOK(workers[w])' /\ OwnerOK(w, workers[w])'
  BY <1>2, LocalReached, OwnerReached
<1>4. chain' \in Seq(BOOLEAN) /\ DOMAIN chain' \subseteq Slots
  BY DEF ScanInv
<1> QED
  BY SMTT(30), <1>1, <1>2, <1>3, <1>4, Moves

\* Worker w is the only one to move, and to a place outside the issues.
Alone(w) ==
    /\ workers'[w].pc \notin {"issues", "resolve"}
    /\ \A v \in Workers \ {w} : workers'[v] = workers[v]

LEMMA AloneIs ==
    ASSUME ScanInv, NEW w \in Workers, NEW x, workers' = [workers EXCEPT ![w] = x],
           x.pc \notin {"issues", "resolve"}
    PROVE  Alone(w)
BY DEF Alone, ScanInv

\* One worker moves and nothing is written but transfers.
LEMMA QuietStep ==
    ASSUME ScanInv, NEW w \in Workers, NEW x \in Local, workers' = [workers EXCEPT ![w] = x],
           UNCHANGED <<chain, issues, partition>>, stored \subseteq stored',
           LocalOK(x)', OwnerOK(w, x)'
    PROVE  ScanInv'
<1>1. issues' \in [Slots -> Issue] /\ \A i \in Slots : StatusStep(i)
  BY DEF ScanInv, StatusStep
<1>2. partition' \in Partition
  BY DEF ScanInv
<1> QED
  BY <1>1, <1>2, WorkerStep

\* A worker that holds nothing.
LEMMA Unburdened ==
    ASSUME NEW pc \in {"idle", "release", "claimIssues"}
    PROVE  /\ [Idle EXCEPT !.pc = pc] \in Local /\ Idle \in Local
           /\ [Idle EXCEPT !.pc = pc].pc = pc /\ Idle.pc = "idle"
<1>1. Idle.batch \in Batch
  <2>1. [i \in {} |-> 0] \in [{} -> Nat]
    OBVIOUS
  <2> QED
    BY <2>1 DEF Idle, Batch
<1> QED
  BY <1>1 DEF Idle, Local

LEMMA NothingHeld ==
    ASSUME NEW s, s.pc \in {"idle", "release", "claimIssues"}, NEW w
    PROVE  LocalOK(s)' /\ OwnerOK(w, s)'
BY DEF LocalOK, OwnerOK

\* A set of naturals that is not empty has a least member.
LEMMA LeastOf ==
    ASSUME NEW S, S \in SUBSET Nat, S # {}
    PROVE  \E j \in S : \A k \in S : j <= k
<1>1. IsWellFoundedOn({ss \in Nat \X Nat : ss[1] < ss[2]}, Nat)
  BY NatLessThanWellFounded DEF OpToRel
<1>2. PICK j \in S : \A k \in S : ~(<<k, j>> \in {ss \in Nat \X Nat : ss[1] < ss[2]})
  BY <1>1, WFMin
<1>3. \A k \in S : ~(k < j)
  BY <1>2
<1> QED
  BY SMTT(30), <1>3

-----------------------------------------------------------------------------
(* The scan. *)

LEMMA ClaimPartitionKeeps ==
    ASSUME ScanInv, NEW w \in Workers, claimIncomingPartition(w)
    PROVE  ScanInv'
<1>1. UNCHANGED <<chain, stored, issues>>
  BY DEF claimIncomingPartition
<1>2. PICK s : s = workers[w] /\ s \in Local
  BY DEF ScanInv
<1>3. CASE Goto(w, "claimIssues") /\ UNCHANGED partition
  <2>1. PICK x : x = [s EXCEPT !.pc = "claimIssues"]
    OBVIOUS
  <2>2. x \in Local /\ x.pc = "claimIssues"
    BY <1>2, <2>1 DEF Local
  <2>3. workers' = [workers EXCEPT ![w] = x]
    BY <1>2, <1>3, <2>1 DEF Goto, ScanInv
  <2>4. LocalOK(x)' /\ OwnerOK(w, x)'
    BY SMTT(30), <2>2, NothingHeld
  <2> QED
    BY <1>1, <1>3, <2>2, <2>3, <2>4, QuietStep
<1>4. CASE /\ partition' = [partition EXCEPT !.owner = w, !.live = TRUE]
           /\ workers' = [workers EXCEPT ![w].pc = "scan", ![w].cursor = partition.cursor]
  <2>1. PICK x : x = [s EXCEPT !.pc = "scan", !.cursor = partition.cursor]
    OBVIOUS
  <2>2. /\ partition' \in Partition /\ partition'.cursor = partition.cursor
        /\ partition.cursor \in Nat /\ partition'.owner = w
    BY <1>4 DEF ScanInv, Partition
  <2>3. x \in Local /\ x.pc = "scan" /\ x.cursor = partition.cursor
    BY <1>2, <2>1, <2>2 DEF Local
  <2>4. workers' = [workers EXCEPT ![w] = x]
    BY <1>2, <1>4, <2>1 DEF ScanInv
  <2>5. \A i \in 1..partition.cursor : Accounted(i)'
    BY <1>1 DEF ScanInv, Accounted
  <2>6. LocalOK(x)' /\ OwnerOK(w, x)'
    BY <2>2, <2>3, <2>5 DEF LocalOK, OwnerOK
  <2>7. issues' \in [Slots -> Issue] /\ \A i \in Slots : StatusStep(i)
    BY <1>1 DEF ScanInv, StatusStep
  <2> QED
    BY <1>1, <2>2, <2>3, <2>4, <2>6, <2>7, WorkerStep
<1> QED
  BY <1>3, <1>4 DEF claimIncomingPartition

LEMMA ScanKeeps ==
    ASSUME ScanInv, NEW w \in Workers, scanWithCursor(w)
    PROVE  ScanInv' /\ Alone(w)
<1>1. UNCHANGED <<chain, stored, issues, partition>> /\ workers[w].pc = "scan"
  BY DEF scanWithCursor, At
<1>2. PICK s : s = workers[w] /\ s \in Local /\ LocalOK(s) /\ OwnerOK(w, s)
  BY DEF ScanInv
<1> DEFINE Listing(seen, from) ==
             LET listed == (from + 1)..seen
             IN \E unread \in SUBSET (listed \intersect Unreadable) :
                  workers' = [workers EXCEPT ![w].pc = "store",
                                ![w].found = {i \in listed \ unread : chain[i]},
                                ![w].unread = unread,
                                ![w].next = IF seen = 0 THEN s.cursor ELSE seen]
<1>3e. PICK seen \in 0..Len(chain) :
         \E from \in collectHistory(seen, s.cursor) : Listing(seen, from)
  BY <1>2 DEF scanWithCursor
<1>3a. PICK from \in collectHistory(seen, s.cursor) : Listing(seen, from)
  BY <1>3e
<1>3b. /\ from \in Nat
       /\ WholeHistory => from = IF seen >= s.cursor THEN s.cursor ELSE 0
  <2>1. s.cursor \in Nat /\ seen \in Nat
    BY SMTT(30), <1>2 DEF Local, ScanInv
  <2>2. PICK f : f = IF seen >= s.cursor THEN s.cursor ELSE 0
    OBVIOUS
  <2>3. f \in Nat
    BY <2>1, <2>2
  <2>4. from = f \/ (~WholeHistory /\ from \in (f + 1)..(seen - 1))
    BY <1>3a, <2>2 DEF collectHistory
  <2>5. from \in Nat
    BY SMTT(30), <2>1, <2>3, <2>4
  <2> QED
    BY <2>2, <2>4, <2>5
<1>3c. PICK unread \in SUBSET (((from + 1)..seen) \intersect Unreadable) :
         workers' = [workers EXCEPT ![w].pc = "store",
                       ![w].found = {i \in ((from + 1)..seen) \ unread : chain[i]},
                       ![w].unread = unread,
                       ![w].next = IF seen = 0 THEN s.cursor ELSE seen]
  BY <1>3a
<1>3d. PICK found, next : /\ found = {i \in ((from + 1)..seen) \ unread : chain[i]}
                          /\ next = IF seen = 0 THEN s.cursor ELSE seen
  OBVIOUS
<1>3. workers' = [workers EXCEPT ![w].pc = "store", ![w].found = found,
                                 ![w].unread = unread, ![w].next = next]
  BY <1>3c, <1>3d
<1>4. s.cursor \in Nat /\ from \in Nat /\ seen \in Nat /\ next \in Nat /\ seen <= Len(chain)
      /\ chain \in Seq(BOOLEAN) /\ Len(chain) \in Nat /\ DOMAIN chain = 1..Len(chain)
  BY SMTT(30), <1>2, <1>3b, <1>3d DEF Local, ScanInv
<1>5. (from + 1)..seen \subseteq DOMAIN chain
  BY SMTT(30), <1>4
<1>6. found \subseteq DOMAIN chain /\ unread \subseteq DOMAIN chain
      /\ found \subseteq Nat /\ unread \subseteq Nat
  BY SMTT(30), <1>3d, <1>4, <1>5
<1>7. PICK x : x = [s EXCEPT !.pc = "store", !.found = found, !.unread = unread, !.next = next]
  OBVIOUS
<1>8. /\ x \in Local /\ x.pc = "store" /\ x.found = found /\ x.unread = unread
      /\ x.next = next /\ x.cursor = s.cursor
  BY <1>2, <1>4, <1>6, <1>7 DEF Local
<1>9. workers' = [workers EXCEPT ![w] = x]
  BY <1>2, <1>3, <1>7 DEF ScanInv
<1>10. \A i \in 1..s.cursor : Accounted(i)
  BY <1>1, <1>2 DEF LocalOK
<1>11. ASSUME NEW i \in 1..next PROVE Accounted(i) \/ i \in found \/ i \in unread
  <2>1. CASE i \in 1..s.cursor
    BY <1>10, <2>1
  <2>2. CASE i \notin 1..s.cursor /\ ~WholeHistory
    <3>1. i \in DOMAIN chain
      BY SMTT(30), <1>3d, <1>4, <2>2
    <3> QED
      BY <2>2, <3>1 DEF Accounted
  <2>3. CASE i \notin 1..s.cursor /\ WholeHistory
    <3>1. i \in (from + 1)..seen
      BY SMTT(30), <1>3b, <1>3d, <1>4, <2>3
    <3>2. chain[i] \in BOOLEAN /\ i \in DOMAIN chain
      BY SMTT(30), <1>4, <1>5, <3>1
    <3> QED
      BY <1>3d, <3>1, <3>2 DEF Accounted
  <2> QED
    BY <2>1, <2>2, <2>3
<1>12. \A i \in 1..next : Accounted(i)' \/ i \in found \/ i \in unread
  BY <1>1, <1>11 DEF Accounted
<1>13. LocalOK(x)'
  BY <1>1, <1>6, <1>8, <1>12 DEF LocalOK
<1>14. OwnerOK(w, x)'
  BY <1>1, <1>2, <1>8 DEF OwnerOK
<1> QED
  BY <1>1, <1>8, <1>9, <1>13, <1>14, QuietStep, AloneIs

LEMMA StoreTransferKeeps ==
    ASSUME ScanInv, NEW w \in Workers, StoreTransfer(w)
    PROVE  ScanInv' /\ Alone(w)
<1>1. UNCHANGED <<chain, issues, partition>> /\ workers[w].pc = "store"
  BY DEF StoreTransfer, At
<1>2. PICK s : s = workers[w] /\ s \in Local /\ LocalOK(s) /\ OwnerOK(w, s)
  BY DEF ScanInv
<1>3. PICK i : stored' = stored \union {i} /\ workers' = [workers EXCEPT ![w].found = @ \ {i}]
  BY DEF StoreTransfer
<1>4. PICK x : x = [s EXCEPT !.found = s.found \ {i}]
  OBVIOUS
<1>5. /\ x \in Local /\ x.pc = "store" /\ x.found = s.found \ {i} /\ x.unread = s.unread
      /\ x.next = s.next /\ x.cursor = s.cursor
  BY <1>1, <1>2, <1>4 DEF Local
<1>6. workers' = [workers EXCEPT ![w] = x]
  BY <1>2, <1>3, <1>4 DEF ScanInv
<1>7. ASSUME NEW j \in 1..s.next PROVE Accounted(j)' \/ j \in x.found \/ j \in x.unread
  <2>1. Accounted(j) \/ j \in s.found \/ j \in s.unread
    BY <1>1, <1>2 DEF LocalOK
  <2>2. s.found \subseteq DOMAIN chain
    BY <1>1, <1>2 DEF LocalOK
  <2> QED
    BY <1>1, <1>3, <1>5, <2>1, <2>2 DEF Accounted
<1>8. LocalOK(x)'
  BY <1>1, <1>2, <1>5, <1>7 DEF LocalOK
<1>9. OwnerOK(w, x)'
  BY <1>1, <1>2, <1>5 DEF OwnerOK
<1> QED
  BY <1>1, <1>3, <1>5, <1>6, <1>8, <1>9, QuietStep, AloneIs

LEMMA RecordIssueKeeps ==
    ASSUME ScanInv, NEW w \in Workers, recordIncomingReconciliationIssue(w)
    PROVE  ScanInv' /\ Alone(w) /\ \A j \in Slots : issues'[j].retries = issues[j].retries
<1>1. UNCHANGED <<chain, stored, partition>> /\ workers[w].pc = "store" /\ workers[w].unread # {}
  BY DEF recordIncomingReconciliationIssue, At
<1>2. PICK s : s = workers[w] /\ s \in Local /\ LocalOK(s) /\ OwnerOK(w, s)
  BY DEF ScanInv
<1>3a. PICK i : i = CHOOSE k \in s.unread : \A j \in s.unread : k <= j
  OBVIOUS
<1>3. /\ issues' = IF issues[i].status # "NONE" THEN issues
                   ELSE [issues EXCEPT ![i].status = "PENDING", ![i].due = TRUE]
      /\ workers' = [workers EXCEPT ![w].unread = @ \ {i}]
  BY SMTT(30), <1>2, <1>3a DEF recordIncomingReconciliationIssue
<1>4. i \in s.unread
  <2>1. s.unread \in SUBSET Nat /\ s.unread # {}
    BY <1>1, <1>2 DEF Local
  <2>2. \E j \in s.unread : \A k \in s.unread : j <= k
    BY <2>1, LeastOf
  <2> QED
    BY <1>3a, <2>2
<1>5. i \in DOMAIN chain /\ i \in Slots
  BY <1>1, <1>2, <1>4 DEF LocalOK, ScanInv
<1>6. /\ issues' \in [Slots -> Issue] /\ \A j \in Slots : j # i => issues'[j] = issues[j]
      /\ issues'[i].status = IF issues[i].status # "NONE" THEN issues[i].status ELSE "PENDING"
      /\ issues[i] \in Issue /\ issues'[i].retries = issues[i].retries
  BY <1>3, <1>5 DEF ScanInv, Issue
<1>7. \A j \in Slots : StatusStep(j)
  BY <1>5, <1>6 DEF StatusStep
<1>8. PICK x : x = [s EXCEPT !.unread = s.unread \ {i}]
  OBVIOUS
<1>9. /\ x \in Local /\ x.pc = "store" /\ x.unread = s.unread \ {i} /\ x.found = s.found
      /\ x.next = s.next /\ x.cursor = s.cursor
  BY <1>1, <1>2, <1>8 DEF Local
<1>10. workers' = [workers EXCEPT ![w] = x]
  BY <1>2, <1>3, <1>8 DEF ScanInv
<1>11. Accounted(i)'
  <2>1. issues'[i].status = "RESOLVED" => Safe(i)
    BY <1>5, <1>6 DEF ScanInv, IssueOK
  <2>2. issues'[i].status \in {"PENDING", "EXHAUSTED", "RESOLVED"}
    BY <1>6 DEF Issue
  <2> QED
    BY <1>1, <1>5, <2>1, <2>2 DEF Accounted, Safe
<1>12. Lasting
  BY <1>1, <1>6, <1>7, IssuesMove
<1>13. ASSUME NEW j \in 1..s.next PROVE Accounted(j)' \/ j \in x.found \/ j \in x.unread
  <2>1. Accounted(j) \/ j \in s.found \/ j \in s.unread
    BY <1>1, <1>2 DEF LocalOK
  <2> QED
    BY <1>9, <1>11, <1>12, <2>1 DEF Lasting
<1>14. LocalOK(x)'
  BY <1>1, <1>2, <1>9, <1>13 DEF LocalOK
<1>15. OwnerOK(w, x)'
  BY <1>1, <1>2, <1>9 DEF OwnerOK
<1>16. partition' \in Partition
  BY <1>1 DEF ScanInv
<1>17. ScanInv'
  BY <1>1, <1>6, <1>7, <1>9, <1>10, <1>14, <1>15, <1>16, WorkerStep
<1>18. Alone(w)
  BY <1>9, <1>10, AloneIs
<1> QED
  BY <1>6, <1>17, <1>18

\* A conditional update keeps the owner, or is made by it.
LEMMA WrittenIs ==
    ASSUME ScanInv, NEW w \in Workers, NEW row \in Partition, partition' \in Written(w, row)
    PROVE  /\ partition' \in Partition
           /\ partition' = partition \/ (partition.owner = w /\ partition' = row)
BY DEF Written, ScanInv

LEMMA SaveCursorKeeps ==
    ASSUME ScanInv, NEW w \in Workers, saveIncomingCursor(w)
    PROVE  ScanInv'
<1>1. /\ UNCHANGED <<chain, stored, issues>> /\ workers[w].pc = "store"
      /\ workers[w].found = {} /\ workers[w].unread = {}
  BY DEF saveIncomingCursor, At
<1>2. PICK s : s = workers[w] /\ s \in Local /\ LocalOK(s)
  BY DEF ScanInv
<1>3. PICK row : row = IF s.next = s.cursor THEN partition
                       ELSE [partition EXCEPT !.cursor = s.next]
  OBVIOUS
<1>4. partition' \in Written(w, row)
  BY <1>2, <1>3 DEF saveIncomingCursor
<1>5. /\ row \in Partition /\ row.owner = partition.owner
      /\ row.cursor = partition.cursor \/ row.cursor = s.next
  BY <1>2, <1>3 DEF ScanInv, Partition, Local
<1>6. /\ partition' \in Partition /\ partition'.owner = partition.owner
      /\ \/ partition'.cursor = partition.cursor
         \/ partition.owner = w /\ partition'.cursor = s.next
  <2>1. partition' \in Partition /\ (partition' = partition \/ (partition.owner = w /\ partition' = row))
    BY <1>4, <1>5, WrittenIs
  <2> QED
    BY <1>5, <2>1
<1>7. \A i \in 1..s.next : Accounted(i)'
  BY <1>1, <1>2 DEF LocalOK, Accounted
<1>8. PICK x : x = [Idle EXCEPT !.pc = "release"]
  OBVIOUS
<1>9. x \in Local /\ x.pc = "release"
  BY <1>8, Unburdened
<1>10. LocalOK(x)' /\ OwnerOK(w, x)'
  BY SMTT(30), <1>9, NothingHeld
<1>11. workers' = [workers EXCEPT ![w] = x]
  BY <1>8 DEF saveIncomingCursor
<1>12. issues' \in [Slots -> Issue] /\ \A i \in Slots : StatusStep(i)
  BY <1>1 DEF ScanInv, StatusStep
<1>13. partition'.cursor = partition.cursor \/ \A i \in 1..partition'.cursor : Accounted(i)'
  BY <1>6, <1>7
<1>14. \A v \in Workers : v # w /\ partition'.owner = v =>
                             partition.owner = v /\ partition'.cursor = partition.cursor
  BY <1>6
<1> QED
  BY <1>1, <1>6, <1>9, <1>10, <1>11, <1>12, <1>13, <1>14, WorkerStep

LEMMA ReleaseKeeps ==
    ASSUME ScanInv, NEW w \in Workers, releaseIncomingPartition(w)
    PROVE  ScanInv'
<1>1. UNCHANGED <<chain, stored, issues>>
  BY DEF releaseIncomingPartition
<1>2. PICK row : row = [partition EXCEPT !.owner = Nothing, !.live = FALSE]
  OBVIOUS
<1>3. row \in Partition /\ row.owner = Nothing /\ row.cursor = partition.cursor
  BY <1>2 DEF ScanInv, Partition
<1>4. /\ partition' \in Partition /\ partition'.cursor = partition.cursor
      /\ partition'.owner = partition.owner \/ partition'.owner = Nothing
  BY <1>2, <1>3, WrittenIs DEF releaseIncomingPartition
<1>5. Nothing \notin Workers
  BY IncomingAssumption
<1>6. PICK x : x = [Idle EXCEPT !.pc = "claimIssues"]
  OBVIOUS
<1>7. x \in Local /\ x.pc = "claimIssues"
  BY <1>6, Unburdened
<1>8. LocalOK(x)' /\ OwnerOK(w, x)'
  BY SMTT(30), <1>7, NothingHeld
<1>9. workers' = [workers EXCEPT ![w] = x]
  BY <1>6 DEF releaseIncomingPartition
<1>10. issues' \in [Slots -> Issue] /\ \A i \in Slots : StatusStep(i)
  BY <1>1 DEF ScanInv, StatusStep
<1>11. \A v \in Workers : v # w /\ partition'.owner = v =>
                             partition.owner = v /\ partition'.cursor = partition.cursor
  BY <1>4, <1>5
<1> QED
  BY <1>1, <1>4, <1>7, <1>8, <1>9, <1>10, <1>11, WorkerStep

LEMMA ScanFailsKeeps ==
    ASSUME ScanInv, NEW w \in Workers, ScanFails(w)
    PROVE  ScanInv'
<1>1. PICK x : x = [Idle EXCEPT !.pc = "release"]
  OBVIOUS
<1>2. x \in Local /\ x.pc = "release"
  BY <1>1, Unburdened
<1>3. LocalOK(x)' /\ OwnerOK(w, x)'
  BY SMTT(30), <1>2, NothingHeld
<1>4. workers' = [workers EXCEPT ![w] = x] /\ UNCHANGED <<chain, stored, issues, partition>>
  BY <1>1 DEF ScanFails
<1> QED
  BY <1>2, <1>3, <1>4, QuietStep

LEMMA CrashKeeps ==
    ASSUME ScanInv, NEW w \in Workers, Crash(w)
    PROVE  ScanInv'
<1>1. UNCHANGED <<chain, stored, issues>>
  BY DEF Crash
<1>2. /\ partition' \in Partition /\ partition'.cursor = partition.cursor
      /\ partition'.owner = partition.owner \/ partition'.owner = Gone
  BY DEF Crash, ScanInv, Partition
<1>3. Gone \notin Workers
  BY IncomingAssumption
<1>4. PICK x : x = Idle
  OBVIOUS
<1>5. x \in Local /\ x.pc = "idle"
  BY <1>4, Unburdened
<1>6. LocalOK(x)' /\ OwnerOK(w, x)'
  BY SMTT(30), <1>5, NothingHeld
<1>7. workers' = [workers EXCEPT ![w] = x]
  BY <1>4 DEF Crash
<1>8. issues' \in [Slots -> Issue] /\ \A i \in Slots : StatusStep(i)
  BY <1>1 DEF ScanInv, StatusStep
<1>9. \A v \in Workers : v # w /\ partition'.owner = v =>
                            partition.owner = v /\ partition'.cursor = partition.cursor
  BY <1>2, <1>3
<1> QED
  BY <1>1, <1>2, <1>5, <1>6, <1>7, <1>8, <1>9, WorkerStep

LEMMA EndRunKeeps ==
    ASSUME ScanInv, NEW w \in Workers, EndRun(w)
    PROVE  ScanInv'
<1>1. PICK x : x = Idle
  OBVIOUS
<1>2. x \in Local /\ x.pc = "idle"
  BY <1>1, Unburdened
<1>3. LocalOK(x)' /\ OwnerOK(w, x)'
  BY SMTT(30), <1>2, NothingHeld
<1>4. workers' = [workers EXCEPT ![w] = x] /\ UNCHANGED <<chain, stored, issues, partition>>
  BY <1>1 DEF EndRun
<1> QED
  BY <1>2, <1>3, <1>4, QuietStep

\* A step of the partition's lease or of no process at all.
LEMMA LeaseKeeps ==
    ASSUME ScanInv, \/ LeaseExpires \/ SwitchAccount
                    \/ \E w \in Workers : renewIncomingPartition(w)
    PROVE  ScanInv'
<1>1. UNCHANGED <<chain, stored, issues, workers>>
  BY DEF LeaseExpires, SwitchAccount, renewIncomingPartition
<1>2. /\ partition' \in Partition /\ partition'.cursor = partition.cursor
      /\ partition'.owner = partition.owner
  BY DEF LeaseExpires, SwitchAccount, renewIncomingPartition, ScanInv, Partition
<1>3. issues' \in [Slots -> Issue] /\ \A i \in Slots : StatusStep(i)
  BY <1>1 DEF ScanInv, StatusStep
<1>4. Lasting /\ \A i \in Slots : IssueOK(i)'
  BY <1>1, <1>3, IssuesMove
<1>5. chain' \in Seq(BOOLEAN) /\ DOMAIN chain' \subseteq Slots /\ workers' \in [Workers -> Local]
  BY <1>1 DEF ScanInv
<1>6. Nothing \notin Workers
  BY IncomingAssumption
<1> QED
  BY <1>1, <1>2, <1>3, <1>4, <1>5, <1>6, Moves

LEMMA BackoffKeeps ==
    ASSUME ScanInv, NEW i \in Slots, BackoffElapses(i)
    PROVE  ScanInv'
<1>1. UNCHANGED <<chain, stored, partition, workers>>
      /\ issues' = [issues EXCEPT ![i].due = TRUE]
  BY DEF BackoffElapses
<1>2. issues' \in [Slots -> Issue] /\ \A j \in Slots : issues'[j].status = issues[j].status
  BY <1>1 DEF ScanInv, Issue
<1>3. \A j \in Slots : StatusStep(j)
  BY <1>2 DEF StatusStep
<1>4. Lasting /\ \A j \in Slots : IssueOK(j)'
  BY <1>1, <1>2, <1>3, IssuesMove
<1>5. chain' \in Seq(BOOLEAN) /\ DOMAIN chain' \subseteq Slots /\ workers' \in [Workers -> Local]
      /\ partition' \in Partition
  BY <1>1 DEF ScanInv
<1>6. Nothing \notin Workers
  BY IncomingAssumption
<1> QED
  BY <1>1, <1>2, <1>4, <1>5, <1>6, Moves

LEMMA LandKeeps ==
    ASSUME ScanInv, NEW relevant \in Kinds, Land(relevant)
    PROVE  ScanInv'
<1>1. UNCHANGED <<stored, issues, partition, workers>> /\ chain' = Append(chain, relevant)
      /\ Len(chain) + 1 \in Slots
  BY DEF Land
<1>2. relevant \in BOOLEAN /\ chain \in Seq(BOOLEAN)
  BY IncomingAssumption DEF ScanInv
<1>3. /\ chain' \in Seq(BOOLEAN) /\ Len(chain') = Len(chain) + 1 /\ Len(chain) \in Nat
      /\ DOMAIN chain = 1..Len(chain) /\ DOMAIN chain' = 1..Len(chain')
      /\ \A i \in DOMAIN chain : chain'[i] = chain[i]
  BY SMTT(30), <1>1, <1>2
<1>4. DOMAIN chain \subseteq DOMAIN chain'
      /\ \A i \in DOMAIN chain' : i \in DOMAIN chain \/ i = Len(chain) + 1
  BY SMTT(30), <1>3
<1>5. DOMAIN chain' \subseteq Slots
  BY <1>1, <1>4 DEF ScanInv
<1>6. Lasting
  BY <1>1, <1>3, <1>4 DEF Lasting, Safe, Accounted, Known
<1>7. ASSUME NEW i \in Slots PROVE IssueOK(i)'
  BY <1>1, <1>6 DEF IssueOK, ScanInv, Lasting
<1>8. issues' \in [Slots -> Issue] /\ workers' \in [Workers -> Local] /\ partition' \in Partition
  BY <1>1 DEF ScanInv
<1>9. Nothing \notin Workers
  BY IncomingAssumption
<1> QED
  BY <1>1, <1>3, <1>5, <1>6, <1>7, <1>8, <1>9, Moves

-----------------------------------------------------------------------------
(* The issues. *)

LEMMA Counting ==
    ASSUME NEW b \in Nat
    PROVE  /\ CountAfter(b) \in Nat /\ MaxRetries \in Nat
           /\ CountAfter(b) <= MaxRetries <=> b < MaxRetries
           /\ b < MaxRetries => CountAfter(b) = b + 1
BY SMTT(30), IncomingAssumption DEF CountAfter, Lesser

LEMMA ClaimedIs ==
    ASSUME NEW r \in Issue
    PROVE  /\ Claimed(r) \in Issue /\ Claimed(r).status = r.status
           /\ Claimed(r).retries = CountAfter(r.retries)
<1>1. PICK n, k : n = CountAfter(r.retries)
                  /\ k = r.recoveries + (IF r.retries >= MaxRetries THEN 1 ELSE 0)
  OBVIOUS
<1>2. n \in Nat /\ k \in Nat
  BY SMTT(30), <1>1, Counting DEF Issue
<1>3. Claimed(r) = [r EXCEPT !.due = FALSE, !.retries = n, !.recoveries = k]
  BY <1>1 DEF Claimed
<1> QED
  BY <1>1, <1>2, <1>3 DEF Issue

LEMMA ClaimIssuesKeeps ==
    ASSUME ScanInv, NEW w \in Workers, claimIncomingReconciliationIssues(w)
    PROVE  /\ ScanInv' /\ workers'[w].pc = "issues"
           /\ workers'[w].batch = [i \in {j \in Slots : Claimable(j)} |-> issues[i].retries]
           /\ \A i \in Slots : issues'[i].retries = IF Claimable(i) THEN CountAfter(issues[i].retries)
                                                    ELSE issues[i].retries
<1>1. UNCHANGED <<chain, stored, partition>>
  BY DEF claimIncomingReconciliationIssues
<1>2. PICK s : s = workers[w] /\ s \in Local
  BY DEF ScanInv
<1>3. issues' = [i \in Slots |->
                    IF Spent(i) THEN [issues[i] EXCEPT !.status = "EXHAUSTED"]
                    ELSE IF Claimable(i) THEN Claimed(issues[i]) ELSE issues[i]]
  BY DEF claimIncomingReconciliationIssues
<1>4. ASSUME NEW i \in Slots
      PROVE  /\ issues'[i] \in Issue /\ StatusStep(i)
             /\ issues'[i].retries = IF Claimable(i) THEN CountAfter(issues[i].retries)
                                     ELSE issues[i].retries
  <2>1. PICK r : r = issues[i] /\ r \in Issue
    BY DEF ScanInv
  <2>2. CASE Spent(i)
    <3>1. issues'[i] = [r EXCEPT !.status = "EXHAUSTED"]
      BY <1>3, <2>1, <2>2
    <3>2. issues'[i] \in Issue /\ issues'[i].retries = r.retries
          /\ issues'[i].status = "EXHAUSTED"
      BY <2>1, <3>1 DEF Issue
    <3>3. r.retries \in Nat /\ r.recoveries \in Nat /\ MaxRetries \in Nat
      BY <2>1, IncomingAssumption DEF Issue
    <3>4. ~Claimable(i) /\ issues[i].status = "PENDING"
      BY SMTT(30), <2>1, <2>2, <3>3 DEF Claimable, Spent
    <3> QED
      BY <2>1, <3>2, <3>4 DEF StatusStep
  <2>3. CASE ~Spent(i) /\ Claimable(i)
    <3>1. issues'[i] = Claimed(r)
      BY <1>3, <2>1, <2>3
    <3> QED
      BY <2>1, <2>3, <3>1, ClaimedIs DEF StatusStep
  <2>4. CASE ~Spent(i) /\ ~Claimable(i)
    <3>1. issues'[i] = r
      BY <1>3, <2>1, <2>4
    <3> QED
      BY <2>1, <2>4, <3>1 DEF StatusStep
  <2> QED
    BY <2>2, <2>3, <2>4
<1>5. issues' \in [Slots -> Issue]
  <2>1. DOMAIN issues' = Slots /\ issues' = [i \in Slots |-> issues'[i]]
    BY <1>3
  <2> QED
    BY <1>4, <2>1
<1>6. PICK b : b = [i \in {j \in Slots : Claimable(j)} |-> issues[i].retries]
  OBVIOUS
<1>7. b \in Batch
  <2>1. PICK A \in SUBSET Slots : A = {j \in Slots : Claimable(j)}
    OBVIOUS
  <2>2. b \in [A -> Nat]
    BY <1>6, <2>1 DEF ScanInv, Issue
  <2> QED
    BY <2>2 DEF Batch
<1>8. PICK x : x = [s EXCEPT !.pc = "issues", !.batch = b]
  OBVIOUS
<1>9. x \in Local /\ x.pc = "issues" /\ x.batch = b
  BY <1>2, <1>7, <1>8 DEF Local
<1>10. workers' = [workers EXCEPT ![w] = x]
  BY <1>2, <1>6, <1>8 DEF claimIncomingReconciliationIssues, ScanInv
<1>11. \A i \in DOMAIN b : Known(i)'
  <2>1. \A i \in DOMAIN b : Known(i)
    BY <1>6 DEF Known, Claimable
  <2>2. Lasting
    BY <1>1, <1>4, <1>5, IssuesMove
  <2> QED
    BY <2>1, <2>2 DEF Lasting
<1>12. LocalOK(x)' /\ OwnerOK(w, x)'
  BY <1>9, <1>11 DEF LocalOK, OwnerOK
<1>13. partition' \in Partition
  BY <1>1 DEF ScanInv
<1>14. ScanInv'
  BY <1>1, <1>4, <1>5, <1>9, <1>10, <1>12, <1>13, WorkerStep
<1>15. workers'[w] = x
  BY <1>10 DEF ScanInv
<1> QED
  BY <1>4, <1>6, <1>9, <1>14, <1>15

\* A worker at an issue it has claimed.
LEMMA HeldIssue ==
    ASSUME ScanInv, NEW w \in Workers, workers[w].pc \in {"issues", "resolve"},
           NEW i \in Pending(w)
    PROVE  /\ i \in Slots /\ Known(i) /\ i \in DOMAIN chain /\ workers[w].batch[i] \in Nat
           /\ DOMAIN Rest(w, i) = Pending(w) \ {i} /\ Rest(w, i) \in Batch
           /\ \A j \in Pending(w) \ {i} : Rest(w, i)[j] = workers[w].batch[j]
<1>1. PICK b : b = workers[w].batch
  OBVIOUS
<1>2. b \in Batch
  BY <1>1 DEF ScanInv, Local
<1>3. PICK A \in SUBSET Slots : b \in [A -> Nat]
  BY <1>2 DEF Batch
<1>4. DOMAIN b = A /\ Pending(w) = A
  BY <1>1, <1>3 DEF Pending
<1>5. Known(i)
  BY <1>1, <1>4 DEF ScanInv, LocalOK, Pending
<1>6. i \in DOMAIN chain
  BY <1>5 DEF Known, ScanInv, IssueOK
<1>7. Rest(w, i) = [j \in A \ {i} |-> b[j]]
  BY <1>1, <1>4 DEF Rest
<1>8. Rest(w, i) \in [A \ {i} -> Nat]
  BY <1>3, <1>7
<1>9. Rest(w, i) \in Batch
  BY <1>8 DEF Batch
<1> QED
  BY <1>1, <1>3, <1>4, <1>5, <1>6, <1>7, <1>9

\* What the writes to an issue leave: every row's status moves on, no count does.
Recounted == issues' \in [Slots -> Issue] /\ \A i \in Slots : StatusStep(i)

LEMMA ChangePendingIs ==
    ASSUME ScanInv, NEW i \in Slots, NEW st \in {"EXHAUSTED", "RESOLVED"},
           st = "RESOLVED" => Safe(i), ChangePending(i, [issues[i] EXCEPT !.status = st])
    PROVE  Recounted /\ \A j \in Slots : issues'[j].retries = issues[j].retries
<1>1. PICK r : r = issues[i] /\ r \in Issue
  BY DEF ScanInv
<1>2. PICK q : q = [r EXCEPT !.status = st]
  OBVIOUS
<1>3. q \in Issue /\ q.status = st /\ q.retries = r.retries
  BY <1>1, <1>2 DEF Issue
<1>4. issues' = IF r.status = "PENDING" THEN [issues EXCEPT ![i] = q] ELSE issues
  BY <1>1, <1>2 DEF ChangePending
<1>5. issues' \in [Slots -> Issue]
  BY <1>3, <1>4 DEF ScanInv
<1>6. ASSUME NEW j \in Slots PROVE StatusStep(j) /\ issues'[j].retries = issues[j].retries
  BY <1>1, <1>3, <1>4 DEF ScanInv, StatusStep
<1> QED
  BY <1>5, <1>6 DEF Recounted

LEMMA IssuesStay ==
    ASSUME ScanInv, UNCHANGED issues
    PROVE  Recounted /\ \A j \in Slots : issues'[j].retries = issues[j].retries
BY DEF ScanInv, Recounted, StatusStep

\* The claim of an issue ends, and the worker goes on to the next.
LEMMA DropKeeps ==
    ASSUME ScanInv, NEW w \in Workers, workers[w].pc \in {"issues", "resolve"},
           NEW i \in Pending(w), Recounted, UNCHANGED <<chain, stored, partition>>,
           \/ DropIssue(w, i)
           \/ workers' = [workers EXCEPT ![w].pc = "issues", ![w].found = {},
                                         ![w].batch = Rest(w, i)]
    PROVE  /\ ScanInv' /\ workers'[w].pc = "issues" /\ workers'[w].batch = Rest(w, i)
           /\ \A v \in Workers \ {w} : workers'[v] = workers[v]
<1>1. PICK s : s = workers[w] /\ s \in Local /\ LocalOK(s)
  BY DEF ScanInv
<1>2. PICK b : b = Rest(w, i) /\ b \in Batch /\ DOMAIN b \subseteq DOMAIN s.batch
  <2>1. Rest(w, i) \in Batch /\ DOMAIN Rest(w, i) = Pending(w) \ {i}
    BY HeldIssue
  <2>2. Pending(w) = DOMAIN s.batch
    BY <1>1 DEF Pending
  <2> QED
    BY <2>1, <2>2
<1>3. PICK x : /\ x = [s EXCEPT !.pc = "issues", !.batch = b]
                  \/ x = [s EXCEPT !.pc = "issues", !.found = {}, !.batch = b]
               /\ workers' = [workers EXCEPT ![w] = x]
  BY <1>1, <1>2 DEF DropIssue, ScanInv
<1>4. x \in Local /\ x.pc = "issues" /\ x.batch = b
  BY <1>1, <1>2, <1>3 DEF Local
<1>5. Lasting
  BY IssuesMove DEF Recounted
<1>6. \A j \in DOMAIN b : Known(j)'
  BY <1>1, <1>2, <1>5 DEF LocalOK, Lasting
<1>7. LocalOK(x)' /\ OwnerOK(w, x)'
  BY <1>4, <1>6 DEF LocalOK, OwnerOK
<1>8. partition' \in Partition
  BY DEF ScanInv
<1>9. ScanInv'
  BY <1>3, <1>4, <1>7, <1>8, WorkerStep DEF Recounted
<1> QED
  BY <1>2, <1>3, <1>4, <1>9 DEF ScanInv

LEMMA ExhaustKeeps ==
    ASSUME ScanInv, NEW w \in Workers, NEW i \in Slots, exhaustIncomingReconciliationIssue(w, i)
    PROVE  /\ ScanInv' /\ workers'[w].pc = "issues" /\ workers'[w].batch = Rest(w, i)
           /\ \A v \in Workers \ {w} : workers'[v] = workers[v]
           /\ \A j \in Slots : issues'[j].retries = issues[j].retries
<1>1. /\ workers[w].pc = "issues" /\ i \in Pending(w) /\ DropIssue(w, i)
      /\ UNCHANGED <<chain, stored, partition>>
      /\ ChangePending(i, [issues[i] EXCEPT !.status = "EXHAUSTED"])
  BY DEF exhaustIncomingReconciliationIssue, At, Exhausted
<1>2. Recounted /\ \A j \in Slots : issues'[j].retries = issues[j].retries
  BY <1>1, ChangePendingIs
<1> QED
  BY <1>1, <1>2, DropKeeps

LEMMA UnresolvedKeeps ==
    ASSUME ScanInv, NEW w \in Workers, NEW i \in Slots, InspectUnresolved(w, i)
    PROVE  /\ ScanInv' /\ workers'[w].pc = "issues" /\ workers'[w].batch = Rest(w, i)
           /\ \A v \in Workers \ {w} : workers'[v] = workers[v]
           /\ \A j \in Slots : issues'[j].retries = issues[j].retries
<1>1. /\ workers[w].pc = "issues" /\ i \in Pending(w) /\ DropIssue(w, i)
      /\ UNCHANGED <<chain, stored, partition>>
      /\ \/ ChangePending(i, [issues[i] EXCEPT !.status = "EXHAUSTED"])
         \/ UNCHANGED issues
  BY DEF InspectUnresolved, At, Exhausted
<1>2. Recounted /\ \A j \in Slots : issues'[j].retries = issues[j].retries
  BY <1>1, ChangePendingIs, IssuesStay
<1> QED
  BY <1>1, <1>2, DropKeeps

\* A claim is given back only if no other has been made since.
LEMMA DeferKeeps ==
    ASSUME ScanInv, NEW w \in Workers, NEW i \in Slots, deferIncomingReconciliationIssue(w, i)
    PROVE  /\ ScanInv' /\ workers'[w].pc = "issues" /\ workers'[w].batch = Rest(w, i)
           /\ \A v \in Workers \ {w} : workers'[v] = workers[v]
           /\ \A j \in Slots \ {i} : issues'[j].retries = issues[j].retries
           /\ \/ issues'[i].retries = issues[i].retries
              \/ /\ issues[i].retries = RetryCount(w, i)
                 /\ issues'[i].retries = workers[w].batch[i]
<1>1. /\ workers[w].pc = "issues" /\ i \in Pending(w) /\ DropIssue(w, i)
      /\ UNCHANGED <<chain, stored, partition>>
  BY DEF deferIncomingReconciliationIssue, At
<1>2. CASE ChangePending(i, [issues[i] EXCEPT !.status = "EXHAUSTED"]) \/ UNCHANGED issues
  <2>1. Recounted /\ \A j \in Slots : issues'[j].retries = issues[j].retries
    BY <1>2, ChangePendingIs, IssuesStay
  <2> QED
    BY <1>1, <2>1, DropKeeps
<1>3. CASE /\ issues[i].retries = RetryCount(w, i)
           /\ issues' = [issues EXCEPT ![i].due = FALSE, ![i].retries = workers[w].batch[i]]
  <2>1. PICK n : n = workers[w].batch[i] /\ n \in Nat
    BY <1>1, HeldIssue
  <2>2. PICK r : r = issues[i] /\ r \in Issue
    BY DEF ScanInv
  <2>3. PICK q : q = [r EXCEPT !.due = FALSE, !.retries = n]
    OBVIOUS
  <2>4. q \in Issue /\ q.status = r.status /\ q.retries = n
    BY <2>1, <2>2, <2>3 DEF Issue
  <2>5. issues' = [issues EXCEPT ![i] = q]
    BY <1>3, <2>1, <2>2, <2>3 DEF ScanInv
  <2>6. Recounted /\ issues'[i] = q /\ \A j \in Slots \ {i} : issues'[j] = issues[j]
    BY <2>2, <2>4, <2>5 DEF Recounted, StatusStep, ScanInv
  <2> QED
    BY <1>1, <1>3, <2>1, <2>4, <2>6, DropKeeps
<1> QED
  BY <1>2, <1>3 DEF deferIncomingReconciliationIssue, Exhausted

\* The transfer is stored before the issue is resolved.
LEMMA ResolvedKeeps ==
    ASSUME ScanInv, NEW w \in Workers, NEW i \in Slots, InspectResolved(w, i)
    PROVE  /\ ScanInv' /\ workers'[w].pc = "resolve" /\ workers'[w].batch = workers[w].batch
           /\ workers'[w].found = {i} /\ \A v \in Workers \ {w} : workers'[v] = workers[v]
<1>1. /\ workers[w].pc = "issues" /\ i \in Pending(w) /\ UNCHANGED <<chain, issues, partition>>
      /\ stored' = IF chain[i] THEN stored \union {i} ELSE stored
  BY DEF InspectResolved, At
<1>2. PICK s : s = workers[w] /\ s \in Local /\ LocalOK(s)
  BY DEF ScanInv
<1>3. PICK x : x = [s EXCEPT !.pc = "resolve", !.found = {i}]
  OBVIOUS
<1>4. i \in Nat /\ i \in DOMAIN chain
  BY <1>1, HeldIssue, IncomingAssumption
<1>5. x \in Local /\ x.pc = "resolve" /\ x.batch = s.batch /\ x.found = {i}
  BY <1>2, <1>3, <1>4 DEF Local
<1>6. workers' = [workers EXCEPT ![w] = x]
  BY <1>2, <1>3 DEF InspectResolved, ScanInv
<1>7. Safe(i)'
  BY <1>1, <1>4 DEF Safe
<1>8. \A j \in DOMAIN s.batch : Known(j)'
  BY <1>1, <1>2 DEF LocalOK, Known
<1>9. i \in DOMAIN s.batch
  BY <1>1, <1>2 DEF Pending
<1>10. LocalOK(x)' /\ OwnerOK(w, x)'
  BY <1>5, <1>7, <1>8, <1>9 DEF LocalOK, OwnerOK
<1>11. ScanInv'
  BY <1>1, <1>5, <1>6, <1>10, QuietStep
<1> QED
  BY <1>2, <1>5, <1>6, <1>11 DEF ScanInv

LEMMA ResolveIssueKeeps ==
    ASSUME ScanInv, NEW w \in Workers, resolveIncomingReconciliationIssue(w)
    PROVE  \E i \in Pending(w) :
             /\ ScanInv' /\ workers'[w].pc = "issues" /\ workers'[w].batch = Rest(w, i)
             /\ workers[w].found = {i}
             /\ \A v \in Workers \ {w} : workers'[v] = workers[v]
             /\ \A j \in Slots : issues'[j].retries = issues[j].retries
<1>1. workers[w].pc = "resolve" /\ UNCHANGED <<chain, stored, partition>>
  BY DEF resolveIncomingReconciliationIssue, At
<1>2. PICK i \in Pending(w) : workers[w].found = {i} /\ Safe(i)
  BY <1>1 DEF ScanInv, LocalOK, Pending
<1>3. /\ ChangePending(i, [issues[i] EXCEPT !.status = "RESOLVED"])
      /\ workers' = [workers EXCEPT ![w].pc = "issues", ![w].found = {},
                                    ![w].batch = Rest(w, i)]
  BY <1>2 DEF resolveIncomingReconciliationIssue
<1>4. i \in Slots
  BY <1>1, HeldIssue
<1>5. Recounted /\ \A j \in Slots : issues'[j].retries = issues[j].retries
  BY <1>2, <1>3, <1>4, ChangePendingIs
<1> QED
  BY <1>1, <1>2, <1>3, <1>5, DropKeeps

-----------------------------------------------------------------------------
(* The count of inspections. *)

LEMMA LevelsFinite ==
    ASSUME ScanInv, NEW i \in Slots
    PROVE  /\ Levels(i) \subseteq 0..(MaxRetries - 1) /\ IsFiniteSet(Levels(i))
           /\ Cardinality(Levels(i)) \in Nat
           /\ \A w \in Open(i) : workers[w].batch[i] \in Nat /\ workers[w].batch[i] < MaxRetries
<1>1. ASSUME NEW w \in Open(i)
      PROVE  workers[w].batch[i] \in Nat /\ workers[w].batch[i] < MaxRetries
  <2>1. w \in Workers /\ workers[w].pc \in {"issues", "resolve"} /\ i \in DOMAIN workers[w].batch
        /\ workers[w].batch[i] < MaxRetries
    BY DEF Open, OpenIn
  <2>2. i \in Pending(w)
    BY <2>1 DEF Pending
  <2> QED
    BY <2>1, <2>2, HeldIssue
<1>2. MaxRetries \in Nat
  BY IncomingAssumption
<1>3. Levels(i) \subseteq 0..(MaxRetries - 1)
  BY SMTT(30), <1>1, <1>2 DEF Levels
<1>4. IsFiniteSet(0..(MaxRetries - 1))
  BY SMTT(30), <1>2, FS_Interval
<1>5. IsFiniteSet(Levels(i))
  BY <1>3, <1>4, FS_Subset
<1> QED
  BY <1>1, <1>3, <1>5, FS_CardinalityType

\* Claims of the issue at most end.
LEMMA CountKept ==
    ASSUME ScanInv, ScanInv', NEW i \in Slots, CountOK(i), Open(i)' \subseteq Open(i),
           \A w \in Open(i)' : workers'[w].batch[i] = workers[w].batch[i],
           \/ issues'[i].retries = issues[i].retries
           \/ issues[i].retries >= MaxRetries /\ issues'[i].retries >= MaxRetries,
           inspected'[i] = inspected[i], inspected[i] \in Nat
    PROVE  CountOK(i)'
<1>1. Levels(i)' \subseteq Levels(i)
  BY DEF Levels
<1>2. Cardinality(Levels(i)') <= Cardinality(Levels(i)) /\ Cardinality(Levels(i)) \in Nat
      /\ Cardinality(Levels(i)') \in Nat
  BY <1>1, LevelsFinite, FS_Subset, FS_CardinalityType
<1>3. issues[i].retries \in Nat /\ MaxRetries \in Nat /\ issues'[i].retries \in Nat
  BY IncomingAssumption DEF ScanInv, Issue
<1>4. /\ Lesser(issues[i].retries, MaxRetries) \in Nat
      /\ Lesser(issues'[i].retries, MaxRetries) = Lesser(issues[i].retries, MaxRetries)
  BY SMTT(30), <1>3 DEF Lesser
<1>5. inspected'[i] + Cardinality(Levels(i)') <= Lesser(issues'[i].retries, MaxRetries)
  BY SMTT(30), <1>2, <1>4 DEF CountOK
<1>6. \A w, v \in Open(i)' : workers'[w].batch[i] = workers'[v].batch[i] => w = v
  BY DEF CountOK
<1>7. ASSUME NEW w \in Open(i)' PROVE workers'[w].batch[i] < issues'[i].retries
  <2>1. PICK b : b = workers[w].batch[i] /\ b = workers'[w].batch[i]
    OBVIOUS
  <2>2. b \in Nat /\ b < MaxRetries /\ b < issues[i].retries
    BY <2>1, LevelsFinite DEF CountOK
  <2> QED
    BY SMTT(30), <1>3, <2>1, <2>2
<1> QED
  BY <1>5, <1>6, <1>7 DEF CountOK

\* The claim of worker w ends, after an inspection or by giving its count back.
LEMMA CountEnds ==
    ASSUME ScanInv, ScanInv', NEW i \in Slots, CountOK(i), inspected[i] \in Nat,
           NEW w \in Open(i), Open(i)' = Open(i) \ {w},
           \A v \in Open(i)' : workers'[v].batch[i] = workers[v].batch[i],
           \/ issues'[i].retries = issues[i].retries /\ inspected'[i] = inspected[i] + 1
           \/ /\ issues[i].retries = workers[w].batch[i] + 1
              /\ issues'[i].retries = workers[w].batch[i] /\ inspected'[i] = inspected[i]
    PROVE  CountOK(i)'
<1>1. PICK b : b = workers[w].batch[i]
  OBVIOUS
<1>2. b \in Nat /\ b < MaxRetries /\ MaxRetries \in Nat /\ b < issues[i].retries
      /\ issues[i].retries \in Nat
  BY <1>1, LevelsFinite, IncomingAssumption DEF CountOK, ScanInv, Issue
<1>3. \A v \in Open(i)' : v \in Open(i) /\ workers'[v].batch[i] # b
  BY <1>1 DEF CountOK
<1>4. b \in Levels(i) /\ Levels(i)' = Levels(i) \ {b}
  <2>1. Levels(i)' = {workers[v].batch[i] : v \in Open(i) \ {w}}
    BY DEF Levels
  <2>2. Levels(i) = {workers[v].batch[i] : v \in Open(i)}
    BY DEF Levels
  <2>3. \A v \in Open(i) \ {w} : workers[v].batch[i] # b
    BY <1>3
  <2> QED
    BY SMTT(30), <1>1, <2>1, <2>2, <2>3
<1>5. PICK c : c = Cardinality(Levels(i)) /\ c \in Nat /\ Cardinality(Levels(i)') = c - 1
  <2>1. PICK L : L = Levels(i) /\ IsFiniteSet(L) /\ Cardinality(L) \in Nat
    BY LevelsFinite
  <2>2. b \in L /\ Levels(i)' = L \ {b}
    BY <1>4, <2>1
  <2>3. Cardinality(L \ {b}) = Cardinality(L) - 1
    BY <2>1, <2>2, FS_RemoveElement
  <2> QED
    BY <2>1, <2>2, <2>3
<1>6. inspected[i] + c <= Lesser(issues[i].retries, MaxRetries)
  BY <1>5 DEF CountOK
<1>7. inspected'[i] + (c - 1) <= Lesser(issues'[i].retries, MaxRetries)
  <2>1. CASE issues'[i].retries = issues[i].retries /\ inspected'[i] = inspected[i] + 1
    BY SMTT(30), <1>2, <1>5, <1>6, <2>1 DEF Lesser
  <2>2. CASE issues[i].retries = b + 1 /\ issues'[i].retries = b /\ inspected'[i] = inspected[i]
    BY SMTT(30), <1>2, <1>5, <1>6, <2>2 DEF Lesser
  <2> QED
    BY <1>1, <2>1, <2>2
<1>8. \A v \in Open(i)' : workers'[v].batch[i] < issues'[i].retries
  <2>1. ASSUME NEW v \in Open(i)' PROVE workers'[v].batch[i] < issues'[i].retries
    <3>1. PICK n : n = workers'[v].batch[i]
      OBVIOUS
    <3>2. n = workers[v].batch[i] /\ n \in Nat /\ n < issues[i].retries /\ n # b
      BY <1>3, <3>1, LevelsFinite DEF CountOK
    <3> QED
      BY SMTT(30), <1>1, <1>2, <3>1, <3>2
  <2> QED
    BY <2>1
<1>9. \A v, u \in Open(i)' : workers'[v].batch[i] = workers'[u].batch[i] => v = u
  BY <1>3 DEF CountOK
<1> QED
  BY <1>5, <1>7, <1>8, <1>9 DEF CountOK

\* A worker claims the issue: it gets a count that no open claim has.
LEMMA CountBegins ==
    ASSUME ScanInv, ScanInv', NEW i \in Slots, CountOK(i), inspected[i] \in Nat,
           NEW w \in Workers \ Open(i), issues[i].retries < MaxRetries,
           Open(i)' = Open(i) \cup {w}, workers'[w].batch[i] = issues[i].retries,
           \A v \in Open(i) : workers'[v].batch[i] = workers[v].batch[i],
           issues'[i].retries = issues[i].retries + 1, inspected'[i] = inspected[i]
    PROVE  CountOK(i)'
<1>1. PICK b : b = issues[i].retries
  OBVIOUS
<1>2. b \in Nat /\ b < MaxRetries /\ MaxRetries \in Nat /\ issues'[i].retries = b + 1
  BY <1>1, IncomingAssumption DEF ScanInv, Issue
<1>3. ASSUME NEW v \in Open(i) PROVE /\ workers'[v].batch[i] = workers[v].batch[i]
                                     /\ workers[v].batch[i] \in Nat /\ workers[v].batch[i] < b
  BY <1>1, LevelsFinite DEF CountOK
<1>4. b \notin Levels(i) /\ Levels(i)' = Levels(i) \cup {b}
  <2>1. Levels(i)' = {workers'[v].batch[i] : v \in Open(i) \cup {w}}
    BY DEF Levels
  <2>2. Levels(i) = {workers[v].batch[i] : v \in Open(i)}
    BY DEF Levels
  <2>3. \A v \in Open(i) : workers'[v].batch[i] = workers[v].batch[i] /\ workers[v].batch[i] # b
    BY SMTT(30), <1>2, <1>3
  <2> QED
    BY SMTT(30), <1>1, <2>1, <2>2, <2>3
<1>5. PICK c : c = Cardinality(Levels(i)) /\ c \in Nat /\ Cardinality(Levels(i)') = c + 1
  <2>1. PICK L : L = Levels(i) /\ IsFiniteSet(L) /\ Cardinality(L) \in Nat
    BY LevelsFinite
  <2>2. b \notin L /\ Levels(i)' = L \cup {b}
    BY <1>4, <2>1
  <2>3. Cardinality(L \cup {b}) = Cardinality(L) + 1
    BY <2>1, <2>2, FS_AddElement
  <2> QED
    BY <2>1, <2>2, <2>3
<1>6. inspected[i] + c <= Lesser(b, MaxRetries)
  BY <1>1, <1>5 DEF CountOK
<1>7. inspected'[i] + (c + 1) <= Lesser(issues'[i].retries, MaxRetries)
  BY SMTT(30), <1>2, <1>5, <1>6 DEF Lesser
<1>8. \A v \in Open(i)' : workers'[v].batch[i] < issues'[i].retries
  <2>1. ASSUME NEW v \in Open(i) PROVE workers'[v].batch[i] < b + 1
    BY SMTT(30), <1>2, <1>3
  <2> QED
    BY SMTT(30), <1>1, <1>2, <2>1
<1>9. \A v, u \in Open(i)' : workers'[v].batch[i] = workers'[u].batch[i] => v = u
  <2>1. \A v \in Open(i) : workers'[v].batch[i] # b
    BY SMTT(30), <1>2, <1>3
  <2>2. \A v, u \in Open(i) : workers'[v].batch[i] = workers'[u].batch[i] => v = u
    BY <1>3 DEF CountOK
  <2> QED
    BY <1>1, <2>1, <2>2
<1> QED
  BY <1>5, <1>7, <1>8, <1>9 DEF CountOK

LEMMA OpenReached ==
    ASSUME NEW w, NEW x, NEW i, workers'[w] = x
    PROVE  OpenIn(workers[w], i)' <=> OpenIn(x, i)
BY DEF OpenIn

\* One worker moves without claiming or inspecting.
LEMMA CountsKept ==
    ASSUME IncomingInv, ScanInv', NEW w \in Workers, UNCHANGED inspected,
           \A i \in Slots : issues'[i].retries = issues[i].retries,
           \A v \in Workers \ {w} : workers'[v] = workers[v],
           \A i \in Slots : OpenIn(workers[w], i)' =>
               OpenIn(workers[w], i) /\ workers'[w].batch[i] = workers[w].batch[i]
    PROVE  IncomingInv'
<1>1. ASSUME NEW i \in Slots PROVE CountOK(i)'
  <2>1. ASSUME NEW v \in Open(i)'
        PROVE  v \in Open(i) /\ workers'[v].batch[i] = workers[v].batch[i]
    <3>1. v \in Workers /\ OpenIn(workers[v], i)'
      BY DEF Open
    <3>2. CASE v = w
      BY <3>1, <3>2 DEF Open
    <3>3. CASE v # w
      <4>1. workers'[v] = workers[v]
        BY <3>1, <3>3
      <4>2. PICK x : x = workers[v]
        OBVIOUS
      <4>3. OpenIn(x, i)
        BY <3>1, <4>1, <4>2, OpenReached
      <4> QED
        BY <3>1, <4>1, <4>2, <4>3 DEF Open
    <3> QED
      BY <3>2, <3>3
  <2>2. inspected'[i] = inspected[i] /\ inspected[i] \in Nat
    BY DEF IncomingInv
  <2> QED
    BY <2>1, <2>2, CountKept DEF IncomingInv
<1> QED
  BY <1>1 DEF IncomingInv

\* A step that leaves the worker without an open claim.
LEMMA CountsKeptClosed ==
    ASSUME IncomingInv, ScanInv', NEW w \in Workers, UNCHANGED inspected,
           \A i \in Slots : issues'[i].retries = issues[i].retries,
           \A v \in Workers \ {w} : workers'[v] = workers[v],
           workers'[w].pc \notin {"issues", "resolve"}
    PROVE  IncomingInv'
<1>1. \A i \in Slots : ~OpenIn(workers[w], i)'
  BY DEF OpenIn
<1> QED
  BY <1>1, CountsKept

LEMMA ScanStepsCount ==
    ASSUME IncomingInv, NEW w \in Workers,
           \/ claimIncomingPartition(w) \/ scanWithCursor(w) \/ StoreTransfer(w)
           \/ recordIncomingReconciliationIssue(w) \/ saveIncomingCursor(w)
           \/ releaseIncomingPartition(w) \/ ScanFails(w) \/ Crash(w) \/ EndRun(w)
    PROVE  IncomingInv'
<1>1. ScanInv /\ UNCHANGED inspected
  BY DEF IncomingInv, claimIncomingPartition, scanWithCursor, StoreTransfer,
         recordIncomingReconciliationIssue, saveIncomingCursor, releaseIncomingPartition,
         ScanFails, Crash, EndRun
<1>2. ScanInv'
  BY <1>1, ClaimPartitionKeeps, ScanKeeps, StoreTransferKeeps, RecordIssueKeeps,
     SaveCursorKeeps, ReleaseKeeps, ScanFailsKeeps, CrashKeeps, EndRunKeeps
<1>3. \A i \in Slots : issues'[i].retries = issues[i].retries
  BY <1>1, RecordIssueKeeps DEF claimIncomingPartition, scanWithCursor, StoreTransfer,
     saveIncomingCursor, releaseIncomingPartition, ScanFails, Crash, EndRun
<1>4. Alone(w)
  <2>1. CASE claimIncomingPartition(w)
    <3>1. PICK s : s = workers[w] /\ s \in Local
      BY <1>1 DEF ScanInv
    <3>2. PICK x : /\ \/ x = [s EXCEPT !.pc = "claimIssues"]
                      \/ x = [s EXCEPT !.pc = "scan", !.cursor = partition.cursor]
                   /\ workers' = [workers EXCEPT ![w] = x]
      BY <1>1, <2>1, <3>1 DEF claimIncomingPartition, Goto, ScanInv
    <3>3. x.pc \notin {"issues", "resolve"}
      BY <3>1, <3>2 DEF Local
    <3> QED
      BY <1>1, <3>2, <3>3, AloneIs
  <2>2. CASE scanWithCursor(w) \/ StoreTransfer(w) \/ recordIncomingReconciliationIssue(w)
    BY <1>1, <2>2, ScanKeeps, StoreTransferKeeps, RecordIssueKeeps
  <2>3. CASE \/ saveIncomingCursor(w) \/ releaseIncomingPartition(w)
             \/ ScanFails(w) \/ Crash(w) \/ EndRun(w)
    <3>1. PICK x : /\ workers' = [workers EXCEPT ![w] = x]
                   /\ x \in {Idle, [Idle EXCEPT !.pc = "release"],
                             [Idle EXCEPT !.pc = "claimIssues"]}
      BY <2>3 DEF saveIncomingCursor, releaseIncomingPartition, ScanFails, Crash, EndRun
    <3>2. x.pc \notin {"issues", "resolve"}
      BY <3>1, Unburdened
    <3> QED
      BY <1>1, <3>1, <3>2, AloneIs
  <2> QED
    BY <2>1, <2>2, <2>3
<1> QED
  BY <1>1, <1>2, <1>3, <1>4, CountsKeptClosed DEF Alone

\* Whose claims of issue i are open after one worker has moved.
LEMMA OpenAfter ==
    ASSUME ScanInv, NEW w \in Workers, NEW i, \A v \in Workers \ {w} : workers'[v] = workers[v]
    PROVE  /\ \A v \in Workers \ {w} : v \in Open(i)' <=> v \in Open(i)
           /\ w \in Open(i) <=> OpenIn(workers[w], i)
           /\ w \in Open(i)' <=> OpenIn(workers[w], i)'
<1>1. ASSUME NEW v \in Workers \ {w} PROVE v \in Open(i)' <=> v \in Open(i)
  <2>1. PICK x : x = workers[v]
    OBVIOUS
  <2>2. OpenIn(workers[v], i)' <=> OpenIn(x, i)
    BY <2>1, OpenReached
  <2>3. v \in Open(i)' <=> OpenIn(workers[v], i)'
    BY DEF Open
  <2>4. v \in Open(i) <=> OpenIn(x, i)
    BY <2>1 DEF Open
  <2> QED
    BY <2>2, <2>3, <2>4
<1> QED
  BY <1>1 DEF Open

LEMMA ClaimIssuesCount ==
    ASSUME IncomingInv, NEW w \in Workers, claimIncomingReconciliationIssues(w)
    PROVE  IncomingInv'
<1>1. ScanInv /\ UNCHANGED inspected /\ workers[w].pc = "claimIssues"
  BY DEF IncomingInv, claimIncomingReconciliationIssues, At
<1>2. /\ ScanInv' /\ workers'[w].pc = "issues"
      /\ workers'[w].batch = [i \in {j \in Slots : Claimable(j)} |-> issues[i].retries]
      /\ \A i \in Slots : issues'[i].retries = IF Claimable(i) THEN CountAfter(issues[i].retries)
                                               ELSE issues[i].retries
  BY <1>1, ClaimIssuesKeeps
<1>3. \A v \in Workers \ {w} : workers'[v] = workers[v]
  BY <1>1 DEF claimIncomingReconciliationIssues, ScanInv
<1>4. ASSUME NEW i \in Slots PROVE CountOK(i)'
  <2>1. PICK r : r = issues[i].retries /\ r \in Nat
    BY <1>1 DEF ScanInv, Issue
  <2>2. /\ inspected'[i] = inspected[i] /\ inspected[i] \in Nat /\ CountOK(i)
        /\ w \notin Open(i) /\ Open(i) \subseteq Workers /\ Open(i)' \subseteq Workers
    BY <1>1 DEF IncomingInv, Open, OpenIn
  <2>3. w \in Open(i)' <=> Claimable(i) /\ r < MaxRetries
    <3>1. w \in Open(i)' <=> OpenIn(workers[w], i)'
      BY <1>1, <1>3, OpenAfter
    <3>2. PICK x : x = workers'[w]
      OBVIOUS
    <3>3. OpenIn(workers[w], i)' <=> OpenIn(x, i)
      BY <3>2, OpenReached
    <3>4. x.pc = "issues" /\ (i \in DOMAIN x.batch <=> Claimable(i))
          /\ (Claimable(i) => x.batch[i] = r)
      BY <1>2, <2>1, <3>2
    <3> QED
      BY <3>1, <3>3, <3>4 DEF OpenIn
  <2>4. \A v \in Open(i) : v \in Open(i)' /\ workers'[v].batch[i] = workers[v].batch[i]
    BY <1>1, <1>3, <2>2, OpenAfter
  <2>5. \A v \in Open(i)' : v = w \/ v \in Open(i)
    BY <1>1, <1>3, <2>2, OpenAfter
  <2>6. CASE Claimable(i) /\ r < MaxRetries
    <3>1. Open(i)' = Open(i) \cup {w}
      BY <2>3, <2>4, <2>5, <2>6
    <3>2. workers'[w].batch[i] = r /\ issues'[i].retries = r + 1
      BY <1>2, <2>1, <2>6, Counting
    <3> QED
      BY <1>1, <1>2, <2>1, <2>2, <2>4, <2>6, <3>1, <3>2, CountBegins
  <2>7. CASE ~(Claimable(i) /\ r < MaxRetries)
    <3>1. Open(i)' \subseteq Open(i)
      BY <2>3, <2>5, <2>7
    <3>2. \/ issues'[i].retries = issues[i].retries
          \/ issues[i].retries >= MaxRetries /\ issues'[i].retries >= MaxRetries
      <4>1. CASE ~Claimable(i)
        BY <1>2, <4>1
      <4>2. CASE Claimable(i) /\ ~(r < MaxRetries)
        <5>1. issues'[i].retries = CountAfter(r)
          BY <1>2, <2>1, <4>2
        <5> QED
          BY SMTT(30), <2>1, <4>2, <5>1, IncomingAssumption DEF CountAfter, Lesser
      <4> QED
        BY <2>7, <4>1, <4>2
    <3> QED
      BY <1>1, <1>2, <2>2, <2>4, <3>1, <3>2, CountKept
  <2> QED
    BY <2>6, <2>7
<1> QED
  BY <1>1, <1>2, <1>4 DEF IncomingInv

\* The claim of issue i ends and the others of the worker stay as they are.
LEMMA DropCounts ==
    ASSUME ScanInv, NEW w \in Workers, NEW i \in Pending(w),
           \A v \in Workers \ {w} : workers'[v] = workers[v],
           workers[w].pc \in {"issues", "resolve"},
           workers[w].pc = "resolve" => workers[w].found = {i},
           \/ workers'[w].pc = "issues" /\ workers'[w].batch = Rest(w, i)
           \/ /\ workers[w].pc = "issues" /\ workers'[w].pc = "resolve"
              /\ workers'[w].batch = workers[w].batch /\ workers'[w].found = {i}
    PROVE  /\ \A j : j # i => /\ Open(j)' \subseteq Open(j)
                              /\ \A v \in Open(j)' : workers'[v].batch[j] = workers[v].batch[j]
           /\ Open(i)' = Open(i) \ {w}
           /\ \A v \in Open(i)' : workers'[v].batch[i] = workers[v].batch[i]
<1>1. PICK s, x : s = workers[w] /\ x = workers'[w]
  OBVIOUS
<1>2. /\ DOMAIN Rest(w, i) = DOMAIN s.batch \ {i}
      /\ \A j \in DOMAIN s.batch \ {i} : Rest(w, i)[j] = s.batch[j]
  <2>1. Pending(w) = DOMAIN s.batch
    BY <1>1 DEF Pending
  <2>2. /\ DOMAIN Rest(w, i) = Pending(w) \ {i}
        /\ \A j \in Pending(w) \ {i} : Rest(w, i)[j] = workers[w].batch[j]
    BY HeldIssue
  <2> QED
    BY <1>1, <2>1, <2>2
<1>3. ~OpenIn(x, i)
  BY <1>1, <1>2 DEF OpenIn
<1>4. ASSUME NEW j, j # i, OpenIn(x, j) PROVE OpenIn(s, j) /\ x.batch[j] = s.batch[j]
  BY <1>1, <1>2, <1>4 DEF OpenIn
<1>5. \A j : OpenIn(workers[w], j)' <=> OpenIn(x, j)
  BY <1>1, OpenReached
<1>6. \A j : Open(j)' \subseteq Workers /\ Open(j) \subseteq Workers
  BY DEF Open
<1>7. \A j : /\ \A v \in Workers \ {w} : v \in Open(j)' <=> v \in Open(j)
             /\ w \in Open(j) <=> OpenIn(s, j)
             /\ w \in Open(j)' <=> OpenIn(x, j)
  BY <1>1, <1>5, OpenAfter
<1>8. ASSUME NEW j, j # i
      PROVE  /\ Open(j)' \subseteq Open(j)
             /\ \A v \in Open(j)' : workers'[v].batch[j] = workers[v].batch[j]
  BY <1>1, <1>4, <1>6, <1>7, <1>8
<1>9. Open(i)' = Open(i) \ {w}
  BY <1>3, <1>6, <1>7
<1>10. \A v \in Open(i)' : workers'[v].batch[i] = workers[v].batch[i]
  BY <1>6, <1>9
<1> QED
  BY <1>8, <1>9, <1>10

\* A claim ends without an inspection.
LEMMA UninspectedCount ==
    ASSUME IncomingInv, NEW w \in Workers,
           \/ \E i \in Slots : exhaustIncomingReconciliationIssue(w, i)
           \/ resolveIncomingReconciliationIssue(w)
    PROVE  IncomingInv'
<1>1. ScanInv /\ UNCHANGED inspected
  BY DEF IncomingInv, exhaustIncomingReconciliationIssue, resolveIncomingReconciliationIssue
<1>2. PICK i \in Pending(w) :
         /\ ScanInv' /\ workers'[w].pc = "issues" /\ workers'[w].batch = Rest(w, i)
         /\ workers[w].pc \in {"issues", "resolve"}
         /\ workers[w].pc = "resolve" => workers[w].found = {i}
         /\ \A v \in Workers \ {w} : workers'[v] = workers[v]
         /\ \A j \in Slots : issues'[j].retries = issues[j].retries
  <2>1. ASSUME NEW i \in Slots, exhaustIncomingReconciliationIssue(w, i)
        PROVE  /\ i \in Pending(w) /\ workers[w].pc = "issues"
               /\ ScanInv' /\ workers'[w].pc = "issues" /\ workers'[w].batch = Rest(w, i)
               /\ \A v \in Workers \ {w} : workers'[v] = workers[v]
               /\ \A j \in Slots : issues'[j].retries = issues[j].retries
    <3>1. i \in Pending(w) /\ workers[w].pc = "issues"
      BY <2>1 DEF exhaustIncomingReconciliationIssue, At
    <3> QED
      BY <1>1, <2>1, <3>1, ExhaustKeeps
  <2>2. ASSUME resolveIncomingReconciliationIssue(w) PROVE workers[w].pc = "resolve"
    BY <2>2 DEF resolveIncomingReconciliationIssue, At
  <2>3. CASE \E i \in Slots : exhaustIncomingReconciliationIssue(w, i)
    BY <2>1, <2>3
  <2>4. CASE resolveIncomingReconciliationIssue(w)
    BY <1>1, <2>2, <2>4, ResolveIssueKeeps
  <2> QED
    BY <2>3, <2>4
<1>3. ASSUME NEW j \in Slots PROVE CountOK(j)'
  <2>1. Open(j)' \subseteq Open(j) /\ \A v \in Open(j)' : workers'[v].batch[j] = workers[v].batch[j]
    BY SMTT(30), <1>1, <1>2, DropCounts
  <2>2. CountOK(j) /\ inspected'[j] = inspected[j] /\ inspected[j] \in Nat
    BY <1>1 DEF IncomingInv
  <2> QED
    BY <1>1, <1>2, <2>1, <2>2, CountKept
<1> QED
  BY <1>1, <1>2, <1>3 DEF IncomingInv

\* A worker that may inspect an issue has an open claim of it.
LEMMA OpenToInspect ==
    ASSUME ScanInv, NEW w \in Workers, workers[w].pc = "issues", NEW i \in Pending(w),
           RetryCount(w, i) <= MaxRetries
    PROVE  w \in Open(i) /\ RetryCount(w, i) = workers[w].batch[i] + 1
<1>1. workers[w].batch[i] \in Nat
  BY HeldIssue
<1>2. workers[w].batch[i] < MaxRetries /\ RetryCount(w, i) = workers[w].batch[i] + 1
  BY <1>1, Counting DEF RetryCount
<1> QED
  BY <1>2 DEF Open, OpenIn, Pending

LEMMA InspectedCount ==
    ASSUME IncomingInv, NEW w \in Workers, NEW i \in Slots,
           InspectUnresolved(w, i) \/ InspectResolved(w, i)
    PROVE  IncomingInv'
<1>1. /\ ScanInv /\ workers[w].pc = "issues" /\ i \in Pending(w)
      /\ RetryCount(w, i) <= MaxRetries /\ inspected' = [inspected EXCEPT ![i] = @ + 1]
  BY DEF IncomingInv, InspectUnresolved, InspectResolved, At
<1>2. ScanInv' /\ \A v \in Workers \ {w} : workers'[v] = workers[v]
  BY <1>1, UnresolvedKeeps, ResolvedKeeps
<1>3. \/ workers'[w].pc = "issues" /\ workers'[w].batch = Rest(w, i)
      \/ /\ workers[w].pc = "issues" /\ workers'[w].pc = "resolve"
         /\ workers'[w].batch = workers[w].batch /\ workers'[w].found = {i}
  BY <1>1, UnresolvedKeeps, ResolvedKeeps
<1>4. \A j \in Slots : issues'[j].retries = issues[j].retries
  <2>1. InspectResolved(w, i) => issues' = issues
    BY DEF InspectResolved
  <2> QED
    BY <1>1, <2>1, UnresolvedKeeps
<1>5. w \in Open(i)
  BY <1>1, OpenToInspect
<1>6. /\ \A j : j # i => /\ Open(j)' \subseteq Open(j)
                         /\ \A v \in Open(j)' : workers'[v].batch[j] = workers[v].batch[j]
      /\ Open(i)' = Open(i) \ {w}
      /\ \A v \in Open(i)' : workers'[v].batch[i] = workers[v].batch[i]
  BY <1>1, <1>2, <1>3, DropCounts
<1>7. inspected' \in [Slots -> Nat] /\ inspected'[i] = inspected[i] + 1 /\ inspected[i] \in Nat
      /\ \A j \in Slots : j # i => inspected'[j] = inspected[j] /\ inspected[j] \in Nat
  BY SMTT(30), <1>1 DEF IncomingInv
<1>8. ASSUME NEW j \in Slots PROVE CountOK(j)'
  <2>0. CountOK(j)
    BY DEF IncomingInv
  <2>1. CASE j = i
    BY <1>1, <1>2, <1>4, <1>5, <1>6, <1>7, <2>0, <2>1, CountEnds
  <2>2. CASE j # i
    BY <1>1, <1>2, <1>4, <1>6, <1>7, <2>0, <2>2, CountKept
  <2> QED
    BY <2>1, <2>2
<1> QED
  BY <1>2, <1>7, <1>8 DEF IncomingInv

LEMMA DeferCount ==
    ASSUME IncomingInv, NEW w \in Workers, NEW i \in Slots, deferIncomingReconciliationIssue(w, i)
    PROVE  IncomingInv'
<1>1. /\ ScanInv /\ workers[w].pc = "issues" /\ i \in Pending(w)
      /\ RetryCount(w, i) <= MaxRetries /\ UNCHANGED inspected
  BY DEF IncomingInv, deferIncomingReconciliationIssue, At
<1>2. /\ ScanInv' /\ workers'[w].pc = "issues" /\ workers'[w].batch = Rest(w, i)
      /\ \A v \in Workers \ {w} : workers'[v] = workers[v]
      /\ \A j \in Slots \ {i} : issues'[j].retries = issues[j].retries
      /\ \/ issues'[i].retries = issues[i].retries
         \/ issues[i].retries = RetryCount(w, i) /\ issues'[i].retries = workers[w].batch[i]
  BY <1>1, DeferKeeps
<1>3. w \in Open(i) /\ RetryCount(w, i) = workers[w].batch[i] + 1
  BY <1>1, OpenToInspect
<1>4. /\ \A j : j # i => /\ Open(j)' \subseteq Open(j)
                         /\ \A v \in Open(j)' : workers'[v].batch[j] = workers[v].batch[j]
      /\ Open(i)' = Open(i) \ {w}
      /\ \A v \in Open(i)' : workers'[v].batch[i] = workers[v].batch[i]
  BY <1>1, <1>2, DropCounts
<1>5. ASSUME NEW j \in Slots PROVE CountOK(j)'
  <2>0. CountOK(j) /\ inspected'[j] = inspected[j] /\ inspected[j] \in Nat
    BY <1>1 DEF IncomingInv
  <2>1. CASE issues'[j].retries = issues[j].retries
    <3>1. Open(j)' \subseteq Open(j)
          /\ \A v \in Open(j)' : workers'[v].batch[j] = workers[v].batch[j]
      BY <1>4
    <3> QED
      BY <1>1, <1>2, <2>0, <2>1, <3>1, CountKept
  <2>2. CASE j = i /\ issues[i].retries = RetryCount(w, i) /\ issues'[i].retries = workers[w].batch[i]
    BY <1>1, <1>2, <1>3, <1>4, <2>0, <2>2, CountEnds
  <2> QED
    BY <1>2, <2>1, <2>2
<1> QED
  BY <1>1, <1>2, <1>5 DEF IncomingInv

\* Steps of no worker: nobody's claims move.
LEMMA AroundCount ==
    ASSUME IncomingInv, ScanInv', UNCHANGED <<workers, inspected>>,
           \A i \in Slots : issues'[i].retries = issues[i].retries
    PROVE  IncomingInv'
<1>1. ASSUME NEW i \in Slots PROVE CountOK(i)'
  <2>1. Open(i)' = Open(i)
    BY DEF Open, OpenIn
  <2>2. CountOK(i) /\ inspected'[i] = inspected[i] /\ inspected[i] \in Nat
    BY DEF IncomingInv
  <2> QED
    BY <2>1, <2>2, CountKept DEF IncomingInv
<1> QED
  BY <1>1 DEF IncomingInv

-----------------------------------------------------------------------------
(* The invariants hold, and what follows from them. *)

LEMMA IncomingStep ==
    ASSUME IncomingInv, [Next]_vars
    PROVE  IncomingInv'
<1>1. ScanInv
  BY DEF IncomingInv
<1>2. CASE \E relevant \in Kinds : Land(relevant)
  <2>1. UNCHANGED <<workers, inspected, issues>>
    BY <1>2 DEF Land
  <2> QED
    BY <1>1, <1>2, <2>1, LandKeeps, AroundCount
<1>3. CASE \E i \in Slots : BackoffElapses(i)
  <2>1. UNCHANGED <<workers, inspected>> /\ \A j \in Slots : issues'[j].retries = issues[j].retries
    BY SMTT(30), <1>1, <1>3 DEF BackoffElapses, ScanInv, Issue
  <2> QED
    BY <1>1, <1>3, <2>1, BackoffKeeps, AroundCount
<1>4. CASE \/ LeaseExpires \/ SwitchAccount \/ \E w \in Workers : renewIncomingPartition(w)
  <2>1. UNCHANGED <<workers, inspected, issues>>
    BY <1>4 DEF LeaseExpires, SwitchAccount, renewIncomingPartition
  <2> QED
    BY <1>1, <1>4, <2>1, LeaseKeeps, AroundCount
<1>5. ASSUME NEW w \in Workers, Work(w) \/ ScanFails(w) \/ Crash(w)
      PROVE  IncomingInv'
  BY <1>5, ScanStepsCount, ClaimIssuesCount, UninspectedCount, InspectedCount DEF Work
<1>6. CASE \E w \in Workers, i \in Slots : deferIncomingReconciliationIssue(w, i)
  BY <1>6, DeferCount
<1>7. CASE UNCHANGED vars
  <2>1. UNCHANGED <<chain, stored, issues, partition, workers, inspected>>
    BY <1>7 DEF vars
  <2>2. Lasting /\ \A i \in Slots : IssueOK(i)'
    BY <1>1, <2>1, IssuesStay, IssuesMove DEF Recounted
  <2>3. /\ chain' \in Seq(BOOLEAN) /\ DOMAIN chain' \subseteq Slots /\ issues' \in [Slots -> Issue]
        /\ partition' \in Partition /\ workers' \in [Workers -> Local]
    BY <1>1, <2>1 DEF ScanInv
  <2>4. Nothing \notin Workers
    BY IncomingAssumption
  <2>5. ScanInv'
    BY <1>1, <2>1, <2>2, <2>3, <2>4, Moves
  <2> QED
    BY <2>1, <2>5, AroundCount
<1> QED
  BY <1>2, <1>3, <1>4, <1>5, <1>6, <1>7 DEF Next

LEMMA IncomingInit ==
    ASSUME Init
    PROVE  IncomingInv
<1>1. NoIssue \in Issue /\ NoIssue.status = "NONE" /\ NoIssue.retries = 0
  BY DEF NoIssue, Issue
<1>2. issues \in [Slots -> Issue] /\ \A i \in Slots : issues[i].status = "NONE" /\ issues[i].retries = 0
  BY <1>1 DEF Init
<1>3. workers \in [Workers -> Local] /\ \A w \in Workers : workers[w].pc = "idle"
  BY Unburdened DEF Init
<1>4. partition \in Partition /\ partition.cursor = 0 /\ chain = <<>>
  BY DEF Init, Partition
<1>5. chain \in Seq(BOOLEAN) /\ DOMAIN chain \subseteq Slots
  BY SMTT(30), <1>4
<1>6. \A i \in 1..partition.cursor : Accounted(i)
  BY SMTT(30), <1>4
<1>7. \A i \in Slots : IssueOK(i)
  BY <1>2 DEF IssueOK
<1>8. \A w \in Workers : LocalOK(workers[w]) /\ OwnerOK(w, workers[w])
  BY <1>3 DEF LocalOK, OwnerOK
<1>9. ScanInv
  BY <1>2, <1>3, <1>4, <1>5, <1>6, <1>7, <1>8 DEF ScanInv
<1>10. inspected \in [Slots -> Nat] /\ \A i \in Slots : inspected[i] = 0
  BY DEF Init
<1>11. ASSUME NEW i \in Slots PROVE CountOK(i)
  <2>1. Open(i) = {}
    BY <1>3 DEF Open, OpenIn
  <2>2. Levels(i) = {}
    BY <2>1 DEF Levels
  <2>3. Cardinality(Levels(i)) = 0
    BY <2>2, FS_EmptySet
  <2>4. 0 + 0 <= Lesser(0, MaxRetries)
    BY SMTT(30), IncomingAssumption DEF Lesser
  <2> QED
    BY <1>2, <1>10, <2>1, <2>3, <2>4 DEF CountOK
<1> QED
  BY <1>9, <1>10, <1>11 DEF IncomingInv

\* The inductive invariant: everything up to the cursor is accounted for when
\* nodes list their whole history, a
\* worker knows what it still has to store, only the owner's scan started from
\* the cursor, and the open claims of an issue have different counts below the
\* row's.
THEOREM IncomingInvAlways == Spec => []IncomingInv
<1>1. Init => IncomingInv
  BY IncomingInit
<1>2. IncomingInv /\ [Next]_vars => IncomingInv'
  BY IncomingStep
<1> QED
  BY <1>1, <1>2, PTL DEF Spec

\* The saved cursor never passes a transfer that is neither stored nor kept as an
\* issue (reconcileAccount, reconcilePendingIssues), for any number of workers,
\* chain length and faults, when nodes list their whole history (collectHistory).
THEOREM TransfersAreKept == ASSUME WholeHistory PROVE Spec => []NoTransferLost
<1>1. ASSUME IncomingInv, NEW i \in Slots, i <= partition.cursor, Relevant(i)
      PROVE  i \in stored \/ issues[i].status \in {"PENDING", "EXHAUSTED"}
  <2>1. i \in Nat \ {0} /\ partition.cursor \in Nat
    BY <1>1, IncomingAssumption DEF IncomingInv, ScanInv, Partition
  <2>2. i \in 1..partition.cursor
    BY SMTT(30), <1>1, <2>1
  <2>3. Accounted(i)
    BY <1>1, <2>2 DEF IncomingInv, ScanInv
  <2> QED
    BY <1>1, <2>3 DEF Accounted, Relevant
<1>2. IncomingInv => NoTransferLost
  BY <1>1 DEF NoTransferLost
<1> QED
  BY <1>2, IncomingInvAlways, PTL

\* An issue is inspected at most MaxRetries times, although its claims are leased
\* by a back-off alone and deferIncomingReconciliationIssue gives counts back.
THEOREM InspectionsStayBounded == Spec => []InspectionsBounded
<1>1. ASSUME IncomingInv, NEW i \in Slots PROVE inspected[i] <= MaxRetries
  <2>1. Cardinality(Levels(i)) \in Nat /\ inspected[i] \in Nat /\ issues[i].retries \in Nat
        /\ MaxRetries \in Nat
    BY <1>1, LevelsFinite, IncomingAssumption DEF IncomingInv, ScanInv, Issue
  <2>2. inspected[i] + Cardinality(Levels(i)) <= Lesser(issues[i].retries, MaxRetries)
    BY <1>1 DEF IncomingInv, CountOK
  <2> QED
    BY SMTT(30), <2>1, <2>2 DEF Lesser
<1>2. IncomingInv => InspectionsBounded
  BY <1>1 DEF InspectionsBounded
<1> QED
  BY <1>2, IncomingInvAlways, PTL

\* Only saveIncomingCursor moves the cursor.
LEMMA CursorStep ==
    ASSUME ScanInv, [Next]_vars
    PROVE  MovesOwnCursor
<1>1. ASSUME NEW w \in Workers, saveIncomingCursor(w), partition'.cursor # partition.cursor
      PROVE  /\ partition.owner = w /\ workers[w].cursor = partition.cursor
             /\ workers[w].next = partition'.cursor
  <2>1. workers[w].pc = "store" /\ OwnerOK(w, workers[w])
    BY <1>1 DEF saveIncomingCursor, At, ScanInv
  <2>2. partition.owner = w /\ partition' = [partition EXCEPT !.cursor = workers[w].next]
    BY <1>1 DEF saveIncomingCursor, Written
  <2> QED
    BY <2>1, <2>2 DEF OwnerOK, ScanInv, Partition
<1>2. ASSUME NEW w \in Workers, Work(w), ~saveIncomingCursor(w)
      PROVE  partition'.cursor = partition.cursor
  <2>1. CASE claimIncomingPartition(w)
    BY <2>1 DEF claimIncomingPartition, ScanInv, Partition
  <2>2. CASE releaseIncomingPartition(w)
    BY <2>2 DEF releaseIncomingPartition, Written, ScanInv, Partition
  <2>3. CASE UNCHANGED partition
    BY <2>3
  <2> QED
    BY <1>2, <2>1, <2>2, <2>3 DEF Work, scanWithCursor, StoreTransfer,
       recordIncomingReconciliationIssue, claimIncomingReconciliationIssues,
       exhaustIncomingReconciliationIssue, InspectUnresolved, InspectResolved,
       resolveIncomingReconciliationIssue, EndRun
<1>3. ASSUME NEW w \in Workers, renewIncomingPartition(w) \/ ScanFails(w) \/ Crash(w)
      PROVE  partition'.cursor = partition.cursor
  BY <1>3 DEF renewIncomingPartition, ScanFails, Crash, ScanInv, Partition
<1>4. ASSUME \/ \E relevant \in Kinds : Land(relevant)
             \/ \E i \in Slots : BackoffElapses(i)
             \/ SwitchAccount \/ LeaseExpires \/ UNCHANGED vars
             \/ \E w \in Workers, i \in Slots : deferIncomingReconciliationIssue(w, i)
      PROVE  partition'.cursor = partition.cursor
  BY <1>4 DEF Land, BackoffElapses, SwitchAccount, LeaseExpires, vars,
              deferIncomingReconciliationIssue, ScanInv, Partition
<1>5. CASE \E w \in Workers : saveIncomingCursor(w)
  BY <1>1, <1>5 DEF MovesOwnCursor
<1>6. CASE ~\E w \in Workers : saveIncomingCursor(w)
  <2>1. partition'.cursor = partition.cursor
    BY <1>2, <1>3, <1>4, <1>6 DEF Next
  <2> QED
    BY <2>1 DEF MovesOwnCursor
<1> QED
  BY <1>5, <1>6

\* The cursor is moved by the owner of the partition only, and from where its
\* own scan began: a worker that lost its lease cannot undo the progress of its
\* successor (saveIncomingCursor compares owner and lease end).
THEOREM CursorsAreHandedOver == Spec => CursorHandedOver
<1>1. IncomingInv /\ [Next]_vars => [MovesOwnCursor]_vars
  BY CursorStep DEF IncomingInv
<1> QED
  BY <1>1, IncomingInvAlways, PTL DEF Spec, CursorHandedOver
=============================================================================
