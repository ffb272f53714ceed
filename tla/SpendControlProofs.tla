------------------------- MODULE SpendControlProofs -------------------------
(***************************************************************************)
(* Proofs about SpendControl: refunds stay within the original payment,    *)
(* idempotency keys are faithful, approvals govern funds, and whatever is  *)
(* admitted is within the limits of the active policy.                     *)
(***************************************************************************)
EXTENDS SpendControl, FiniteSetTheorems, WellFoundedInduction, TLAPS

\* A leaf is left to Zenon, unless it names SMT: those need arithmetic, or terms of
\* records and functions that Zenon does not simplify.
USE ZenonT(60)

-----------------------------------------------------------------------------
(* Sums.  A set of naturals that is not empty has a least element; a claim  *)
(* about all partial sums is shown by the least index where it fails.       *)

LEMMA Least ==
    ASSUME NEW T, T \subseteq Nat, T # {}
    PROVE  \E n \in T : \A m \in T : n <= m
<1>1. IsWellFoundedOn({ss \in Nat \X Nat : ss[1] < ss[2]}, Nat)
  BY NatLessThanWellFounded DEF OpToRel
<1>2. PICK n \in T : \A m \in T : ~(<<m, n>> \in {ss \in Nat \X Nat : ss[1] < ss[2]})
  BY <1>1, WFMin
<1>3. \A m \in T : ~(m < n)
  BY <1>2
<1> QED
  BY SMTT(30), <1>3

\* If a set of indices contains 0 and with each one the next, it has them all.
LEMMA Upwards ==
    ASSUME NEW n \in Nat, NEW S, 0 \in S, \A i \in 1..n : i - 1 \in S => i \in S
    PROVE  \A i \in 0..n : i \in S
<1> DEFINE T == {i \in 0..n : i \notin S}
<1>1. SUFFICES ASSUME T # {} PROVE FALSE
  OBVIOUS
<1>2. T \subseteq Nat
  BY SMTT(30)
<1>3. PICK i \in T : \A m \in T : i <= m
  <2> HIDE DEF T
  <2> QED
    BY <1>1, <1>2, Least
<1>4. i # 0 /\ i \in 1..n
  BY SMTT(30), <1>3
<1>5. i - 1 \in 0..n /\ i - 1 \notin T
  BY SMTT(30), <1>3, <1>4
<1> QED
  BY <1>3, <1>4, <1>5

\* g has the sums of the first n numbers of a.
Sums(g, a, n) ==
    g \in [0..n -> Nat] /\ g[0] = 0 /\ \A i \in 1..n : g[i] = g[i - 1] + a[i]

LEMMA SumsExist ==
    ASSUME NEW n \in Nat, NEW a \in [1..n -> Nat]
    PROVE  \E g : Sums(g, a, n)
<1> DEFINE S == {m \in 0..n : \E g : Sums(g, a, m)}
<1>1. 0 \in S
  <2>1. Sums([i \in 0..0 |-> 0], a, 0)
    BY SMTT(30) DEF Sums
  <2> QED
    BY SMTT(30), <2>1
<1>2. ASSUME NEW m \in 1..n, m - 1 \in S PROVE m \in S
  <2>1. PICK g : Sums(g, a, m - 1)
    BY <1>2
  <2> DEFINE h == [i \in 0..m |-> IF i = m THEN g[m - 1] + a[m] ELSE g[i]]
  <2>2. m \in Nat /\ m - 1 \in 0..(m - 1) /\ a[m] \in Nat /\ g[m - 1] \in Nat
    BY SMTT(30), <2>1 DEF Sums
  <2>3. h \in [0..m -> Nat] /\ h[0] = 0
    BY SMTT(30), <2>1, <2>2 DEF Sums
  <2>4. ASSUME NEW i \in 1..m PROVE h[i] = h[i - 1] + a[i]
    <3>1. CASE i = m
      BY SMTT(30), <2>2, <3>1
    <3>2. CASE i # m
      BY SMTT(30), <2>1, <2>2, <3>2 DEF Sums
    <3> QED
      BY <3>1, <3>2
  <2>5. Sums(h, a, m)
    <3> HIDE DEF h
    <3> QED
      BY <2>3, <2>4 DEF Sums
  <2> QED
    BY SMTT(30), <2>5
<1>3. n \in S
  <2> HIDE DEF S
  <2>1. \A i \in 1..n : i - 1 \in S => i \in S
    BY <1>2
  <2>2. \A i \in 0..n : i \in S
    BY <1>1, <2>1, Upwards
  <2> QED
    BY SMTT(30), <2>2
<1> QED
  BY <1>3

LEMMA TotalIs ==
    ASSUME NEW n \in Nat, NEW a \in [1..n -> Nat]
    PROVE  \E g : Sums(g, a, n) /\ Total(a) = g[n]
<1> DEFINE Body(g) == [m \in 0..n |-> IF m = 0 THEN 0 ELSE g[m - 1] + a[m]]
<1> DEFINE sum == CHOOSE g : g = Body(g)
<1>1. Len(a) = n
  BY SMTT(30)
<1>2. \E g : g = Body(g)
  <2>1. PICK g : Sums(g, a, n)
    BY SumsExist
  <2>2. \A m \in 0..n : g[m] = Body(g)[m]
    BY SMTT(30), <2>1 DEF Sums
  <2>3. g = Body(g)
    BY <2>1, <2>2 DEF Sums
  <2> QED
    BY <2>3
<1>3. sum = Body(sum)
  <2> HIDE DEF Body
  <2> QED
    BY <1>2
<1>4. Total(a) = sum[n]
  BY <1>1 DEF Total
<1> HIDE DEF sum
<1>5. DOMAIN sum = 0..n /\ \A m \in 0..n : sum[m] = IF m = 0 THEN 0 ELSE sum[m - 1] + a[m]
  BY <1>3
<1>6. \A i \in 0..n : i \in {m \in 0..n : sum[m] \in Nat}
  <2> DEFINE S == {m \in 0..n : sum[m] \in Nat}
  <2>1. 0 \in S /\ \A i \in 1..n : i - 1 \in S => i \in S
    BY SMTT(30), <1>5
  <2> HIDE DEF S
  <2>2. \A i \in 0..n : i \in S
    BY <2>1, Upwards
  <2> QED
    BY <2>2 DEF S
<1>7. Sums(sum, a, n)
  BY SMTT(30), <1>3, <1>5, <1>6 DEF Sums
<1> QED
  BY <1>4, <1>7

\* The greater numbers have the greater sum.
LEMMA TotalMonotone ==
    ASSUME NEW n \in Nat, NEW a \in [1..n -> Nat], NEW b \in [1..n -> Nat],
           \A i \in 1..n : a[i] <= b[i]
    PROVE  Total(a) \in Nat /\ Total(b) \in Nat /\ Total(a) <= Total(b)
<1>1. PICK g : Sums(g, a, n) /\ Total(a) = g[n]
  BY TotalIs
<1>2. PICK h : Sums(h, b, n) /\ Total(b) = h[n]
  BY TotalIs
<1> DEFINE S == {i \in 0..n : g[i] <= h[i]}
<1>3. 0 \in S
  BY SMTT(30), <1>1, <1>2 DEF Sums
<1>4. ASSUME NEW i \in 1..n, i - 1 \in S PROVE i \in S
  BY SMTT(30), <1>1, <1>2, <1>4 DEF Sums
<1>5. n \in S
  <2> HIDE DEF S
  <2>1. \A i \in 1..n : i - 1 \in S => i \in S
    BY <1>4
  <2>2. \A i \in 0..n : i \in S
    BY <1>3, <2>1, Upwards
  <2> QED
    BY SMTT(30), <2>2
<1> QED
  BY SMTT(30), <1>1, <1>2, <1>5 DEF Sums

LEMMA TotalOfOneMore ==
    ASSUME NEW n \in Nat, NEW a \in [1..n -> Nat], NEW b \in [1..(n + 1) -> Nat],
           \A i \in 1..n : b[i] = a[i]
    PROVE  Total(a) \in Nat /\ Total(b) = Total(a) + b[n + 1]
<1>1. PICK g : Sums(g, a, n) /\ Total(a) = g[n]
  BY TotalIs
<1>2. PICK h : Sums(h, b, n + 1) /\ Total(b) = h[n + 1]
  BY SMTT(30), TotalIs
<1> DEFINE S == {i \in 0..n : g[i] = h[i]}
<1>3. 0 \in S
  BY SMTT(30), <1>1, <1>2 DEF Sums
<1>4. ASSUME NEW i \in 1..n, i - 1 \in S PROVE i \in S
  BY SMTT(30), <1>1, <1>2, <1>4 DEF Sums
<1>5. n \in S
  <2> HIDE DEF S
  <2>1. \A i \in 1..n : i - 1 \in S => i \in S
    BY <1>4
  <2>2. \A i \in 0..n : i \in S
    BY <1>3, <2>1, Upwards
  <2> QED
    BY SMTT(30), <2>2
<1> QED
  BY SMTT(30), <1>1, <1>2, <1>5 DEF Sums

-----------------------------------------------------------------------------
(* What the payments of an account add up to. *)

\* Row q may follow row p unless an approval comes between: nothing that counts
\* against a limit comes back.
Follows(p, q) ==
    /\ q.key = p.key /\ q.intent = p.intent /\ q.created = p.created
    /\ q.reservation = "HELD" => p.reservation = "HELD"
    /\ Spent(q) => Spent(p)

\* Row q keeps no larger share of the original payment than row p.
FreesShare(p, q) ==
    /\ q.key = p.key /\ q.intent = p.intent
    /\ KeepsShare(q) => KeepsShare(p)

LEMMA Amounts ==
    ASSUME NEW ps \in Seq(Payment), NEW i \in 1..Len(ps)
    PROVE  ps[i] \in Payment /\ ps[i].intent.amount \in Nat
<1>1. ps[i] \in Payment
  BY SMTT(30)
<1>2. PICK p : p = ps[i]
  OBVIOUS
<1>3. p.intent \in [kind: {"PAY", "REFUND"}, amount: Nat]
  BY <1>1, <1>2 DEF Payment
<1>4. p.intent.amount \in Nat
  BY <1>3
<1> QED
  BY <1>1, <1>2, <1>4

LEMMA HeldShrinks ==
    ASSUME payments \in Seq(Payment), payments' \in Seq(Payment),
           Len(payments') = Len(payments),
           \A i \in 1..Len(payments) : Follows(payments[i], payments'[i])
    PROVE  Held \in Nat /\ Held' \in Nat /\ Held' <= Held
<1> DEFINE n == Len(payments)
<1> DEFINE a == [i \in 1..n |-> IF payments[i].reservation = "HELD"
                                THEN payments[i].intent.amount ELSE 0]
<1> DEFINE b == [i \in 1..n |-> IF payments'[i].reservation = "HELD"
                                THEN payments'[i].intent.amount ELSE 0]
<1>1. n \in Nat /\ DOMAIN payments = 1..n /\ DOMAIN payments' = 1..n
  BY SMTT(30)
<1>2. \A i \in 1..n : payments[i].intent.amount \in Nat /\ payments'[i].intent.amount \in Nat
  BY Amounts
<1>3. a \in [1..n -> Nat] /\ b \in [1..n -> Nat]
  BY <1>2
<1>4. \A i \in 1..n : b[i] <= a[i]
  BY SMTT(30), <1>2 DEF Follows
<1>5. Held = Total(a) /\ Held' = Total(b)
  BY <1>1 DEF Held, AmountOf
<1> HIDE DEF a, b, n
<1> QED
  BY <1>1, <1>3, <1>4, <1>5, TotalMonotone

LEMMA CountShrinks ==
    ASSUME payments \in Seq(Payment), payments' \in Seq(Payment),
           Len(payments') = Len(payments),
           \A i \in 1..Len(payments) : Follows(payments[i], payments'[i]),
           NEW limits, NEW t
    PROVE  /\ SpentCount(limits, t) \in Nat
           /\ SpentCount(limits, t)' \in Nat
           /\ SpentCount(limits, t)' <= SpentCount(limits, t)
<1> DEFINE n == Len(payments)
<1> DEFINE In(p) == Spent(p) /\ InWindow(p, limits, t)
<1> DEFINE a == [i \in 1..n |-> IF In(payments[i]) THEN 1 ELSE 0]
<1> DEFINE b == [i \in 1..n |-> IF In(payments'[i]) THEN 1 ELSE 0]
<1>1. n \in Nat /\ DOMAIN payments = 1..n /\ DOMAIN payments' = 1..n
  BY SMTT(30)
<1>2. \A i \in 1..n : In(payments'[i]) => In(payments[i])
  BY DEF Follows, InWindow
<1>3. SpentCount(limits, t) = Total(a)
  BY <1>1 DEF SpentCount, CountOf
<1>4. SpentCount(limits, t)' = Total(b)
  BY <1>1 DEF SpentCount, CountOf
<1> HIDE DEF In
<1>5. a \in [1..n -> Nat] /\ b \in [1..n -> Nat] /\ \A i \in 1..n : b[i] <= a[i]
  BY SMTT(30), <1>2
<1> HIDE DEF a, b, n
<1> QED
  BY <1>1, <1>3, <1>4, <1>5, TotalMonotone

Share(p) ==
    IF p.intent.kind = "REFUND" /\ KeepsShare(p) THEN p.intent.amount ELSE 0

LEMMA RefundsAre ==
    ASSUME NEW ps \in Seq(Payment)
    PROVE  /\ [i \in 1..Len(ps) |-> Share(ps[i])] \in [1..Len(ps) -> Nat]
           /\ Outstanding(ps) = Total([i \in 1..Len(ps) |-> Share(ps[i])])
<1>1. DOMAIN ps = 1..Len(ps)
  BY SMTT(30)
<1>2. \A i \in 1..Len(ps) : ps[i].intent.amount \in Nat
  BY Amounts
<1> QED
  BY <1>1, <1>2 DEF Outstanding, Refunds, AmountOf, Share

LEMMA RefundsShrink ==
    ASSUME NEW ps \in Seq(Payment), NEW qs \in Seq(Payment), Len(qs) = Len(ps),
           \A i \in 1..Len(ps) : FreesShare(ps[i], qs[i])
    PROVE  Outstanding(ps) \in Nat /\ Outstanding(qs) \in Nat /\ Outstanding(qs) <= Outstanding(ps)
<1> DEFINE n == Len(ps)
<1> DEFINE a == [i \in 1..n |-> Share(ps[i])]
<1> DEFINE b == [i \in 1..n |-> Share(qs[i])]
<1>1. n \in Nat
  BY SMTT(30)
<1>2. a \in [1..n -> Nat] /\ b \in [1..n -> Nat]
  BY RefundsAre
<1>3. Outstanding(ps) = Total(a) /\ Outstanding(qs) = Total(b)
  BY RefundsAre
<1>4. \A i \in 1..n : b[i] <= a[i]
  BY SMTT(30), Amounts DEF Share, FreesShare
<1> HIDE DEF a, b, n
<1> QED
  BY <1>1, <1>2, <1>3, <1>4, TotalMonotone

LEMMA RefundsGrow ==
    ASSUME NEW ps \in Seq(Payment), NEW p \in Payment
    PROVE  Outstanding(ps) \in Nat /\ Outstanding(Append(ps, p)) = Outstanding(ps) + Share(p)
<1> DEFINE n == Len(ps)
<1> DEFINE qs == Append(ps, p)
<1> DEFINE a == [i \in 1..n |-> Share(ps[i])]
<1> DEFINE b == [i \in 1..(n + 1) |-> Share(qs[i])]
<1>1. /\ n \in Nat /\ qs \in Seq(Payment) /\ Len(qs) = n + 1 /\ qs[n + 1] = p
      /\ \A i \in 1..n : qs[i] = ps[i] /\ i \in 1..(n + 1)
  BY SMTT(30)
<1>2. a \in [1..n -> Nat] /\ Outstanding(ps) = Total(a)
  BY RefundsAre
<1> HIDE DEF qs
<1>3. b \in [1..(n + 1) -> Nat] /\ Outstanding(qs) = Total(b)
  BY <1>1, RefundsAre
<1>4. \A i \in 1..n : b[i] = a[i]
  BY <1>1
<1>5. b[n + 1] = Share(p)
  BY SMTT(30), <1>1
<1> HIDE DEF a, b, n
<1>6. Outstanding(ps) \in Nat /\ Outstanding(qs) = Outstanding(ps) + Share(p)
  BY <1>1, <1>2, <1>3, <1>4, <1>5, TotalOfOneMore
<1> QED
  BY <1>6 DEF qs

\* What the transaction compares with the original payment is no less.
LEMMA RefundsCover ==
    ASSUME NEW ps \in Seq(Payment), \A i \in DOMAIN ps : RowOK(ps[i])
    PROVE  Outstanding(ps) \in Nat /\ RefundsOf(ps) \in Nat /\ Outstanding(ps) <= RefundsOf(ps)
<1> DEFINE n == Len(ps)
<1> DEFINE In(p) == p.intent.kind = "REFUND" /\ p.status \notin NotSpent \cup {"PROVED_NO_EFFECT"}
<1> DEFINE a == [i \in 1..n |-> Share(ps[i])]
<1> DEFINE b == [i \in 1..n |-> IF In(ps[i]) THEN ps[i].intent.amount ELSE 0]
<1>1. n \in Nat /\ DOMAIN ps = 1..n
  BY SMTT(30)
<1>2. \A i \in 1..n : ps[i].intent.amount \in Nat
  BY Amounts
<1>3. a \in [1..n -> Nat] /\ Outstanding(ps) = Total(a)
  BY RefundsAre
<1>4. RefundsOf(ps) = Total(b)
  BY <1>1 DEF RefundsOf, Refunds, AmountOf
<1>5. ASSUME NEW i \in 1..n, KeepsShare(ps[i])
      PROVE  ps[i].status \notin NotSpent \cup {"PROVED_NO_EFFECT"}
  BY <1>1, <1>5 DEF KeepsShare, RowOK, NotSpent, WithoutEffect
<1>6. \A i \in 1..n : Share(ps[i]) # 0 => In(ps[i])
  BY <1>5 DEF Share
<1>7. \A i \in 1..n : Share(ps[i]) = 0 \/ Share(ps[i]) = ps[i].intent.amount
  BY DEF Share
<1> HIDE DEF In
<1>8. b \in [1..n -> Nat]
  BY <1>2
<1>9. \A i \in 1..n : a[i] <= b[i]
  BY SMTT(30), <1>2, <1>6, <1>7
<1> HIDE DEF a, b, n
<1> QED
  BY <1>1, <1>3, <1>4, <1>8, <1>9, TotalMonotone

-----------------------------------------------------------------------------
(* The invariant. *)

\* The transaction of createV2Payment, from the row lock to the commit.
Inside == {"read", "commit"}

Names == {"confirmed", "held", "unresolved", "count"}
Reads == UNION {[A -> Nat] : A \in SUBSET Names}

Call ==
    [pc: {"idle", "refund", "lookup", "route", "policy", "balance", "create", "answered"}
            \cup Inside,
     key: Keys \cup {NoKey}, intent: [kind: {"PAY", "REFUND"}, amount: Nat],
     version: Nat, at: Nat, due: Nat, settled: Int, read: Reads, answer: Nat]

\* The tables: one active policy, one payment per key, sound rows, and refunds
\* that fit together.
Tables ==
    /\ now \in Nat /\ units \in Int
    /\ policies \in Seq([limits: Limits, status: {"DRAFT", "ACTIVE", "RETIRED"}])
    /\ \A i, j \in DOMAIN policies :
         policies[i].status = "ACTIVE" /\ policies[j].status = "ACTIVE" => i = j
    /\ payments \in Seq(Payment)
    /\ \A i, j \in DOMAIN payments : payments[i].key = payments[j].key => i = j
    /\ \A i \in DOMAIN payments : RowOK(payments[i])
    /\ Outstanding(payments) <= OriginalAmount
    /\ decider.pc = "approve" => decider.payment \in DOMAIN payments

\* A transaction that holds the row lock: the account is active, the policy that
\* it judges by is the active one, its key is still free, and what it has read
\* so far is not less than what is there now.
Judging(r) ==
    /\ active /\ policies[r.version].status = "ACTIVE"
    /\ \A i \in DOMAIN payments : payments[i].key # r.key
    /\ r.pc = "read" => DOMAIN r.read \in {{}, {"confirmed"}, {"confirmed", "held"},
                                           {"confirmed", "held", "unresolved"}}
    /\ r.pc = "commit" => DOMAIN r.read = Names
    /\ "held" \in DOMAIN r.read => Held <= r.read["held"]
    /\ "count" \in DOMAIN r.read =>
         SpentCount(policies[r.version].limits, r.at) <= r.read["count"]

CallOK(c, r) ==
    /\ r.pc # "idle" => r.key \in Keys
    /\ r.pc # "answered" => r.answer = Refused
    /\ r.answer # Refused => /\ r.answer \in DOMAIN payments
                             /\ payments[r.answer].key = r.key
                             /\ payments[r.answer].intent = r.intent
    /\ r.pc \in Inside <=> lock = c
    /\ r.pc \in {"balance", "create"} \cup Inside => r.version \in DOMAIN policies
    /\ r.pc \notin Inside => DOMAIN r.read = {}
    /\ r.pc \in Inside => Judging(r)

SpendInv ==
    /\ Tables
    /\ calls \in [Clients -> Call]
    /\ \A c \in Clients : CallOK(c, calls[c])

-----------------------------------------------------------------------------
(* Calls that a step leaves alone. *)

LEMMA CallReached ==
    ASSUME NEW d, NEW s, CallOK(d, s)', calls'[d] = s
    PROVE  CallOK(d, calls[d])'
BY DEF CallOK, Judging

\* Outside the transaction a call depends on little.
LEMMA OutsideKept ==
    ASSUME NEW d, NEW s, CallOK(d, s), s.pc \notin Inside, lock' # d,
           DOMAIN policies \subseteq DOMAIN policies',
           \A i \in DOMAIN payments : /\ i \in DOMAIN payments'
                                      /\ payments'[i].key = payments[i].key
                                      /\ payments'[i].intent = payments[i].intent
    PROVE  CallOK(d, s)'
BY DEF CallOK

\* Inside, what was read is still not less after a payment was settled.
LEMMA InsideKept ==
    ASSUME Tables, NEW d, NEW s \in Call, CallOK(d, s), s.pc \in Inside, lock' = lock,
           UNCHANGED <<active, policies>>, payments' \in Seq(Payment),
           Len(payments') = Len(payments),
           \A i \in 1..Len(payments) : Follows(payments[i], payments'[i])
    PROVE  CallOK(d, s)'
<1>1. payments \in Seq(Payment) /\ DOMAIN payments = 1..Len(payments)
      /\ DOMAIN payments' = DOMAIN payments
  BY SMTT(30) DEF Tables
<1>2. \A i \in DOMAIN payments : payments'[i].key = payments[i].key
                                 /\ payments'[i].intent = payments[i].intent
  BY <1>1 DEF Follows
<1>3. Judging(s)
  BY DEF CallOK
<1> DEFINE limits == policies[s.version].limits
<1>4. /\ Held \in Nat /\ Held' \in Nat /\ Held' <= Held
      /\ SpentCount(limits, s.at) \in Nat
      /\ SpentCount(limits, s.at)' \in Nat
      /\ SpentCount(limits, s.at)' <= SpentCount(limits, s.at)
  <2>1. PICK l, t : l = limits /\ t = s.at
    OBVIOUS
  <2>2. /\ SpentCount(l, t) \in Nat /\ SpentCount(l, t)' \in Nat
        /\ SpentCount(l, t)' <= SpentCount(l, t)
    BY <1>1, CountShrinks
  <2>3. Held \in Nat /\ Held' \in Nat /\ Held' <= Held
    BY <1>1, HeldShrinks
  <2>4. SpentCount(limits, s.at)' = SpentCount(l, t)'
    BY SMTT(30), <2>1 DEF SpentCount, CountOf, InWindow
  <2> QED
    BY <2>1, <2>2, <2>3, <2>4
<1>5. "held" \in DOMAIN s.read => s.read["held"] \in Nat
  BY SMTT(30) DEF Call, Reads
<1>6. "count" \in DOMAIN s.read => s.read["count"] \in Nat
  BY SMTT(30) DEF Call, Reads
<1>7. Judging(s)'
  BY SMTT(30), <1>1, <1>2, <1>3, <1>4, <1>5, <1>6 DEF Judging
<1> QED
  BY <1>1, <1>2, <1>7 DEF CallOK

\* While the row lock is free no call is inside.
LEMMA AllOutside ==
    ASSUME SpendInv, lock = NoLock, NEW d \in Clients
    PROVE  calls[d].pc \notin Inside
BY UnderwayAssumption DEF SpendInv, CallOK

LEMMA SameTables ==
    ASSUME UNCHANGED <<active, policies, payments, lock>>, NEW d, NEW s, CallOK(d, s)
    PROVE  CallOK(d, s)'
<1>1. Held' = Held
  BY DEF Held, AmountOf
<1>2. \A limits, t : SpentCount(limits, t)' = SpentCount(limits, t)
  BY DEF SpentCount, CountOf
<1>3. Judging(s) => Judging(s)'
  <2>1. SpentCount(policies[s.version].limits, s.at)'
          = SpentCount(policies[s.version].limits, s.at)
    BY DEF SpentCount, CountOf
  <2> QED
    BY <1>1, <2>1 DEF Judging
<1> QED
  BY <1>3 DEF CallOK

LEMMA SameRows ==
    ASSUME Tables, UNCHANGED <<now, policies, payments, units, decider>>
    PROVE  Tables'
BY DEF Tables

\* A call moves on while the tables stay.
LEMMA CallMoves ==
    ASSUME SpendInv, NEW c \in Clients, NEW r \in Call, CallOK(c, r),
           calls' = [calls EXCEPT ![c] = r],
           UNCHANGED <<now, active, policies, payments, units, lock, decider>>
    PROVE  SpendInv'
<1>1. Tables'
  BY SameRows DEF SpendInv
<1>2. calls' \in [Clients -> Call]
  BY DEF SpendInv
<1>3. ASSUME NEW d \in Clients PROVE CallOK(d, calls[d])'
  <2>1. PICK s : s = IF d = c THEN r ELSE calls[d]
    OBVIOUS
  <2>2. calls'[d] = s
    BY <2>1 DEF SpendInv
  <2>3. CallOK(d, s)
    BY <2>1 DEF SpendInv
  <2>4. CallOK(d, s)'
    BY <2>3, SameTables
  <2> QED
    BY <2>2, <2>4, CallReached
<1> QED
  BY <1>1, <1>2, <1>3 DEF SpendInv

\* The tables change while the row lock is free.
LEMMA FreeStep ==
    ASSUME SpendInv, lock = NoLock, UNCHANGED <<lock, calls>>, Tables',
           DOMAIN policies \subseteq DOMAIN policies',
           \A i \in DOMAIN payments : /\ i \in DOMAIN payments'
                                      /\ payments'[i].key = payments[i].key
                                      /\ payments'[i].intent = payments[i].intent
    PROVE  SpendInv'
<1>1. ASSUME NEW d \in Clients PROVE CallOK(d, calls[d])'
  <2>1. PICK s : s = calls[d]
    OBVIOUS
  <2>2. CallOK(d, s) /\ s.pc \notin Inside /\ lock' # d /\ calls'[d] = s
    BY <2>1, AllOutside, UnderwayAssumption DEF SpendInv
  <2>3. CallOK(d, s)'
    BY <2>2, OutsideKept
  <2> QED
    BY <2>2, <2>3, CallReached
<1> QED
  BY <1>1 DEF SpendInv

\* A payment is settled, whoever holds the row lock.
LEMMA SettlingStep ==
    ASSUME SpendInv, UNCHANGED <<lock, calls, active, policies>>, Tables',
           Len(payments') = Len(payments),
           \A i \in 1..Len(payments) : Follows(payments[i], payments'[i])
    PROVE  SpendInv'
<1>1. payments' \in Seq(Payment) /\ DOMAIN payments = 1..Len(payments)
      /\ DOMAIN payments' = 1..Len(payments)
  BY SMTT(30) DEF SpendInv, Tables
<1>2. \A i \in DOMAIN payments : /\ i \in DOMAIN payments'
                                 /\ payments'[i].key = payments[i].key
                                 /\ payments'[i].intent = payments[i].intent
  BY <1>1 DEF Follows
<1>3. ASSUME NEW d \in Clients PROVE CallOK(d, calls[d])'
  <2>1. PICK s : s = calls[d]
    OBVIOUS
  <2>2. CallOK(d, s) /\ s \in Call /\ calls'[d] = s
    BY <2>1 DEF SpendInv
  <2>3. CASE s.pc \in Inside
    <3>1. CallOK(d, s)'
      BY <1>1, <2>2, <2>3, InsideKept DEF SpendInv
    <3> QED
      BY <2>2, <3>1, CallReached
  <2>4. CASE s.pc \notin Inside
    <3>1. lock' # d
      BY <2>2, <2>4 DEF CallOK
    <3>2. CallOK(d, s)'
      BY <1>2, <2>2, <2>4, <3>1, OutsideKept
    <3> QED
      BY <2>2, <3>2, CallReached
  <2> QED
    BY <2>3, <2>4
<1> QED
  BY <1>3 DEF SpendInv

-----------------------------------------------------------------------------
(* createPayment and createRefund, before the transaction. *)

LEMMA ReadsAre ==
    ASSUME NEW A \in SUBSET Names, NEW f \in [A -> Nat]
    PROVE  f \in Reads
BY DEF Reads

LEMMA IdleIsCall == Idle \in Call /\ DOMAIN Idle.read = {}
<1>1. [a \in {} |-> 0] \in Reads
  <2>1. {} \in SUBSET Names /\ [a \in {} |-> 0] \in [{} -> Nat]
    OBVIOUS
  <2> QED
    BY <2>1, ReadsAre
<1> QED
  BY SMTT(30), <1>1 DEF Idle, Call

\* A call has a key, and nothing of the tables in it, until it reads the policy.
LEMMA EarlyCall ==
    ASSUME SpendInv, NEW c \in Clients, NEW r \in Call,
           calls[c].pc \notin Inside, r.pc \notin Inside, r.pc # "idle" => r.key \in Keys,
           DOMAIN r.read = {}, r.answer = Refused,
           r.pc \in {"balance", "create"} => r.version \in DOMAIN policies
    PROVE  CallOK(c, r)
BY DEF SpendInv, CallOK

LEMMA AnswerKeeps ==
    ASSUME SpendInv, NEW c \in Clients, calls[c].pc # "idle", calls[c].pc \notin Inside,
           NEW a \in Nat, Answer(c, a),
           a # Refused => /\ a \in DOMAIN payments
                          /\ payments[a].key = calls[c].key
                          /\ payments[a].intent = calls[c].intent,
           UNCHANGED <<now, active, policies, payments, units, lock, decider>>
    PROVE  SpendInv'
<1>1. PICK s : s = calls[c]
  OBVIOUS
<1>2. PICK r : r = [Idle EXCEPT !.pc = "answered", !.key = s.key, !.intent = s.intent,
                                !.answer = a]
  OBVIOUS
<1>3. calls' = [calls EXCEPT ![c] = r]
  BY <1>1, <1>2 DEF Answer
<1>4. s \in Call /\ CallOK(c, s) /\ s.key \in Keys
  BY <1>1 DEF SpendInv, CallOK
<1>5. r \in Call /\ r.pc = "answered" /\ r.key = s.key /\ r.intent = s.intent /\ r.answer = a
      /\ DOMAIN r.read = {}
  BY <1>2, <1>4, IdleIsCall DEF Call
<1>6. CallOK(c, r)
  BY <1>1, <1>4, <1>5 DEF CallOK, Inside
<1> QED
  BY <1>3, <1>5, <1>6, CallMoves

LEMMA FailKeeps ==
    ASSUME SpendInv, NEW c \in Clients, calls[c].pc # "idle", calls[c].pc \notin Inside,
           Fail(c), UNCHANGED <<now, active, policies, payments, units, lock, decider>>
    PROVE  SpendInv'
BY AnswerKeeps DEF Fail, Refused

LEMMA BoundKeeps ==
    ASSUME SpendInv, NEW c \in Clients, calls[c].pc # "idle", calls[c].pc \notin Inside,
           Bound(calls[c].key) # {}, AnswerBound(c),
           UNCHANGED <<now, active, policies, payments, units, lock, decider>>
    PROVE  SpendInv'
<1>1. PICK i : i = CHOOSE j \in Bound(calls[c].key) : TRUE
  OBVIOUS
<1>2. i \in Bound(calls[c].key)
  BY <1>1
<1>3. i \in DOMAIN payments /\ payments[i].key = calls[c].key /\ i \in Nat
  BY SMTT(30), <1>2 DEF Bound, SpendInv, Tables
<1>4. PICK a : a = IF SameIntent(i, calls[c].intent) THEN i ELSE Refused
  OBVIOUS
<1>5. Answer(c, a)
  BY <1>1, <1>4 DEF AnswerBound
<1> QED
  BY <1>3, <1>4, <1>5, AnswerKeeps DEF SameIntent, Refused

\* The call moves on within createPayment.
LEMMA AdvanceKeeps ==
    ASSUME SpendInv, NEW c \in Clients,
           calls[c].pc \in {"refund", "lookup", "route"},
           NEW pc \in {"lookup", "route", "policy"}, calls' = [calls EXCEPT ![c].pc = pc],
           UNCHANGED <<now, active, policies, payments, units, lock, decider>>
    PROVE  SpendInv'
<1>1. PICK s : s = calls[c]
  OBVIOUS
<1>2. PICK r : r = [s EXCEPT !.pc = pc]
  OBVIOUS
<1>3. calls' = [calls EXCEPT ![c] = r]
  BY <1>1, <1>2
<1>4. s \in Call /\ CallOK(c, s) /\ s.key \in Keys /\ DOMAIN s.read = {} /\ s.answer = Refused
  BY <1>1 DEF SpendInv, CallOK, Inside
<1>5. r \in Call /\ r.pc = pc /\ r.key = s.key /\ r.answer = Refused /\ r.read = s.read
  BY <1>1, <1>2, <1>4 DEF Call
<1>6. CallOK(c, r)
  BY <1>1, <1>4, <1>5, EarlyCall DEF Inside
<1> QED
  BY <1>3, <1>5, <1>6, CallMoves

LEMMA StartCallKeeps ==
    ASSUME SpendInv, NEW c \in Clients, NEW key \in Keys, NEW intent \in Intents,
           StartCall(c, key, intent)
    PROVE  SpendInv'
<1>1. PICK r : r = [Idle EXCEPT !.key = key, !.intent = intent,
                      !.pc = IF intent.kind = "REFUND" THEN "refund" ELSE "lookup"]
  OBVIOUS
<1>2. calls' = [calls EXCEPT ![c] = r] /\ calls[c].pc \notin Inside
  BY <1>1 DEF StartCall, Inside
<1>3. intent \in [kind: {"PAY", "REFUND"}, amount: Nat]
  BY SpendControlAssumption
<1>4. r \in Call /\ r.pc \in {"refund", "lookup"} /\ r.key = key /\ DOMAIN r.read = {}
      /\ r.answer = Refused
  BY <1>1, <1>3, IdleIsCall DEF Call, Idle, Refused
<1>5. CallOK(c, r)
  BY <1>2, <1>4, EarlyCall DEF Inside
<1> QED
  BY <1>2, <1>4, <1>5, CallMoves DEF StartCall

LEMMA CheckRefundableKeeps ==
    ASSUME SpendInv, NEW c \in Clients, CheckRefundable(c)
    PROVE  SpendInv'
<1>1. calls[c].pc = "refund" /\ calls[c].pc \notin Inside
      /\ UNCHANGED <<now, active, policies, payments, units, lock, decider>>
  BY DEF CheckRefundable, Inside
<1>2. CASE Fail(c)
  BY <1>1, <1>2, FailKeeps
<1>3. CASE calls' = [calls EXCEPT ![c].pc = "lookup"]
  BY <1>1, <1>3, AdvanceKeeps
<1> QED
  BY <1>2, <1>3 DEF CheckRefundable

LEMMA LookupKeeps ==
    ASSUME SpendInv, NEW c \in Clients, LookupIdempotency(c)
    PROVE  SpendInv'
<1>1. calls[c].pc = "lookup" /\ calls[c].pc \notin Inside
      /\ UNCHANGED <<now, active, policies, payments, units, lock, decider>>
  BY DEF LookupIdempotency, Inside
<1>2. CASE Bound(calls[c].key) # {} /\ AnswerBound(c)
  BY <1>1, <1>2, BoundKeeps
<1>3. CASE calls' = [calls EXCEPT ![c].pc = "route"]
  BY <1>1, <1>3, AdvanceKeeps
<1> QED
  BY <1>2, <1>3 DEF LookupIdempotency

LEMMA SelectRouteKeeps ==
    ASSUME SpendInv, NEW c \in Clients, SelectRoute(c)
    PROVE  SpendInv'
<1>1. calls[c].pc = "route" /\ calls[c].pc \notin Inside
      /\ UNCHANGED <<now, active, policies, payments, units, lock, decider>>
  BY DEF SelectRoute, Inside
<1>2. CASE Fail(c)
  BY <1>1, <1>2, FailKeeps
<1>3. CASE calls' = [calls EXCEPT ![c].pc = "policy"]
  BY <1>1, <1>3, AdvanceKeeps
<1> QED
  BY <1>2, <1>3 DEF SelectRoute

\* The active policy is the one with that status.
LEMMA ActiveIs ==
    ASSUME Tables
    PROVE  /\ ActivePolicy # 0 => /\ ActivePolicy \in DOMAIN policies
                                  /\ policies[ActivePolicy].status = "ACTIVE"
           /\ \A v \in DOMAIN policies : policies[v].status = "ACTIVE" => ActivePolicy = v
<1> DEFINE ids == {i \in DOMAIN policies : policies[i].status = "ACTIVE"}
<1>1. DOMAIN policies \subseteq Nat \ {0}
  BY SMTT(30) DEF Tables
<1>2. \A i, j \in ids : i = j /\ j <= i
  BY SMTT(30), <1>1 DEF Tables
<1>3. ActivePolicy = IF ids = {} THEN 0 ELSE CHOOSE i \in ids : \A j \in ids : j <= i
  BY DEF ActivePolicy
<1>4. ids # {} => ActivePolicy \in ids
  <2> HIDE DEF ids
  <2> QED
    BY <1>2, <1>3
<1> QED
  BY <1>2, <1>3, <1>4

LEMMA ReadPolicyKeeps ==
    ASSUME SpendInv, NEW c \in Clients, ReadPolicy(c)
    PROVE  SpendInv'
<1>1. calls[c].pc = "policy" /\ calls[c].pc \notin Inside
      /\ UNCHANGED <<now, active, policies, payments, units, lock, decider>>
  BY DEF ReadPolicy, Inside
<1>2. CASE Fail(c)
  BY <1>1, <1>2, FailKeeps
<1>3. CASE ActivePolicy # 0
           /\ calls' = [calls EXCEPT ![c].pc = "balance", ![c].version = ActivePolicy]
  <2>1. PICK s : s = calls[c]
    OBVIOUS
  <2>2. PICK v : v = ActivePolicy
    OBVIOUS
  <2>3. PICK r : r = [s EXCEPT !.pc = "balance", !.version = v]
    OBVIOUS
  <2>4. calls' = [calls EXCEPT ![c] = r]
    BY <1>3, <2>1, <2>2, <2>3 DEF SpendInv
  <2>5. v \in DOMAIN policies /\ v \in Nat
    BY SMTT(30), <1>3, <2>2, ActiveIs DEF SpendInv, Tables
  <2>6. s \in Call /\ s.key \in Keys /\ DOMAIN s.read = {} /\ s.answer = Refused
    BY <1>1, <2>1 DEF SpendInv, CallOK
  <2>7. r \in Call /\ r.pc = "balance" /\ r.key = s.key /\ r.read = s.read
        /\ r.answer = Refused /\ r.version = v
    BY <2>3, <2>5, <2>6 DEF Call
  <2>8. CallOK(c, r)
    BY <1>1, <2>5, <2>6, <2>7, EarlyCall DEF Inside
  <2> QED
    BY <1>1, <2>4, <2>7, <2>8, CallMoves
<1> QED
  BY <1>2, <1>3 DEF ReadPolicy

LEMMA LogicalInt ==
    ASSUME NEW u \in Int
    PROVE  Logical(u) \in Int /\ \A a \in Nat : Cost(a) \in Int
<1>1. Numerator \in Nat \ {0} /\ Denominator \in Nat \ {0}
  BY SpendControlAssumption
<1>2. u * Denominator \in Int /\ \A a \in Nat : a * Numerator \in Int
  BY SMTT(30), <1>1
<1>3. \A x \in Int, y \in Nat \ {0} : x \div y \in Int
  BY SMTT(30)
<1> QED
  BY <1>1, <1>2, <1>3 DEF Logical, Cost

LEMMA ReadBalanceKeeps ==
    ASSUME SpendInv, NEW c \in Clients, ReadBalance(c)
    PROVE  SpendInv'
<1>1. calls[c].pc = "balance" /\ calls[c].pc \notin Inside
      /\ UNCHANGED <<now, active, policies, payments, units, lock, decider>>
  BY DEF ReadBalance, Inside
<1>2. CASE Fail(c)
  BY <1>1, <1>2, FailKeeps
<1>3. CASE calls' = [calls EXCEPT ![c].pc = "create", ![c].due = now + ApprovalTtl,
                       ![c].settled = IF Representable(units) THEN Logical(units) ELSE 0]
  <2>1. PICK s : s = calls[c]
    OBVIOUS
  <2>2. PICK e : e = now + ApprovalTtl
    OBVIOUS
  <2>3. PICK f : f = IF Representable(units) THEN Logical(units) ELSE 0
    OBVIOUS
  <2>4. e \in Nat /\ f \in Int
    <3>1. now \in Nat /\ units \in Int
      BY DEF SpendInv, Tables
    <3>2. ApprovalTtl \in Nat
      BY SpendControlAssumption
    <3>3. Logical(units) \in Int
      BY <3>1, LogicalInt
    <3> QED
      BY SMTT(30), <2>2, <2>3, <3>1, <3>2, <3>3
  <2>5. PICK r : r = [s EXCEPT !.pc = "create", !.due = e, !.settled = f]
    OBVIOUS
  <2>6. calls' = [calls EXCEPT ![c] = r]
    BY <1>3, <2>1, <2>2, <2>3, <2>5 DEF SpendInv
  <2>7. s \in Call /\ s.key \in Keys /\ DOMAIN s.read = {} /\ s.answer = Refused
        /\ s.version \in DOMAIN policies
    BY <1>1, <2>1 DEF SpendInv, CallOK
  <2>8. r \in Call /\ r.pc = "create" /\ r.key = s.key /\ r.read = s.read
        /\ r.answer = Refused /\ r.version = s.version
    BY <2>4, <2>5, <2>7 DEF Call
  <2>9. CallOK(c, r)
    BY <1>1, <2>7, <2>8, EarlyCall DEF Inside
  <2> QED
    BY <1>1, <2>6, <2>8, <2>9, CallMoves
<1> QED
  BY <1>2, <1>3 DEF ReadBalance

-----------------------------------------------------------------------------
(* createV2Payment. *)

LEMMA BeginCreateKeeps ==
    ASSUME SpendInv, NEW c \in Clients, BeginCreate(c)
    PROVE  SpendInv'
<1>1. calls[c].pc = "create" /\ calls[c].pc \notin Inside /\ lock = NoLock
      /\ UNCHANGED <<now, active, policies, payments, units, decider>>
  BY DEF BeginCreate, Inside, AccountRowFree
<1>2. CASE Fail(c) /\ UNCHANGED lock
  BY <1>1, <1>2, FailKeeps
<1>3. CASE Bound(calls[c].key) # {} /\ AnswerBound(c) /\ UNCHANGED lock
  BY <1>1, <1>3, BoundKeeps
<1>4. CASE /\ active /\ Bound(calls[c].key) = {}
           /\ policies[calls[c].version].status = "ACTIVE"
           /\ calls' = [calls EXCEPT ![c].pc = "read", ![c].at = now]
           /\ lock' = c
  <2>1. PICK s : s = calls[c]
    OBVIOUS
  <2>2. PICK r : r = [s EXCEPT !.pc = "read", !.at = now]
    OBVIOUS
  <2>3. calls' = [calls EXCEPT ![c] = r]
    BY <1>4, <2>1, <2>2 DEF SpendInv
  <2>4. s \in Call /\ s.key \in Keys /\ DOMAIN s.read = {} /\ s.answer = Refused
        /\ s.version \in DOMAIN policies
    BY <1>1, <2>1 DEF SpendInv, CallOK
  <2>5. now \in Nat
    BY DEF SpendInv, Tables
  <2>6. r \in Call /\ r.pc = "read" /\ r.key = s.key /\ r.read = s.read
        /\ r.answer = Refused /\ r.version = s.version
    BY <2>2, <2>4, <2>5 DEF Call, Inside
  <2>7. calls' \in [Clients -> Call]
    BY <2>3, <2>6 DEF SpendInv
  <2>8. \A i \in DOMAIN payments : payments[i].key # s.key
    BY <1>4, <2>1 DEF Bound
  <2>9. Judging(r)'
    BY <1>1, <1>4, <2>1, <2>4, <2>6, <2>8 DEF Judging
  <2>10. CallOK(c, r)'
    BY <1>1, <1>4, <2>4, <2>6, <2>9 DEF CallOK, Inside
  <2>11. ASSUME NEW d \in Clients PROVE CallOK(d, calls[d])'
    <3>1. CASE d = c
      <4>1. calls'[c] = r
        BY <2>3 DEF SpendInv
      <4> QED
        BY <2>10, <3>1, <4>1, CallReached
    <3>2. CASE d # c
      <4>1. PICK q : q = calls[d]
        OBVIOUS
      <4>2. calls'[d] = q /\ CallOK(d, q) /\ q.pc \notin Inside /\ lock' # d
        BY <1>1, <1>4, <2>3, <3>2, <4>1, AllOutside DEF SpendInv
      <4>3. CallOK(d, q)'
        BY <1>1, <4>2, OutsideKept
      <4> QED
        BY <4>2, <4>3, CallReached
    <3> QED
      BY <3>1, <3>2
  <2>12. Tables'
    BY <1>1, SameRows DEF SpendInv
  <2> QED
    BY <2>7, <2>11, <2>12 DEF SpendInv
<1> QED
  BY <1>2, <1>3, <1>4 DEF BeginCreate, SettlementContextIsCurrent

LEMMA CountCovers ==
    ASSUME payments \in Seq(Payment), NEW limits, NEW t
    PROVE  SpentCount(limits, t) \in Nat /\ SpentCount(limits, t) <= Aggregate("count", limits, t)
<1> DEFINE n == Len(payments)
<1> DEFINE In(p) == Spent(p) /\ InWindow(p, limits, t)
<1> DEFINE Out(p) == p.status \notin NotSpent /\ InWindow(p, limits, t)
<1> DEFINE a == [i \in 1..n |-> IF In(payments[i]) THEN 1 ELSE 0]
<1> DEFINE b == [i \in 1..n |-> IF Out(payments[i]) THEN 1 ELSE 0]
<1>1. n \in Nat /\ DOMAIN payments = 1..n
  BY SMTT(30)
<1>2. \A i \in 1..n : In(payments[i]) => Out(payments[i])
  BY DEF Spent
<1>3. SpentCount(limits, t) = Total(a)
  BY <1>1 DEF SpentCount, CountOf
<1>4. Aggregate("count", limits, t) = Total(b)
  BY <1>1 DEF Aggregate, CountOf
<1> HIDE DEF In, Out
<1>5. a \in [1..n -> Nat] /\ b \in [1..n -> Nat] /\ \A i \in 1..n : a[i] <= b[i]
  BY SMTT(30), <1>2
<1> HIDE DEF a, b, n
<1> QED
  BY <1>1, <1>3, <1>4, <1>5, TotalMonotone

LEMMA TotalNat ==
    ASSUME NEW n \in Nat, NEW a \in [1..n -> Nat]
    PROVE  Total(a) \in Nat
BY SMTT(30), TotalMonotone

LEMMA AggregateNat ==
    ASSUME payments \in Seq(Payment), NEW limits, NEW t, NEW a \in Names
    PROVE  Aggregate(a, limits, t) \in Nat
<1> DEFINE n == Len(payments)
<1>1. n \in Nat /\ DOMAIN payments = 1..n
      /\ \A i \in 1..n : payments[i].intent.amount \in Nat
  BY SMTT(30), Amounts
<1>2. CASE a = "confirmed"
  <2> DEFINE In(p) == p.status = "CONFIRMED" /\ InWindow(p, limits, t)
  <2> DEFINE f == [i \in 1..n |-> IF In(payments[i]) THEN payments[i].intent.amount ELSE 0]
  <2>1. Aggregate(a, limits, t) = Total(f)
    BY <1>1, <1>2 DEF Aggregate, AmountOf
  <2>2. f \in [1..n -> Nat]
    <3> HIDE DEF In
    <3> QED
      BY <1>1
  <2> HIDE DEF f, n
  <2> QED
    BY <1>1, <2>1, <2>2, TotalNat
<1>3. CASE a = "held"
  <2> DEFINE f == [i \in 1..n |-> IF payments[i].reservation = "HELD"
                                  THEN payments[i].intent.amount ELSE 0]
  <2>1. Aggregate(a, limits, t) = Total(f)
    BY <1>1, <1>3 DEF Aggregate, AmountOf, Held
  <2>2. f \in [1..n -> Nat]
    BY <1>1
  <2> HIDE DEF f, n
  <2> QED
    BY <1>1, <2>1, <2>2, TotalNat
<1>4. CASE a = "unresolved"
  <2> DEFINE In(p) == p.status \in {"REVIEW_REQUIRED", "CLOSED_UNRESOLVED"}
                        /\ InWindow(p, limits, t)
  <2> DEFINE f == [i \in 1..n |-> IF In(payments[i]) THEN payments[i].intent.amount ELSE 0]
  <2>1. Aggregate(a, limits, t) = Total(f)
    BY <1>1, <1>4 DEF Aggregate, AmountOf
  <2>2. f \in [1..n -> Nat]
    <3> HIDE DEF In
    <3> QED
      BY <1>1
  <2> HIDE DEF f, n
  <2> QED
    BY <1>1, <2>1, <2>2, TotalNat
<1>5. CASE a = "count"
  <2> DEFINE In(p) == p.status \notin NotSpent /\ InWindow(p, limits, t)
  <2> DEFINE f == [i \in 1..n |-> IF In(payments[i]) THEN 1 ELSE 0]
  <2>1. Aggregate(a, limits, t) = Total(f)
    BY <1>1, <1>5 DEF Aggregate, CountOf
  <2>2. f \in [1..n -> Nat]
    <3> HIDE DEF In
    <3> QED
      BY <1>1
  <2> HIDE DEF f, n
  <2> QED
    BY <1>1, <2>1, <2>2, TotalNat
<1> QED
  BY <1>2, <1>3, <1>4, <1>5 DEF Names

\* Which aggregate comes after the ones read so far.
LEMMA NextRead ==
    ASSUME NEW D \in {{}, {"confirmed"}, {"confirmed", "held"},
                      {"confirmed", "held", "unresolved"}}
    PROVE  LET n == Cardinality(D) + 1
               a == Aggregates[n]
           IN  /\ a \in Names /\ D \subseteq Names
               /\ n # Len(Aggregates) =>
                    D \cup {a} \in {{"confirmed"}, {"confirmed", "held"},
                                    {"confirmed", "held", "unresolved"}}
               /\ n = Len(Aggregates) => D \cup {a} = Names
<1>1. Cardinality({}) = 0 /\ IsFiniteSet({})
  BY FS_EmptySet
<1>2. Cardinality({"confirmed"}) = 1 /\ IsFiniteSet({"confirmed"})
  BY FS_Singleton
<1>3. Cardinality({"confirmed", "held"}) = 2 /\ IsFiniteSet({"confirmed", "held"})
  <2>1. {"confirmed", "held"} = {"confirmed"} \cup {"held"} /\ "held" \notin {"confirmed"}
    OBVIOUS
  <2> QED
    BY SMTT(30), <1>2, <2>1, FS_AddElement
<1>4. Cardinality({"confirmed", "held", "unresolved"}) = 3
  <2>1. /\ {"confirmed", "held", "unresolved"} = {"confirmed", "held"} \cup {"unresolved"}
        /\ "unresolved" \notin {"confirmed", "held"}
    OBVIOUS
  <2> QED
    BY SMTT(30), <1>3, <2>1, FS_AddElement
<1>5. CASE D = {}
  BY SMTT(30), <1>1, <1>5 DEF Aggregates, Names
<1>6. CASE D = {"confirmed"}
  BY SMTT(30), <1>2, <1>6 DEF Aggregates, Names
<1>7. CASE D = {"confirmed", "held"}
  BY SMTT(30), <1>3, <1>7 DEF Aggregates, Names
<1>8. CASE D = {"confirmed", "held", "unresolved"}
  BY SMTT(30), <1>4, <1>8 DEF Aggregates, Names
<1> QED
  BY <1>5, <1>6, <1>7, <1>8

LEMMA ReadAggregateKeeps ==
    ASSUME SpendInv, NEW c \in Clients, ReadAggregate(c)
    PROVE  SpendInv'
<1>1. PICK s : s = calls[c]
  OBVIOUS
<1>2. s \in Call /\ CallOK(c, s) /\ s.pc = "read" /\ Judging(s)
      /\ UNCHANGED <<now, active, policies, payments, units, lock, decider>>
  BY <1>1 DEF SpendInv, CallOK, Inside, ReadAggregate
<1>3. PICK D : D = DOMAIN s.read
  OBVIOUS
<1>4. PICK n, a : n = Cardinality(D) + 1 /\ a = Aggregates[n]
  OBVIOUS
<1>5. PICK pc : pc = IF n = Len(Aggregates) THEN "commit" ELSE "read"
  OBVIOUS
<1>6. PICK x : x = Aggregate(a, policies[s.version].limits, s.at)
  OBVIOUS
<1>7. PICK f : f = [b \in D \cup {a} |-> IF b = a THEN x ELSE s.read[b]]
  OBVIOUS
<1>8. PICK r : r = [s EXCEPT !.read = f, !.pc = pc]
  OBVIOUS
<1>9. calls' = [calls EXCEPT ![c] = r]
  BY <1>1, <1>3, <1>4, <1>5, <1>6, <1>7, <1>8 DEF ReadAggregate, SpendInv
<1>10. D \in {{}, {"confirmed"}, {"confirmed", "held"}, {"confirmed", "held", "unresolved"}}
  BY <1>2, <1>3 DEF Judging
<1>11. /\ a \in Names /\ D \subseteq Names
       /\ pc = "read" => D \cup {a} \in {{"confirmed"}, {"confirmed", "held"},
                                         {"confirmed", "held", "unresolved"}}
       /\ pc = "commit" => D \cup {a} = Names
       /\ pc \in Inside
  BY <1>4, <1>5, <1>10, NextRead DEF Inside
<1>12. payments \in Seq(Payment)
  BY DEF SpendInv, Tables
<1>13. x \in Nat
  BY <1>6, <1>11, <1>12, AggregateNat
<1>14. \A b \in D : s.read[b] \in Nat
  <2>1. s.read \in Reads
    BY <1>2 DEF Call
  <2>2. PICK A \in SUBSET Names : s.read \in [A -> Nat]
    BY <2>1 DEF Reads
  <2> QED
    BY <1>3, <2>2
<1>15. f \in [D \cup {a} -> Nat] /\ D \cup {a} \in SUBSET Names
  BY <1>7, <1>11, <1>13, <1>14
<1>16. f \in Reads
  BY <1>15, ReadsAre
<1>17. r \in Call /\ r.pc = pc /\ r.read = f /\ r.key = s.key /\ r.answer = s.answer
       /\ r.intent = s.intent /\ r.version = s.version /\ r.at = s.at
  BY <1>2, <1>8, <1>11, <1>16 DEF Call, Inside
<1>18. "held" \in DOMAIN f => Held <= f["held"]
  <2>1. CASE a = "held"
    <3>1. x = Held
      BY <1>6, <2>1 DEF Aggregate
    <3> QED
      BY SMTT(30), <1>7, <1>13, <2>1, <3>1
  <2>2. CASE a # "held"
    BY <1>2, <1>3, <1>7, <2>2 DEF Judging
  <2> QED
    BY <2>1, <2>2
<1>19. "count" \in DOMAIN f =>
         SpentCount(policies[s.version].limits, s.at) <= f["count"]
  <2>1. CASE a = "count"
    <3>1. PICK l, t : l = policies[s.version].limits /\ t = s.at
      OBVIOUS
    <3>2. SpentCount(l, t) <= Aggregate("count", l, t)
      BY <1>12, CountCovers
    <3>3. SpentCount(l, t) <= f["count"]
      BY <1>6, <1>7, <2>1, <3>1, <3>2
    <3> QED
      BY <3>1, <3>3
  <2>2. CASE a # "count"
    BY <1>2, <1>3, <1>7, <2>2 DEF Judging
  <2> QED
    BY <2>1, <2>2
<1>20. DOMAIN f = D \cup {a}
  BY <1>7
<1>21. Judging(r)
  BY <1>2, <1>11, <1>17, <1>18, <1>19, <1>20 DEF Judging
<1>22. CallOK(c, r)
  BY <1>2, <1>11, <1>17, <1>21 DEF CallOK, Inside
<1> QED
  BY <1>2, <1>9, <1>17, <1>22, CallMoves

LEMMA Decisions ==
    ASSUME NEW limits, NEW amount, NEW destination, NEW read
    PROVE  evaluateSpendPolicy(limits, amount, destination, read)
             \in {"DENY", "ALLOW", "REQUIRE_APPROVAL"}
BY DEF evaluateSpendPolicy

\* The payment that a transaction writes is sound and has a key of its own.
LEMMA NewPaymentOK ==
    ASSUME SpendInv, NEW c \in Clients, calls[c].pc = "commit",
           NEW decision \in {"DENY", "ALLOW", "REQUIRE_APPROVAL"}
    PROVE  /\ NewPayment(c, decision) \in Payment
           /\ RowOK(NewPayment(c, decision))
           /\ NewPayment(c, decision).key = calls[c].key
           /\ NewPayment(c, decision).intent = calls[c].intent
<1>1. PICK s : s = calls[c]
  OBVIOUS
<1>2. s \in Call /\ s.key \in Keys
  BY <1>1 DEF SpendInv, CallOK
<1>3. s.intent \in [kind: {"PAY", "REFUND"}, amount: Nat] /\ s.at \in Nat /\ s.due \in Nat
  BY <1>2 DEF Call
<1>4. PICK p : p = NewPayment(c, decision)
  OBVIOUS
<1>5. CASE decision = "DENY"
  <2>1. p = [key |-> s.key, intent |-> s.intent, created |-> s.at, decision |-> "DENY",
             landed |-> FALSE, noEffect |-> {}, status |-> "REJECTED_BY_POLICY",
             reservation |-> "NONE", approval |-> "NONE", expires |-> 0]
    BY <1>1, <1>4, <1>5 DEF NewPayment
  <2>2. p \in Payment
    BY <1>2, <1>3, <2>1 DEF Payment, UnderWay, NotSpent, WithoutEffect
  <2>3. RowOK(p) /\ p.key = s.key /\ p.intent = s.intent
    BY <2>1 DEF RowOK, Decided, Agreed, NotSpent, WithoutEffect
  <2> QED
    BY <1>1, <1>4, <2>2, <2>3
<1>6. CASE decision = "ALLOW"
  <2>1. p = [key |-> s.key, intent |-> s.intent, created |-> s.at, decision |-> "ALLOW",
             landed |-> FALSE, noEffect |-> {}, status |-> "ROUTING",
             reservation |-> "HELD", approval |-> "NONE", expires |-> 0]
    BY <1>1, <1>4, <1>6 DEF NewPayment
  <2>2. p \in Payment
    BY <1>2, <1>3, <2>1 DEF Payment, UnderWay, NotSpent, WithoutEffect
  <2>3. RowOK(p) /\ p.key = s.key /\ p.intent = s.intent
    BY <2>1 DEF RowOK, Decided, Agreed, NotSpent, WithoutEffect
  <2> QED
    BY <1>1, <1>4, <2>2, <2>3
<1>7. CASE decision = "REQUIRE_APPROVAL"
  <2>1. p = [key |-> s.key, intent |-> s.intent, created |-> s.at,
             decision |-> "REQUIRE_APPROVAL", landed |-> FALSE, noEffect |-> {},
             status |-> "AWAITING_APPROVAL", reservation |-> "NONE",
             approval |-> "PENDING", expires |-> s.due]
    BY <1>1, <1>4, <1>7 DEF NewPayment
  <2>2. p \in Payment
    BY <1>2, <1>3, <2>1 DEF Payment, UnderWay, NotSpent, WithoutEffect
  <2>3. RowOK(p) /\ p.key = s.key /\ p.intent = s.intent
    BY <2>1 DEF RowOK, Decided, Agreed, NotSpent, WithoutEffect
  <2> QED
    BY <1>1, <1>4, <2>2, <2>3
<1> QED
  BY <1>5, <1>6, <1>7

\* The end of a transaction: the row lock is released and the call answered.
LEMMA ReleaseStep ==
    ASSUME SpendInv, NEW c \in Clients, calls[c].pc = "commit", lock' = NoLock,
           NEW a \in Nat, Answer(c, a), Tables', UNCHANGED policies,
           \A i \in DOMAIN payments : /\ i \in DOMAIN payments'
                                      /\ payments'[i].key = payments[i].key
                                      /\ payments'[i].intent = payments[i].intent,
           a # Refused => /\ a \in DOMAIN payments'
                          /\ payments'[a].key = calls[c].key
                          /\ payments'[a].intent = calls[c].intent
    PROVE  SpendInv'
<1>1. PICK s : s = calls[c]
  OBVIOUS
<1>2. PICK r : r = [Idle EXCEPT !.pc = "answered", !.key = s.key, !.intent = s.intent,
                                !.answer = a]
  OBVIOUS
<1>3. calls' = [calls EXCEPT ![c] = r]
  BY <1>1, <1>2 DEF Answer
<1>4. s \in Call /\ s.key \in Keys /\ lock = c
  BY <1>1 DEF SpendInv, CallOK, Inside
<1>5. r \in Call /\ r.pc = "answered" /\ r.key = s.key /\ r.intent = s.intent /\ r.answer = a
      /\ DOMAIN r.read = {}
  BY <1>2, <1>4, IdleIsCall DEF Call
<1>6. \A d \in Clients : lock' # d
  BY UnderwayAssumption
<1>7. CallOK(c, r)'
  BY <1>1, <1>4, <1>5, <1>6 DEF CallOK, Inside
<1>8. ASSUME NEW d \in Clients PROVE CallOK(d, calls[d])'
  <2>1. CASE d = c
    <3>1. calls'[c] = r
      BY <1>3 DEF SpendInv
    <3> QED
      BY <1>7, <2>1, <3>1, CallReached
  <2>2. CASE d # c
    <3>1. PICK q : q = calls[d]
      OBVIOUS
    <3>2. calls'[d] = q /\ CallOK(d, q) /\ q.pc \notin Inside /\ lock' # d
      BY <1>3, <1>4, <1>6, <2>2, <3>1 DEF SpendInv, CallOK
    <3>3. CallOK(d, q)'
      BY <3>2, OutsideKept
    <3> QED
      BY <3>2, <3>3, CallReached
  <2> QED
    BY <2>1, <2>2
<1>9. calls' \in [Clients -> Call]
  BY <1>3, <1>5 DEF SpendInv
<1> QED
  BY <1>8, <1>9 DEF SpendInv

LEMMA CommitCreateKeeps ==
    ASSUME SpendInv, NEW c \in Clients, CommitCreate(c)
    PROVE  SpendInv'
<1>1. calls[c].pc = "commit" /\ lock' = NoLock /\ UNCHANGED <<now, policies, units, decider>>
  BY DEF CommitCreate
<1>2. payments \in Seq(Payment) /\ DOMAIN payments = 1..Len(payments)
  BY SMTT(30) DEF SpendInv, Tables
<1>3. CASE Fail(c) /\ UNCHANGED payments
  <2>1. Tables'
    BY <1>1, <1>3, SameRows DEF SpendInv
  <2> QED
    BY <1>1, <1>3, <2>1, ReleaseStep DEF Fail, Refused
<1>4. ASSUME NEW decision \in {"DENY", "ALLOW", "REQUIRE_APPROVAL"},
             RefundFits(calls[c].intent),
             payments' = Append(payments, NewPayment(c, decision)),
             Answer(c, Len(payments) + 1)
      PROVE  SpendInv'
  <2>1. PICK p : p = NewPayment(c, decision)
    OBVIOUS
  <2>2. p \in Payment /\ RowOK(p) /\ p.key = calls[c].key /\ p.intent = calls[c].intent
    BY <1>1, <2>1, NewPaymentOK
  <2>3. PICK n : n = Len(payments) /\ n \in Nat
    BY SMTT(30), <1>2
  <2>4. /\ payments' \in Seq(Payment) /\ DOMAIN payments' = 1..(n + 1)
        /\ payments'[n + 1] = p
        /\ \A i \in 1..n : payments'[i] = payments[i] /\ i \in 1..(n + 1)
    BY SMTT(30), <1>2, <1>4, <2>1, <2>2, <2>3
  <2>5. \A i \in DOMAIN payments : payments[i].key # p.key
    BY <1>1, <2>2 DEF SpendInv, CallOK, Judging, Inside
  <2>6. \A i, j \in DOMAIN payments' : payments'[i].key = payments'[j].key => i = j
    <3>1. \A i, j \in 1..n : payments[i].key = payments[j].key => i = j
      BY <1>2, <2>3 DEF SpendInv, Tables
    <3>2. \A i \in 1..n : payments[i].key # p.key
      BY <1>2, <2>3, <2>5
    <3>3. \A i \in 1..(n + 1) : i \in 1..n \/ i = n + 1
      BY SMTT(30), <2>3
    <3> QED
      BY <2>4, <3>1, <3>2, <3>3
  <2>7. \A i \in DOMAIN payments' : RowOK(payments'[i])
    <3>1. \A i \in 1..n : RowOK(payments[i])
      BY <1>2, <2>3 DEF SpendInv, Tables
    <3>2. \A i \in 1..(n + 1) : i \in 1..n \/ i = n + 1
      BY SMTT(30), <2>3
    <3> QED
      BY <2>2, <2>4, <3>1, <3>2
  <2>8. Outstanding(payments') <= OriginalAmount
    <3>1. /\ Outstanding(payments) \in Nat
          /\ Outstanding(payments') = Outstanding(payments) + Share(p)
      BY <1>2, <1>4, <2>1, <2>2, RefundsGrow
    <3>2. Outstanding(payments) <= OriginalAmount /\ OriginalAmount \in Nat
      BY SpendControlAssumption DEF SpendInv, Tables
    <3>3. p.intent.amount \in Nat
      <4>1. p.intent \in [kind: {"PAY", "REFUND"}, amount: Nat]
        BY <2>2 DEF Payment
      <4> QED
        BY <4>1
    <3>4. p.intent.kind = "REFUND" => p.intent.amount + RefundsOf(payments) <= OriginalAmount
      BY <1>4, <2>2 DEF RefundFits, Refunded
    <3>5. RefundsOf(payments) \in Nat /\ Outstanding(payments) <= RefundsOf(payments)
      BY <1>2, RefundsCover DEF SpendInv, Tables
    <3>6. Share(p) = 0 \/ (p.intent.kind = "REFUND" /\ Share(p) = p.intent.amount)
      BY DEF Share
    <3> QED
      BY SMTT(30), <3>1, <3>2, <3>3, <3>4, <3>5, <3>6
  <2>9. decider'.pc = "approve" => decider'.payment \in DOMAIN payments'
    BY <1>1, <1>2, <2>3, <2>4 DEF SpendInv, Tables
  <2>10. Tables'
    BY <1>1, <2>4, <2>6, <2>7, <2>8, <2>9 DEF SpendInv, Tables
  <2> QED
    BY SMTT(30), <1>1, <1>2, <1>4, <2>2, <2>3, <2>4, <2>10, ReleaseStep
<1> QED
  BY <1>3, <1>4, Decisions DEF CommitCreate

-----------------------------------------------------------------------------
(* One payment row changes. *)

LEMMA RowChange ==
    ASSUME SpendInv, NEW i \in DOMAIN payments, NEW q \in Payment, RowOK(q),
           FreesShare(payments[i], q), payments' = [payments EXCEPT ![i] = q],
           now' = now, units' \in Int, policies' = policies,
           decider'.pc = "approve" => decider'.payment \in DOMAIN payments
    PROVE  /\ Tables' /\ payments \in Seq(Payment) /\ payments' \in Seq(Payment)
           /\ Len(payments') = Len(payments) /\ DOMAIN payments' = DOMAIN payments
           /\ payments'[i] = q /\ \A j \in DOMAIN payments : j # i => payments'[j] = payments[j]
<1>1. payments \in Seq(Payment) /\ DOMAIN payments = 1..Len(payments)
  BY SMTT(30) DEF SpendInv, Tables
<1>2. /\ payments' \in Seq(Payment) /\ Len(payments') = Len(payments)
      /\ DOMAIN payments' = DOMAIN payments /\ payments'[i] = q
      /\ \A j \in DOMAIN payments : j # i => payments'[j] = payments[j]
  BY SMTT(30), <1>1
<1>3. \A j \in DOMAIN payments : FreesShare(payments[j], payments'[j])
  BY <1>2 DEF FreesShare
<1>4. Outstanding(payments') <= OriginalAmount
  <2>1. PICK ps, qs : ps = payments /\ qs = payments'
    OBVIOUS
  <2>2. Outstanding(ps) \in Nat /\ Outstanding(qs) \in Nat /\ Outstanding(qs) <= Outstanding(ps)
    BY <1>1, <1>2, <1>3, <2>1, RefundsShrink
  <2>3. Outstanding(ps) <= OriginalAmount /\ OriginalAmount \in Nat
    BY <2>1, SpendControlAssumption DEF SpendInv, Tables
  <2> QED
    BY SMTT(30), <2>1, <2>2, <2>3
<1>5. \A j, k \in DOMAIN payments' : payments'[j].key = payments'[k].key => j = k
  BY SMTT(30), <1>2, <1>3 DEF SpendInv, Tables, FreesShare
<1>6. \A j \in DOMAIN payments' : RowOK(payments'[j])
  BY <1>2 DEF SpendInv, Tables
<1>7. Tables'
  BY <1>2, <1>4, <1>5, <1>6 DEF SpendInv, Tables
<1> QED
  BY <1>1, <1>2, <1>7

\* A settling step: only execution changes the row.
LEMMA SettleKeeps ==
    ASSUME SpendInv, NEW i \in DOMAIN payments, NEW q \in Payment, RowOK(q),
           FreesShare(payments[i], q), Follows(payments[i], q),
           payments' = [payments EXCEPT ![i] = q], units' \in Int,
           UNCHANGED <<now, active, policies, lock, calls, decider>>
    PROVE  SpendInv'
<1>1. decider'.pc = "approve" => decider'.payment \in DOMAIN payments
  BY DEF SpendInv, Tables
<1>2. DOMAIN payments = 1..Len(payments)
  BY SMTT(30) DEF SpendInv, Tables
<1>3. /\ Tables' /\ Len(payments') = Len(payments)
       /\ payments'[i] = q /\ \A j \in DOMAIN payments : j # i => payments'[j] = payments[j]
  BY <1>1, RowChange
<1>4. \A j \in 1..Len(payments) : Follows(payments[j], payments'[j])
  BY <1>2, <1>3 DEF Follows
<1> QED
  BY <1>3, <1>4, SettlingStep

\* Row i with some of its fields rewritten.
LEMMA RowFields ==
    ASSUME SpendInv, NEW i \in DOMAIN payments
    PROVE  payments[i] \in Payment /\ RowOK(payments[i])
BY SMTT(30) DEF SpendInv, Tables

\* A payment that was agreed to is decided for good: what its execution records
\* takes no share of a refund back and spends nothing that had not been spent.
LEMMA AffectedRow ==
    ASSUME NEW p \in Payment, RowOK(p), Agreed(p), NEW q,
           q.key = p.key, q.intent = p.intent, q.created = p.created,
           q.decision = p.decision, q.approval = p.approval,
           q.reservation = "HELD" => p.reservation = "HELD",
           p.noEffect \subseteq q.noEffect,
           \/ q.status = p.status
           \/ q.status \in WithoutEffect \cap q.noEffect
           \/ q.status \in UnderWay \cup {"CONFIRMED", "CLOSED_UNRESOLVED"}
    PROVE  RowOK(q) /\ FreesShare(p, q) /\ Follows(p, q)
<1>1. Agreed(q)
  BY DEF Agreed
<1>2. p.approval \in {"NONE", "APPROVED"} /\ p.noEffect \in SUBSET WithoutEffect
  BY DEF RowOK, Agreed, Payment
<1>3. Decided(q)
  BY <1>2 DEF RowOK, Decided, WithoutEffect, UnderWay
<1>4. RowOK(q)
  BY <1>1, <1>3 DEF RowOK, NotSpent, WithoutEffect, UnderWay
<1>5. FreesShare(p, q)
  BY DEF FreesShare, KeepsShare
<1>6. Spent(q) => Spent(p)
  BY <1>2 DEF RowOK, Spent, NotSpent, WithoutEffect
<1> QED
  BY <1>4, <1>5, <1>6 DEF Follows

LEMMA LandKeeps ==
    ASSUME SpendInv, NEW i \in DOMAIN payments, Land(i)
    PROVE  SpendInv'
<1>1. PICK p : p = payments[i]
  OBVIOUS
<1>2. p \in Payment /\ RowOK(p) /\ Agreed(p)
  BY <1>1, RowFields DEF Land, Affect
<1>3. PICK q : q = [p EXCEPT !.landed = TRUE]
  OBVIOUS
<1>4. payments' = [payments EXCEPT ![i] = q]
  BY <1>1, <1>3 DEF Land
<1>5. q \in Payment
  BY <1>2, <1>3 DEF Payment
<1>6. /\ q.key = p.key /\ q.intent = p.intent /\ q.created = p.created
      /\ q.decision = p.decision /\ q.approval = p.approval /\ q.reservation = p.reservation
      /\ q.status = p.status /\ q.noEffect = p.noEffect
  BY <1>2, <1>3 DEF Payment
<1>7. RowOK(q) /\ FreesShare(p, q) /\ Follows(p, q)
  BY <1>2, <1>6, AffectedRow
<1>8. units' \in Int
  <2>1. payments[i].intent.amount \in Nat /\ units \in Int
    BY SMTT(30), Amounts DEF SpendInv, Tables
  <2>2. Cost(payments[i].intent.amount) \in Int
    BY <2>1, LogicalInt
  <2> QED
    BY SMTT(30), <2>1, <2>2 DEF Land
<1> QED
  BY <1>1, <1>4, <1>5, <1>7, <1>8, SettleKeeps DEF Land, Affect

LEMMA FinalizeKeeps ==
    ASSUME SpendInv, NEW i \in DOMAIN payments,
           NEW status \in {"CONFIRMED", "PROVED_NO_EFFECT", "FAILED"},
           finalizeV2Payment(i, status)
    PROVE  SpendInv'
<1>1. PICK p : p = payments[i]
  OBVIOUS
<1>2. p \in Payment /\ RowOK(p) /\ Agreed(p)
  BY <1>1, RowFields DEF finalizeV2Payment, Affect
<1>3. PICK r : r = IF p.reservation # "HELD" THEN p.reservation
                   ELSE IF status = "CONFIRMED" THEN "CONSUMED" ELSE "RELEASED"
  OBVIOUS
<1>4. PICK e : e = p.noEffect \cup ({status} \cap WithoutEffect)
  OBVIOUS
<1>5. PICK q : q = [p EXCEPT !.status = status, !.noEffect = e, !.reservation = r]
  OBVIOUS
<1>6. payments' = [payments EXCEPT ![i] = q]
  BY <1>1, <1>3, <1>4, <1>5 DEF finalizeV2Payment, SpendInv, Tables
<1>7. /\ p.reservation \in {"NONE", "HELD", "CONSUMED", "RELEASED"}
      /\ p.noEffect \in SUBSET WithoutEffect
  BY <1>2 DEF Payment
<1>8. r \in {"NONE", "CONSUMED", "RELEASED"} /\ e \in SUBSET WithoutEffect
  BY <1>3, <1>4, <1>7
<1>9. q \in Payment
  BY <1>2, <1>5, <1>8 DEF Payment, NotSpent
<1>10. /\ q.key = p.key /\ q.intent = p.intent /\ q.created = p.created
       /\ q.decision = p.decision /\ q.approval = p.approval /\ q.reservation = r
       /\ q.status = status /\ q.noEffect = e
  BY <1>2, <1>5 DEF Payment
<1>11. RowOK(q) /\ FreesShare(p, q) /\ Follows(p, q)
  <2>1. status = "CONFIRMED" \/ status \in WithoutEffect \cap e
    BY <1>4 DEF WithoutEffect
  <2>2. p.noEffect \subseteq e /\ r # "HELD"
    BY <1>4, <1>8
  <2> QED
    BY <1>2, <1>10, <2>1, <2>2, AffectedRow
<1>12. units' \in Int
  BY DEF finalizeV2Payment, SpendInv, Tables
<1> QED
  BY <1>1, <1>6, <1>9, <1>11, <1>12, SettleKeeps DEF finalizeV2Payment, Affect

LEMMA UpdateExecutionKeeps ==
    ASSUME SpendInv, NEW i \in DOMAIN payments, updatePaymentExecution(i)
    PROVE  SpendInv'
<1>1. PICK p : p = payments[i]
  OBVIOUS
<1>2. p \in Payment /\ RowOK(p) /\ Agreed(p)
  BY <1>1, RowFields DEF updatePaymentExecution, Affect
<1>3. PICK q : q = [p EXCEPT !.status = "ROUTING"]
  OBVIOUS
<1>4. payments' = [payments EXCEPT ![i] = q]
  BY <1>1, <1>3 DEF updatePaymentExecution
<1>5. q \in Payment
  BY <1>2, <1>3 DEF Payment, UnderWay
<1>6. /\ q.key = p.key /\ q.intent = p.intent /\ q.created = p.created
      /\ q.decision = p.decision /\ q.approval = p.approval /\ q.reservation = p.reservation
      /\ q.status = "ROUTING" /\ q.noEffect = p.noEffect
  BY <1>2, <1>3 DEF Payment
<1>7. RowOK(q) /\ FreesShare(p, q) /\ Follows(p, q)
  BY <1>2, <1>6, AffectedRow DEF UnderWay
<1>8. units' \in Int
  BY DEF updatePaymentExecution, SpendInv, Tables
<1> QED
  BY <1>1, <1>4, <1>5, <1>7, <1>8, SettleKeeps DEF updatePaymentExecution, Affect

LEMMA UnresolveKeeps ==
    ASSUME SpendInv, NEW i \in DOMAIN payments, NEW from \in UnderWay,
           NEW to \in {"REVIEW_REQUIRED", "CLOSED_UNRESOLVED"}, Unresolve(i, from, to)
    PROVE  SpendInv'
<1>1. PICK p : p = payments[i]
  OBVIOUS
<1>2. p \in Payment /\ RowOK(p) /\ p.status \in UnderWay
  BY <1>1, RowFields DEF Unresolve
<1>3. PICK q : q = [p EXCEPT !.status = to]
  OBVIOUS
<1>4. payments' = [payments EXCEPT ![i] = q]
  BY <1>1, <1>3 DEF Unresolve
<1>5. q \in Payment
  BY <1>2, <1>3 DEF Payment, UnderWay
<1>6. /\ q.key = p.key /\ q.intent = p.intent /\ q.created = p.created
      /\ q.decision = p.decision /\ q.approval = p.approval /\ q.reservation = p.reservation
      /\ q.status = to /\ q.noEffect = p.noEffect
  BY <1>2, <1>3 DEF Payment
<1>7. Agreed(p)
  BY <1>2 DEF RowOK, UnderWay, NotSpent
<1>8. RowOK(q) /\ FreesShare(p, q) /\ Follows(p, q)
  BY <1>2, <1>6, <1>7, AffectedRow DEF UnderWay
<1>9. units' \in Int
  BY DEF Unresolve, SpendInv, Tables
<1> QED
  BY <1>1, <1>4, <1>5, <1>8, <1>9, SettleKeeps DEF Unresolve

-----------------------------------------------------------------------------
(* The operator. *)

LEMMA PolicyTables ==
    ASSUME SpendInv, lock = NoLock, UNCHANGED <<now, payments, units, lock, calls, decider>>,
           policies' \in Seq([limits: Limits, status: {"DRAFT", "ACTIVE", "RETIRED"}]),
           \A i, j \in DOMAIN policies' :
               policies'[i].status = "ACTIVE" /\ policies'[j].status = "ACTIVE" => i = j,
           DOMAIN policies \subseteq DOMAIN policies'
    PROVE  SpendInv'
<1>1. Tables'
  BY DEF SpendInv, Tables
<1> QED
  BY <1>1, FreeStep

LEMMA RetiredIs ==
    ASSUME NEW ps \in Seq([limits: Limits, status: {"DRAFT", "ACTIVE", "RETIRED"}])
    PROVE  /\ Retired(ps) \in Seq([limits: Limits, status: {"DRAFT", "ACTIVE", "RETIRED"}])
           /\ Len(Retired(ps)) = Len(ps)
           /\ \A i \in 1..Len(ps) : /\ Retired(ps)[i].status # "ACTIVE"
                                    /\ Retired(ps)[i] \in [limits: Limits,
                                           status: {"DRAFT", "ACTIVE", "RETIRED"}]
<1> DEFINE P == [limits: Limits, status: {"DRAFT", "ACTIVE", "RETIRED"}]
<1>1. ps \in Seq(P)
  OBVIOUS
<1>2. \A p \in P : [p EXCEPT !.status = "RETIRED"] \in P
                   /\ [p EXCEPT !.status = "RETIRED"].status = "RETIRED"
  OBVIOUS
<1> HIDE DEF P
<1>3. Len(ps) \in Nat /\ DOMAIN ps = 1..Len(ps) /\ \A i \in 1..Len(ps) : ps[i] \in P
  BY SMTT(30), <1>1
<1>4. \A i \in 1..Len(ps) : Retired(ps)[i] \in P /\ Retired(ps)[i].status # "ACTIVE"
  BY <1>2, <1>3 DEF Retired
<1>5. Retired(ps) \in [1..Len(ps) -> P]
  BY <1>3, <1>4 DEF Retired
<1>6. Retired(ps) \in Seq(P) /\ Len(Retired(ps)) = Len(ps)
  BY SMTT(30), <1>3, <1>5
<1> QED
  BY <1>4, <1>6 DEF P

LEMMA NewPolicyKeeps ==
    ASSUME SpendInv, NEW limits \in Policies, createSpendPolicy(limits)
    PROVE  SpendInv'
<1> DEFINE P == [limits: Limits, status: {"DRAFT", "ACTIVE", "RETIRED"}]
<1>1. PICK p : p = [limits |-> limits, status |-> "DRAFT"]
  OBVIOUS
<1>2. p \in P /\ p.status = "DRAFT"
  BY <1>1, SpendControlAssumption
<1>3. policies \in Seq(P) /\ policies' = Append(policies, p)
  BY <1>1 DEF SpendInv, Tables, createSpendPolicy
<1> HIDE DEF P
<1>4. /\ policies' \in Seq(P) /\ DOMAIN policies' = 1..(Len(policies) + 1)
      /\ DOMAIN policies = 1..Len(policies) /\ Len(policies) \in Nat
      /\ policies'[Len(policies) + 1] = p
      /\ \A i \in 1..Len(policies) : policies'[i] = policies[i]
  BY SMTT(30), <1>2, <1>3
<1>5. \A i \in DOMAIN policies' : policies'[i].status = "ACTIVE" =>
          i \in DOMAIN policies /\ policies[i].status = "ACTIVE"
  BY SMTT(30), <1>2, <1>4
<1>6. \A i, j \in DOMAIN policies' :
          policies'[i].status = "ACTIVE" /\ policies'[j].status = "ACTIVE" => i = j
  BY <1>5 DEF SpendInv, Tables
<1>7. DOMAIN policies \subseteq DOMAIN policies'
  BY SMTT(30), <1>4
<1> QED
  BY <1>4, <1>6, <1>7, PolicyTables DEF createSpendPolicy, AccountRowFree, P

LEMMA ReplaceKeeps ==
    ASSUME SpendInv, NEW limits \in Policies, NEW v, replaceSpendPolicy(limits, v)
    PROVE  SpendInv'
<1> DEFINE P == [limits: Limits, status: {"DRAFT", "ACTIVE", "RETIRED"}]
<1>1. PICK p : p = [limits |-> limits, status |-> "ACTIVE"]
  OBVIOUS
<1>2. p \in P
  BY <1>1, SpendControlAssumption
<1>3. PICK old : old = Retired(policies)
  OBVIOUS
<1>4. policies \in Seq(P) /\ policies' = Append(old, p)
  BY <1>1, <1>3 DEF SpendInv, Tables, replaceSpendPolicy
<1>5. /\ old \in Seq(P) /\ Len(old) = Len(policies)
      /\ \A i \in 1..Len(policies) : old[i].status # "ACTIVE"
  BY <1>3, <1>4, RetiredIs
<1> HIDE DEF P
<1>6. /\ policies' \in Seq(P) /\ DOMAIN policies' = 1..(Len(policies) + 1)
      /\ DOMAIN policies = 1..Len(policies) /\ Len(policies) \in Nat
      /\ \A i \in 1..Len(policies) : policies'[i] = old[i]
  BY SMTT(30), <1>2, <1>4, <1>5
<1>7. \A i \in DOMAIN policies' : policies'[i].status = "ACTIVE" => i = Len(policies) + 1
  BY SMTT(30), <1>5, <1>6
<1>8. DOMAIN policies \subseteq DOMAIN policies'
  BY SMTT(30), <1>6
<1> QED
  BY <1>6, <1>7, <1>8, PolicyTables DEF replaceSpendPolicy, AccountRowFree, P

LEMMA ActivateKeeps ==
    ASSUME SpendInv, NEW v \in DOMAIN policies, activateSpendPolicy(v)
    PROVE  SpendInv'
<1> DEFINE P == [limits: Limits, status: {"DRAFT", "ACTIVE", "RETIRED"}]
<1>1. PICK old : old = Retired(policies)
  OBVIOUS
<1>2. policies \in Seq(P) /\ v \in 1..Len(policies) /\ DOMAIN policies = 1..Len(policies)
  BY SMTT(30) DEF SpendInv, Tables
<1>3. /\ old \in Seq(P) /\ Len(old) = Len(policies)
      /\ \A i \in 1..Len(policies) : old[i].status # "ACTIVE" /\ old[i] \in P
  BY <1>1, <1>2, RetiredIs
<1>4. PICK p : p = [old[v] EXCEPT !.status = "ACTIVE"]
  OBVIOUS
<1>5. p \in P
  BY <1>2, <1>3, <1>4
<1>6. policies' = [old EXCEPT ![v] = p]
  BY <1>1, <1>4 DEF activateSpendPolicy
<1> HIDE DEF P
<1>7. /\ policies' \in Seq(P) /\ DOMAIN policies' = 1..Len(policies)
      /\ \A i \in 1..Len(policies) : i # v => policies'[i] = old[i]
  BY SMTT(30), <1>2, <1>3, <1>5, <1>6
<1>8. \A i \in DOMAIN policies' : policies'[i].status = "ACTIVE" => i = v
  BY <1>3, <1>7
<1> QED
  BY SMTT(30), <1>2, <1>7, <1>8, PolicyTables DEF activateSpendPolicy, AccountRowFree, P

LEMMA DecideApproveKeeps ==
    ASSUME SpendInv, decideApprove
    PROVE  SpendInv'
<1>1. decider.pc = "approve" /\ lock = NoLock /\ decider' = Waiting
      /\ UNCHANGED <<now, policies, units, lock, calls>>
  BY DEF decideApprove, AccountRowFree
<1>2. PICK i : i = decider.payment
  OBVIOUS
<1>3. i \in DOMAIN payments /\ units' \in Int
  BY <1>1, <1>2 DEF SpendInv, Tables
<1>4. decider'.pc # "approve"
  BY <1>1 DEF Waiting
<1>5. CASE UNCHANGED payments
  <2>1. Tables'
    BY <1>1, <1>4, <1>5 DEF SpendInv, Tables
  <2> QED
    BY <1>1, <1>5, <2>1, FreeStep
<1>6. CASE /\ Approvable(payments[i], decider.settled)
           /\ payments' = [payments EXCEPT ![i].approval = "APPROVED",
                             ![i].status = "ROUTING", ![i].reservation = "HELD"]
  <2>1. PICK p : p = payments[i]
    OBVIOUS
  <2>2. p \in Payment /\ RowOK(p) /\ p.status = "AWAITING_APPROVAL" /\ p.approval = "PENDING"
    BY <1>3, <1>6, <2>1, RowFields DEF Approvable, Undecided
  <2>3. PICK q : q = [p EXCEPT !.approval = "APPROVED", !.status = "ROUTING",
                               !.reservation = "HELD"]
    OBVIOUS
  <2>4. payments' = [payments EXCEPT ![i] = q]
    BY <1>3, <1>6, <2>1, <2>3 DEF SpendInv, Tables
  <2>5. q \in Payment
    BY <2>2, <2>3 DEF Payment, UnderWay
  <2>6. /\ q.key = p.key /\ q.intent = p.intent /\ q.status = "ROUTING"
        /\ q.approval = "APPROVED" /\ q.decision = p.decision /\ q.noEffect = p.noEffect
    BY <2>2, <2>3 DEF Payment
  <2>7. RowOK(q)
    BY <2>2, <2>6 DEF RowOK, Decided, Agreed, NotSpent, WithoutEffect
  <2>8. FreesShare(p, q)
    BY <2>2, <2>6 DEF FreesShare, KeepsShare
  <2>9. /\ Tables' /\ DOMAIN payments' = DOMAIN payments
        /\ payments'[i] = q /\ \A j \in DOMAIN payments : j # i => payments'[j] = payments[j]
    BY <1>1, <1>3, <1>4, <2>1, <2>4, <2>5, <2>7, <2>8, RowChange
  <2>10. \A j \in DOMAIN payments : /\ j \in DOMAIN payments'
                                    /\ payments'[j].key = payments[j].key
                                    /\ payments'[j].intent = payments[j].intent
    BY <2>1, <2>6, <2>9
  <2> QED
    BY <1>1, <2>9, <2>10, FreeStep
<1> QED
  BY <1>2, <1>5, <1>6 DEF decideApprove

LEMMA DecideCloseKeeps ==
    ASSUME SpendInv, NEW i \in DOMAIN payments, NEW next \in {"REJECTED", "EXPIRED"},
           decideClose(i, next)
    PROVE  SpendInv'
<1>1. PICK p : p = payments[i]
  OBVIOUS
<1>2. p \in Payment /\ RowOK(p) /\ p.approval = "PENDING" /\ lock = NoLock
      /\ UNCHANGED <<now, policies, units, lock, calls, decider>>
  BY <1>1, RowFields DEF decideClose, Undecided, AccountRowFree
<1>3. PICK q : q = [p EXCEPT !.approval = next, !.status = next]
  OBVIOUS
<1>4. payments' = [payments EXCEPT ![i] = q]
  BY <1>1, <1>3 DEF decideClose, SpendInv, Tables
<1>5. q \in Payment
  BY <1>2, <1>3 DEF Payment, NotSpent
<1>6. /\ q.key = p.key /\ q.intent = p.intent /\ q.status = next /\ q.approval = next
      /\ q.reservation = p.reservation /\ q.landed = p.landed /\ q.decision = p.decision
  BY <1>2, <1>3 DEF Payment
<1>7. p.decision = "REQUIRE_APPROVAL" /\ ~Agreed(q) /\ ~Agreed(p)
  BY <1>2, <1>6 DEF RowOK, Agreed
<1>8. Decided(q)
  BY <1>6 DEF Decided
<1>9. RowOK(q)
  BY <1>2, <1>6, <1>7, <1>8 DEF RowOK, NotSpent
<1>10. FreesShare(p, q)
  BY <1>6, <1>7 DEF FreesShare, KeepsShare
<1>11. units' \in Int /\ (decider'.pc = "approve" => decider'.payment \in DOMAIN payments)
  BY <1>2 DEF SpendInv, Tables
<1>12. /\ Tables' /\ DOMAIN payments' = DOMAIN payments
       /\ payments'[i] = q /\ \A j \in DOMAIN payments : j # i => payments'[j] = payments[j]
  BY <1>1, <1>2, <1>4, <1>5, <1>9, <1>10, <1>11, RowChange
<1>13. \A j \in DOMAIN payments : /\ j \in DOMAIN payments'
                                  /\ payments'[j].key = payments[j].key
                                  /\ payments'[j].intent = payments[j].intent
  BY <1>1, <1>6, <1>12
<1> QED
  BY <1>2, <1>12, <1>13, FreeStep

\* What touches neither payments nor policies nor calls.
LEMMA AsideKeeps ==
    ASSUME SpendInv, UNCHANGED <<policies, payments, lock, calls>>,
           active' = active \/ lock = NoLock, now' \in Nat, units' \in Int,
           decider'.pc = "approve" => decider'.payment \in DOMAIN payments
    PROVE  SpendInv'
<1>1. Tables'
  BY DEF SpendInv, Tables
<1>2. CASE lock = NoLock
  BY <1>1, <1>2, FreeStep
<1>3. CASE active' = active
  <2>1. ASSUME NEW d \in Clients PROVE CallOK(d, calls[d])'
    <3>1. PICK s : s = calls[d]
      OBVIOUS
    <3>2. CallOK(d, s) /\ calls'[d] = s
      BY <3>1 DEF SpendInv
    <3>3. CallOK(d, s)'
      BY <1>3, <3>2, SameTables
    <3> QED
      BY <3>2, <3>3, CallReached
  <2> QED
    BY <1>1, <2>1 DEF SpendInv
<1> QED
  BY <1>2, <1>3

-----------------------------------------------------------------------------
(* The invariant holds. *)

LEMMA SpendInitially == Init => SpendInv
<1> SUFFICES ASSUME Init PROVE SpendInv
  OBVIOUS
<1>1. now = 0 /\ units = InitialUnits /\ payments = Underway /\ decider = Waiting
      /\ lock = NoLock /\ calls = [c \in Clients |-> Idle]
  BY DEF Init
<1>2. units \in Int
  BY SMTT(30), <1>1, SpendControlAssumption
<1>3. /\ policies \in Seq([limits: Limits, status: {"DRAFT", "ACTIVE", "RETIRED"}])
      /\ DOMAIN policies = {1}
  <2>1. FirstPolicy \in Limits
    BY SpendControlAssumption
  <2>2. [limits |-> FirstPolicy, status |-> "ACTIVE"]
          \in [limits: Limits, status: {"DRAFT", "ACTIVE", "RETIRED"}]
    BY <2>1
  <2> QED
    BY SMTT(30), <2>2 DEF Init
<1>4. Tables
  BY <1>1, <1>2, <1>3, UnderwayAssumption DEF Tables, Waiting
<1>5. calls \in [Clients -> Call]
  BY <1>1, IdleIsCall
<1>6. ASSUME NEW c \in Clients PROVE CallOK(c, calls[c])
  <2>1. calls[c] = Idle /\ Idle.pc = "idle" /\ Idle.answer = Refused /\ lock # c
    BY <1>1, UnderwayAssumption DEF Idle, Refused
  <2>2. CallOK(c, Idle)
    BY <2>1, IdleIsCall DEF CallOK, Inside
  <2> QED
    BY <2>1, <2>2
<1> QED
  BY <1>4, <1>5, <1>6 DEF SpendInv

LEMMA RequestKeeps ==
    ASSUME SpendInv, Request
    PROVE  SpendInv'
<1>1. PICK c \in Clients :
          \/ \E key \in Keys, intent \in Intents : StartCall(c, key, intent)
          \/ CheckRefundable(c) \/ LookupIdempotency(c) \/ SelectRoute(c)
          \/ ReadPolicy(c) \/ ReadBalance(c) \/ BeginCreate(c)
          \/ ReadAggregate(c) \/ CommitCreate(c)
  BY DEF Request
<1> QED
  BY <1>1, StartCallKeeps, CheckRefundableKeeps, LookupKeeps, SelectRouteKeeps,
     ReadPolicyKeeps, ReadBalanceKeeps, BeginCreateKeeps, ReadAggregateKeeps,
     CommitCreateKeeps

LEMMA OperateKeeps ==
    ASSUME SpendInv, Operate
    PROVE  SpendInv'
<1>1. now \in Nat /\ units \in Int
      /\ (decider.pc = "approve" => decider.payment \in DOMAIN payments)
  BY DEF SpendInv, Tables
<1>2. CASE transitionAccount
  BY <1>1, <1>2, AsideKeeps DEF transitionAccount, AccountRowFree
<1>3. CASE SwitchDestination
  BY <1>1, <1>3, AsideKeeps DEF SwitchDestination
<1>4. ASSUME NEW i \in DOMAIN payments, ReadForApproval(i) PROVE SpendInv'
  BY <1>1, <1>4, AsideKeeps DEF ReadForApproval
<1>5. CASE \E limits \in Policies : createSpendPolicy(limits)
  BY <1>5, NewPolicyKeeps
<1>6. CASE \E limits \in Policies, v \in DOMAIN policies : replaceSpendPolicy(limits, v)
  BY <1>6, ReplaceKeeps
<1>7. CASE \E v \in DOMAIN policies : activateSpendPolicy(v)
  BY <1>7, ActivateKeeps
<1>8. CASE decideApprove
  BY <1>8, DecideApproveKeeps
<1>9. CASE \E i \in DOMAIN payments, next \in {"REJECTED", "EXPIRED"} : decideClose(i, next)
  BY <1>9, DecideCloseKeeps
<1> QED
  BY <1>2, <1>3, <1>4, <1>5, <1>6, <1>7, <1>8, <1>9 DEF Operate

LEMMA ExecuteKeeps ==
    ASSUME SpendInv, Execute
    PROVE  SpendInv'
<1>1. PICK i \in DOMAIN payments :
          \/ Land(i)
          \/ \E status \in {"CONFIRMED", "PROVED_NO_EFFECT", "FAILED"} :
                 finalizeV2Payment(i, status)
          \/ updatePaymentExecution(i)
          \/ Unresolve(i, "ROUTING", "REVIEW_REQUIRED")
          \/ Unresolve(i, "REVIEW_REQUIRED", "CLOSED_UNRESOLVED")
  BY DEF Execute
<1>2. CASE Unresolve(i, "ROUTING", "REVIEW_REQUIRED")
  BY <1>2, UnresolveKeeps DEF UnderWay
<1>3. CASE Unresolve(i, "REVIEW_REQUIRED", "CLOSED_UNRESOLVED")
  BY <1>3, UnresolveKeeps DEF UnderWay
<1> QED
  BY <1>1, <1>2, <1>3, LandKeeps, FinalizeKeeps, UpdateExecutionKeeps

LEMMA SpendStep == SpendInv /\ [Next]_vars => SpendInv'
<1> SUFFICES ASSUME SpendInv, [Next]_vars PROVE SpendInv'
  OBVIOUS
<1>1. now \in Nat /\ units \in Int
      /\ (decider.pc = "approve" => decider.payment \in DOMAIN payments)
  BY DEF SpendInv, Tables
<1>2. CASE Deposit
  <2>1. units' \in Int
    BY SMTT(30), <1>1, <1>2, SpendControlAssumption DEF Deposit
  <2> QED
    BY <1>1, <1>2, <2>1, AsideKeeps DEF Deposit
<1>3. CASE Tick
  BY SMTT(30), <1>1, <1>3, AsideKeeps DEF Tick
<1>4. CASE UNCHANGED vars
  BY <1>1, <1>4, AsideKeeps DEF vars
<1> QED
  BY <1>2, <1>3, <1>4, RequestKeeps, OperateKeeps, ExecuteKeeps DEF Next

\* The invariant of the account: one active policy, one payment per idempotency
\* key, sound rows, refunds that fit together, and a transaction under the row
\* lock whose reads are not overtaken by anything that counts against a limit.
THEOREM SpendInvAlways == Spec => []SpendInv
BY SpendInitially, SpendStep, PTL DEF Spec

-----------------------------------------------------------------------------
(* What follows from it. *)

LEMMA SoundRefunds == SpendInv => RefundsBounded
BY DEF SpendInv, Tables, RefundsBounded

\* The refunds of createRefund and createV2Payment that were agreed to or may
\* still be approved, and that no finalization recorded as without effect, never
\* exceed the original payment, whatever requests, approvals and executions
\* interleave.
THEOREM RefundsStayBounded == Spec => []RefundsBounded
BY SpendInvAlways, SoundRefunds, PTL

LEMMA SoundAnswers == SpendInv => AnswersAreFaithful
BY DEF SpendInv, Tables, CallOK, AnswersAreFaithful

\* One idempotency key, one payment; a request is answered with the payment of
\* its own key and intent, whichever of the two lookups found it.
THEOREM AnswersStayFaithful == Spec => []AnswersAreFaithful
BY SpendInvAlways, SoundAnswers, PTL

LEMMA SoundApprovals == SpendInv => ApprovalGovernsFunds
BY DEF SpendInv, Tables, RowOK, ApprovalGovernsFunds

\* A payment holds or moves funds only if the policy allowed it or an operator
\* approved it, whatever decideApproval, expiry and execution do.
THEOREM ApprovalsGovern == Spec => []ApprovalGovernsFunds
BY SpendInvAlways, SoundApprovals, PTL

\* One payment row is rewritten, and none added.
RowRewritten == \E j \in DOMAIN payments : \E q : payments' = [payments EXCEPT ![j] = q]

\* Only the commit of createV2Payment adds a payment.
LEMMA OnlyCommitAdmits ==
    ASSUME SpendInv, [Next]_vars, Len(payments') > Len(payments)
    PROVE  \E c \in Clients : CommitCreate(c)
<1>1. payments \in Seq(Payment) /\ Len(payments) \in Nat
  BY SMTT(30) DEF SpendInv, Tables
<1>2. payments' # payments
  BY SMTT(30), <1>1
<1>3. CASE RowRewritten
  <2>1. Len(payments') = Len(payments)
    BY SMTT(30), <1>1, <1>3 DEF RowRewritten
  <2> QED
    BY SMTT(30), <1>1, <2>1
<1>4. ASSUME NEW i \in DOMAIN payments, NEW next, decideClose(i, next)
      PROVE  RowRewritten
  <2>1. payments' = [payments EXCEPT ![i] = [payments[i] EXCEPT !.approval = next,
                                                                !.status = next]]
    BY <1>1, <1>4 DEF decideClose
  <2> QED
    BY <2>1 DEF RowRewritten
<1>5. ASSUME NEW i \in DOMAIN payments, Land(i)
      PROVE  RowRewritten
  BY <1>5 DEF Land, RowRewritten
<1>6. ASSUME NEW i \in DOMAIN payments, NEW status, finalizeV2Payment(i, status)
      PROVE  RowRewritten
  <2>1. PICK r : r = IF payments[i].reservation # "HELD" THEN payments[i].reservation
                     ELSE IF status = "CONFIRMED" THEN "CONSUMED" ELSE "RELEASED"
    OBVIOUS
  <2>2. payments' = [payments EXCEPT ![i] =
            [payments[i] EXCEPT !.status = status,
                 !.noEffect = payments[i].noEffect \cup ({status} \cap WithoutEffect),
                 !.reservation = r]]
    BY <1>1, <1>6, <2>1 DEF finalizeV2Payment
  <2> QED
    BY <2>2 DEF RowRewritten
<1>7. ASSUME NEW i \in DOMAIN payments, NEW from, NEW to, Unresolve(i, from, to)
      PROVE  RowRewritten
  BY <1>7 DEF Unresolve, RowRewritten
<1>8. ASSUME decideApprove
      PROVE  RowRewritten
  <2>1. PICK i : i = decider.payment
    OBVIOUS
  <2>2. i \in DOMAIN payments
    BY <1>8, <2>1 DEF decideApprove, SpendInv, Tables
  <2>3. payments' = [payments EXCEPT ![i] = [payments[i] EXCEPT !.approval = "APPROVED",
                        !.status = "ROUTING", !.reservation = "HELD"]]
    BY <1>1, <1>2, <1>8, <2>1, <2>2 DEF decideApprove
  <2> QED
    BY <2>2, <2>3 DEF RowRewritten
<1>9. Execute => RowRewritten
  <2>1. ASSUME NEW i \in DOMAIN payments, updatePaymentExecution(i)
        PROVE  RowRewritten
    BY <2>1 DEF updatePaymentExecution, RowRewritten
  <2> QED
    BY <1>5, <1>6, <1>7, <2>1 DEF Execute
<1>10. Operate => RowRewritten
  <2>1. ASSUME Operate
        PROVE  \/ decideApprove
               \/ \E i \in DOMAIN payments, next \in {"REJECTED", "EXPIRED"} : decideClose(i, next)
    BY <1>2, <2>1 DEF Operate, createSpendPolicy, replaceSpendPolicy, activateSpendPolicy,
       transitionAccount, SwitchDestination, ReadForApproval
  <2> QED
    BY <1>4, <1>8, <2>1
<1>11. Request => \E c \in Clients : CommitCreate(c)
  BY <1>2
     DEF Request, StartCall, CheckRefundable, LookupIdempotency, SelectRoute, ReadPolicy,
     ReadBalance, BeginCreate, ReadAggregate
<1>12. ~(UNCHANGED vars) /\ ~Deposit /\ ~Tick
  BY <1>2 DEF vars, Deposit, Tick
<1> QED
  BY <1>3, <1>9, <1>10, <1>11, <1>12 DEF Next

LEMMA DenialsNamed ==
    ASSUME NEW limits, NEW amount, NEW destination, NEW read,
           evaluateSpendPolicy(limits, amount, destination, read) # "DENY"
    PROVE  /\ destination
           /\ ~Exceeds(amount, limits.max)
           /\ ~Exceeds(read["confirmed"] + read["held"] + read["unresolved"] + amount,
                       limits.budget)
           /\ ~Exceeds(read["count"] + 1, limits.cap)
<1>1. Denials(limits, amount, destination, read) = {}
  BY DEF evaluateSpendPolicy
<1>2. \A r \in {"DESTINATION", "PER_PAYMENT", "BUDGET", "COUNT"} :
          r \notin Denials(limits, amount, destination, read)
  BY <1>1
<1> QED
  BY <1>2 DEF Denials

\* What was read is not less than what is there, so the limits hold of the
\* latter too.
LEMMA LimitsCarryOver ==
    ASSUME NEW limit \in Limit, NEW x \in Nat, NEW y \in Nat, x <= y, ~Exceeds(y, limit)
    PROVE  ~Exceeds(x, limit)
BY SMTT(30) DEF Limit, Exceeds

LEMMA AdmissionStep == SpendInv /\ [Next]_vars => [AdmitsWithin]_vars
<1> SUFFICES ASSUME SpendInv, [Next]_vars, Len(payments') > Len(payments)
             PROVE  AdmitsWithin
  BY DEF AdmitsWithin
<1>1. PICK c \in Clients : CommitCreate(c)
  BY OnlyCommitAdmits
<1>2. PICK s : s = calls[c]
  OBVIOUS
<1>3. s \in Call /\ s.pc = "commit" /\ Judging(s) /\ s.version \in DOMAIN policies
  BY <1>1, <1>2 DEF SpendInv, CallOK, Inside, CommitCreate
<1>4. payments \in Seq(Payment) /\ Tables
  BY DEF SpendInv, Tables
<1>5. ActivePolicy = s.version
  BY <1>3, <1>4, ActiveIs DEF Judging
<1>6. PICK limits : limits = policies[s.version].limits
  OBVIOUS
<1>7. limits.budget \in Limit /\ limits.cap \in Limit
  <2>1. policies[s.version] \in [limits: Limits, status: {"DRAFT", "ACTIVE", "RETIRED"}]
    <3>1. PICK v : v = s.version /\ v \in DOMAIN policies
      BY <1>3
    <3>2. policies \in Seq([limits: Limits, status: {"DRAFT", "ACTIVE", "RETIRED"}])
      BY <1>4 DEF Tables
    <3>3. policies[v] \in [limits: Limits, status: {"DRAFT", "ACTIVE", "RETIRED"}]
      <4> DEFINE P == [limits: Limits, status: {"DRAFT", "ACTIVE", "RETIRED"}]
      <4>1. policies \in Seq(P) /\ v \in DOMAIN policies
        BY <3>1, <3>2
      <4> HIDE DEF P
      <4>2. policies[v] \in P
        BY SMTT(30), <4>1
      <4> QED
        BY <4>2 DEF P
    <3> QED
      BY <3>1, <3>3
  <2>2. limits \in Limits
    BY <1>6, <2>1
  <2> QED
    BY <2>2 DEF Limits
<1>8. PICK decision : decision = evaluateSpendPolicy(limits, s.intent.amount, approved, s.read)
  OBVIOUS
<1>9. payments' = Append(payments, NewPayment(c, decision))
  <2>1. ~ UNCHANGED payments
    BY SMTT(30), <1>4
  <2>2. payments' = Append(payments, NewPayment(c,
            evaluateSpendPolicy(policies[calls[c].version].limits, calls[c].intent.amount,
                                approved, calls[c].read)))
    BY <1>1, <2>1 DEF CommitCreate
  <2> QED
    BY <1>2, <1>6, <1>8, <2>2
<1>10. PICK p : p = payments'[Len(payments')]
  OBVIOUS
<1>11. p.intent = s.intent /\ p.created = s.at /\ p.decision = decision
  <2>1. PICK q : q = NewPayment(c, decision)
    OBVIOUS
  <2>2. payments'[Len(payments')] = q
    BY SMTT(30), <1>4, <1>9, <2>1
  <2>3. q.intent = s.intent /\ q.created = s.at /\ q.decision = decision
    BY <1>2, <2>1 DEF NewPayment
  <2> QED
    BY <1>10, <2>2, <2>3
<1>12. ASSUME decision # "DENY"
       PROVE  /\ active /\ approved
              /\ ~Exceeds(s.intent.amount, limits.max)
              /\ ~Exceeds(SpentCount(limits, s.at) + 1, limits.cap)
              /\ ~Exceeds(Held + s.intent.amount, limits.budget)
  <2>1. /\ approved /\ ~Exceeds(s.intent.amount, limits.max)
        /\ ~Exceeds(s.read["confirmed"] + s.read["held"] + s.read["unresolved"]
                      + s.intent.amount, limits.budget)
        /\ ~Exceeds(s.read["count"] + 1, limits.cap)
    BY SMTT(30), <1>8, <1>12, DenialsNamed
  <2>2. /\ active /\ DOMAIN s.read = Names /\ Held <= s.read["held"]
        /\ SpentCount(limits, s.at) <= s.read["count"]
    BY <1>3, <1>6 DEF Judging, Names
  <2>3. \A a \in Names : s.read[a] \in Nat
    <3>1. s.read \in Reads
      BY <1>3 DEF Call
    <3>2. PICK A \in SUBSET Names : s.read \in [A -> Nat]
      BY <3>1 DEF Reads
    <3> QED
      BY <2>2, <3>2
  <2>4. s.intent.amount \in Nat
    <3>1. s.intent \in [kind: {"PAY", "REFUND"}, amount: Nat]
      BY <1>3 DEF Call
    <3> QED
      BY <3>1
  <2>5. Held \in Nat /\ SpentCount(limits, s.at) \in Nat
    <3>1. Aggregate("held", limits, s.at) \in Nat /\ SpentCount(limits, s.at) \in Nat
      BY <1>4, AggregateNat, CountCovers DEF Names
    <3>2. Aggregate("held", limits, s.at) = Held
      BY DEF Aggregate
    <3> QED
      BY <3>1, <3>2
  <2>6. PICK h, k, f, u, m, amount :
            /\ h = s.read["held"] /\ k = s.read["count"] /\ f = s.read["confirmed"]
            /\ u = s.read["unresolved"] /\ m = SpentCount(limits, s.at)
            /\ amount = s.intent.amount
    OBVIOUS
  <2>7. /\ h \in Nat /\ k \in Nat /\ f \in Nat /\ u \in Nat /\ m \in Nat /\ amount \in Nat
        /\ Held \in Nat /\ Held <= h /\ m <= k
    BY <2>2, <2>3, <2>4, <2>5, <2>6 DEF Names
  <2>8. /\ Held + amount \in Nat /\ f + h + u + amount \in Nat
        /\ Held + amount <= f + h + u + amount
        /\ m + 1 \in Nat /\ k + 1 \in Nat /\ m + 1 <= k + 1
    BY SMTT(30), <2>7
  <2>9. ~Exceeds(Held + amount, limits.budget) /\ ~Exceeds(m + 1, limits.cap)
    BY <1>7, <2>1, <2>6, <2>8, LimitsCarryOver
  <2> QED
    BY <2>1, <2>2, <2>6, <2>9
<1> QED
  BY <1>5, <1>6, <1>10, <1>11, <1>12 DEF AdmitsWithin

\* createV2Payment admits a payment only within the limits in force at the
\* commit, although the policy is read before the lock, the aggregates one
\* statement after the other, and finalizations take no account lock.
THEOREM AdmissionsStayWithin == Spec => AdmissionWithinLimits
<1>1. SpendInv /\ [Next]_vars => [AdmitsWithin]_vars
  BY AdmissionStep
<1> QED
  BY <1>1, SpendInvAlways, PTL DEF Spec, AdmissionWithinLimits
=============================================================================
