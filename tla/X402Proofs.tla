----------------------------- MODULE X402Proofs -----------------------------
(***************************************************************************)
(* Proofs about X402Payments.  The argument: a prepared effect is written  *)
(* once, by a worker that has seen the version of a row without one; only  *)
(* a durable, signed effect is sent; and when no worker outlives its lease *)
(* whoever is busy with a payment owns its work item, so that nobody signs *)
(* between the check and the write of a finalization.                      *)
(***************************************************************************)
EXTENDS X402Payments, TLAPS

\* A leaf is left to Zenon, unless it names SMT: those need arithmetic, or terms of
\* records and functions that Zenon does not simplify.
USE ZenonT(60)

-----------------------------------------------------------------------------
(* The invariant. *)

Outcomes == {"NOT_STARTED", "UNKNOWN", "CONFIRMED", "FAILED"}
Transactions == Payload \cup Earlier \cup {NoPayload, NoTx, Bogus}

Row ==
    [status: {"ABSENT", "ROUTING", "DENIED", "RECONCILING", "REVIEW_REQUIRED", "CONFIRMED",
              "FAILED"},
     amount: {LogicalAmount(o.amount) : o \in Offers} \cup {0},
     payTo: {o.payTo : o \in Offers} \cup {NoTx}, outcome: Outcomes, pv: Nat, rv: Nat,
     prepared: Transactions, signed: BOOLEAN, request: {"PENDING", "SIGNED", "REJECTED"},
     external: Transactions, reservation: {"NONE", "HELD", "CONSUMED", "RELEASED"}]

\* A worker with a view of the row, and one that is left with a work item.
Viewers == {"prepare", "persistPrepared", "sign", "recheck", "send", "answer", "reconcile",
            "update", "project", "finalize", "finalizeWrite"}

Local ==
    [pc: Viewers \cup {"idle", "failure", "complete", "retry", "failItem"},
     p: Payments \cup {NoTx}, pv: Nat, rv: Nat, outcome: Outcomes, prepared: Transactions,
     signed: BOOLEAN, external: Transactions, found: Transactions,
     goal: {"UNKNOWN", "CONFIRMED", "FAILED"}, err: {"RETRY", "NO_RETRY"},
     reconciling: BOOLEAN, failing: BOOLEAN]

\* Transaction t pays what payment p was created for.
Terms(p, r, t) ==
    /\ t.payment = p
    /\ t.offer.amount = r.amount * AtomicPerUnit
    /\ t.offer.payTo = r.payTo
    /\ t.offer.amount <= Cap

Settled(t) == t \in DOMAIN chain /\ chain[t] = "landed"

RowOK(p, r) ==
    /\ r.status = "ABSENT" => r = NoRow /\ items[p].status = "ABSENT"
    /\ r.prepared # NoPayload => Terms(p, r, r.prepared)
    /\ r.signed => r.prepared # NoPayload
    /\ r.status = "CONFIRMED" => r.signed /\ Settled(r.prepared)
    /\ r.outcome = "UNKNOWN" => r.signed

\* What a worker in state s knows of its row r, which may have moved on.
LocalOK(s, r) ==
    /\ s.pc # "idle" => s.p \in Payments /\ r.status # "ABSENT"
    /\ s.pc \in Viewers => s.rv <= r.rv
    /\ s.pc \in {"prepare", "persistPrepared"} => (s.rv = r.rv => r.prepared = NoPayload)
    /\ s.pc = "persistPrepared" => s.prepared \in Payload /\ Terms(s.p, r, s.prepared)
    /\ s.pc = "sign" => r.prepared # NoPayload
    /\ s.pc \in {"recheck", "send", "answer", "reconcile", "update", "project"} => r.signed
    /\ s.pc \in {"send", "answer", "reconcile"} => s.prepared = r.prepared
    /\ s.pc \in {"finalize", "finalizeWrite"} =>
         \/ s.goal = "CONFIRMED" /\ r.signed /\ Settled(r.prepared)
         \/ s.goal = "FAILED" /\ (s.pc = "finalize" /\ s.rv = r.rv => ~r.signed)

X402Inv ==
    /\ offer \in Offers \cup {NoOffer} /\ asked \in [Payments -> Offers \cup {NoOffer}]
    /\ rows \in [Payments -> Row] /\ workers \in [Workers -> Local]
    /\ DOMAIN items = Payments
    /\ \A p \in Payments : RowOK(p, rows[p])
    /\ \A p \in Payments : asked[p] # NoOffer => rows[p].status = "ABSENT"
    /\ \A t \in sent : /\ t.payment \in Payments /\ rows[t.payment].signed
                       /\ rows[t.payment].prepared = t
    /\ DOMAIN chain \subseteq sent
    /\ \A t \in DOMAIN chain : chain[t] \in {"none", "processed", "landed", "failed"}
    /\ \A w \in Workers : LocalOK(workers[w], rows[workers[w].p])

-----------------------------------------------------------------------------
(* How a row may move, and what that leaves of the invariant. *)

\* The prepared effect is written once, a signature stays, and neither changes
\* without a new row version.
Advances(r, q) ==
    /\ r.status = "ABSENT" <=> q.status = "ABSENT"
    /\ r.rv <= q.rv /\ q.amount = r.amount /\ q.payTo = r.payTo
    /\ r.signed => q.signed
    /\ r.prepared # NoPayload => q.prepared = r.prepared
    /\ q.rv = r.rv => q.prepared = r.prepared /\ q.signed = r.signed

LEMMA LocalKept ==
    ASSUME NEW s \in Local, NEW r \in Row, NEW q \in Row, LocalOK(s, r), Advances(r, q),
           r.signed => r.prepared # NoPayload, \A t : Settled(t) => Settled(t)'
    PROVE  LocalOK(s, q)'
<1>1. s.rv \in Nat /\ r.rv \in Nat /\ q.rv \in Nat /\ r.rv <= q.rv
  BY DEF Local, Row, Advances
<1>2. s.pc \in Viewers => s.rv <= q.rv
  BY SMTT(30), <1>1 DEF LocalOK
<1>3. s.pc \in Viewers /\ s.rv = q.rv => s.rv = r.rv /\ q.prepared = r.prepared
                                          /\ q.signed = r.signed
  BY SMTT(30), <1>1 DEF LocalOK, Advances
<1>4. s.pc # "idle" => s.p \in Payments /\ q.status # "ABSENT"
  BY DEF LocalOK, Advances
<1>5. s.pc \in {"prepare", "persistPrepared"} => (s.rv = q.rv => q.prepared = NoPayload)
  BY <1>3 DEF LocalOK, Viewers
<1>6. s.pc = "persistPrepared" => s.prepared \in Payload /\ Terms(s.p, q, s.prepared)
  BY DEF LocalOK, Advances, Terms
<1>7. s.pc \in {"recheck", "send", "answer", "reconcile", "update", "project"} =>
        q.signed /\ (s.pc \in {"send", "answer", "reconcile"} => s.prepared = q.prepared)
  BY DEF LocalOK, Advances
<1>8. s.pc \in {"finalize", "finalizeWrite"} =>
         \/ s.goal = "CONFIRMED" /\ q.signed /\ Settled(q.prepared)'
         \/ s.goal = "FAILED" /\ (s.pc = "finalize" /\ s.rv = q.rv => ~q.signed)
  <2>1. s.pc = "finalize" => s.pc \in Viewers
    BY DEF Viewers
  <2>2. ASSUME s.goal = "CONFIRMED", r.signed, Settled(r.prepared)
        PROVE  q.signed /\ Settled(q.prepared)'
    <3>1. q.signed /\ q.prepared = r.prepared
      BY <2>2 DEF Advances
    <3> QED
      BY <2>2, <3>1
  <2> QED
    BY <1>3, <2>1, <2>2 DEF LocalOK
<1>9. s.pc = "sign" => q.prepared # NoPayload
  BY DEF LocalOK, Advances
<1> QED
  BY <1>2, <1>4, <1>5, <1>6, <1>7, <1>8, <1>9 DEF LocalOK, Terms

LEMMA LocalReached ==
    ASSUME NEW w, NEW s, NEW q, LocalOK(s, q)', workers'[w] = s,
           s.pc # "idle" => rows'[s.p] = q
    PROVE  LocalOK(workers[w], rows[workers[w].p])'
BY DEF LocalOK, Terms, Settled, Viewers

LEMMA RowReached ==
    ASSUME NEW p, NEW q, RowOK(p, q)', rows'[p] = q
    PROVE  RowOK(p, rows[p])'
BY DEF RowOK, Terms, Settled

LEMMA RowKept ==
    ASSUME NEW p, NEW r, RowOK(p, r), r.status = "ABSENT" => items'[p] = items[p],
           \A t : Settled(t) => Settled(t)'
    PROVE  RowOK(p, r)'
BY DEF RowOK, Terms

LEMMA AdvancesSame ==
    ASSUME NEW r \in Row
    PROVE  Advances(r, r)
BY SMTT(30) DEF Advances, Row

\* One worker moves and rows advance.
LEMMA Moves ==
    ASSUME X402Inv, NEW w \in Workers, NEW s \in Local, workers' = [workers EXCEPT ![w] = s],
           rows' \in [Payments -> Row], DOMAIN items' = Payments,
           \A p \in Payments : Advances(rows[p], rows'[p]),
           \A p \in Payments : RowOK(p, rows[p])',
           LocalOK(workers[w], rows[workers[w].p])',
           UNCHANGED <<offer, asked, chain>>, sent \subseteq sent',
           \A t \in sent' : t \notin sent => /\ t.payment \in Payments /\ rows[t.payment].signed
                                             /\ rows[t.payment].prepared = t
    PROVE  X402Inv'
<1>1. workers' \in [Workers -> Local]
  BY DEF X402Inv
<1>2. \A t : Settled(t) => Settled(t)'
  BY DEF Settled
<1>3. ASSUME NEW v \in Workers PROVE LocalOK(workers[v], rows[workers[v].p])'
  <2>1. CASE v = w
    BY <2>1
  <2>2. CASE v # w
    <3>1. PICK x : x = workers[v]
      OBVIOUS
    <3>2. x \in Local /\ workers'[v] = x /\ LocalOK(x, rows[x.p])
      BY <2>2, <3>1 DEF X402Inv
    <3>3. CASE x.pc = "idle"
      <4>1. \A q : LocalOK(x, q)'
        BY <3>3 DEF LocalOK, Viewers
      <4> QED
        BY <3>2, <3>3, <4>1, LocalReached
    <3>4. CASE x.pc # "idle"
      <4>1. PICK p \in Payments : p = x.p
        BY <3>2, <3>4 DEF LocalOK
      <4>2. PICK r, q : r = rows[p] /\ q = rows'[p]
        OBVIOUS
      <4>3. r \in Row /\ q \in Row /\ Advances(r, q) /\ LocalOK(x, r)
            /\ (r.signed => r.prepared # NoPayload)
        BY SMTT(30), <3>2, <4>1, <4>2 DEF X402Inv, RowOK
      <4>4. LocalOK(x, q)'
        BY <1>2, <3>2, <4>3, LocalKept
      <4> QED
        BY <3>2, <4>1, <4>2, <4>4, LocalReached
    <3> QED
      BY <3>3, <3>4
  <2> QED
    BY <2>1, <2>2
<1>4. \A p \in Payments : asked'[p] # NoOffer => rows'[p].status = "ABSENT"
  BY DEF X402Inv, Advances
<1>5. ASSUME NEW t \in sent'
      PROVE  t.payment \in Payments /\ rows'[t.payment].signed /\ rows'[t.payment].prepared = t
  <2>1. PICK p \in Payments : p = t.payment /\ rows[p].signed /\ rows[p].prepared = t
    BY DEF X402Inv
  <2>2. rows[p].prepared # NoPayload
    BY <2>1 DEF X402Inv, RowOK
  <2> QED
    BY <2>1, <2>2 DEF Advances
<1> QED
  BY <1>1, <1>3, <1>4, <1>5 DEF X402Inv

\* One worker moves and nothing else.
LEMMA LocalStep ==
    ASSUME X402Inv, NEW w \in Workers, NEW s \in Local, workers' = [workers EXCEPT ![w] = s],
           LocalOK(s, rows[s.p]), UNCHANGED <<offer, asked, rows, items, sent, chain>>
    PROVE  X402Inv'
<1>1. rows' \in [Payments -> Row] /\ DOMAIN items' = Payments
      /\ \A p \in Payments : Advances(rows[p], rows'[p])
  BY AdvancesSame DEF X402Inv
<1>2. \A t : Settled(t) => Settled(t)'
  BY DEF Settled
<1>3. ASSUME NEW p \in Payments PROVE RowOK(p, rows[p])'
  <2>1. PICK r : r = rows[p]
    OBVIOUS
  <2>2. RowOK(p, r)'
    BY <1>2, <2>1, RowKept DEF X402Inv
  <2> QED
    BY <2>1, <2>2, RowReached
<1>4. LocalOK(workers[w], rows[workers[w].p])'
  <2>1. PICK q : q = rows[s.p]
    OBVIOUS
  <2>2. LocalOK(s, q)'
    BY <1>2, <2>1 DEF LocalOK, Terms
  <2>3. workers'[w] = s
    BY DEF X402Inv
  <2> QED
    BY <2>1, <2>2, <2>3, LocalReached
<1> QED
  BY <1>1, <1>3, <1>4, Moves

\* One worker moves and writes row p, with or without its work item.
LEMMA RowStep ==
    ASSUME X402Inv, NEW w \in Workers, NEW s \in Local, workers' = [workers EXCEPT ![w] = s],
           NEW p \in Payments, NEW q \in Row, rows' = [rows EXCEPT ![p] = q],
           rows[p].status # "ABSENT", Advances(rows[p], q), RowOK(p, q),
           s.pc # "idle" => s.p = p, LocalOK(s, q),
           DOMAIN items' = Payments, \A o \in Payments : o # p => items'[o] = items[o],
           UNCHANGED <<offer, asked, sent, chain>>
    PROVE  X402Inv'
<1>1. rows' \in [Payments -> Row] /\ rows'[p] = q
      /\ \A o \in Payments : o # p => rows'[o] = rows[o]
  BY DEF X402Inv
<1>2. \A o \in Payments : Advances(rows[o], rows'[o])
  BY <1>1, AdvancesSame DEF X402Inv
<1>3. \A t : Settled(t) => Settled(t)'
  BY DEF Settled
<1>4. ASSUME NEW o \in Payments PROVE RowOK(o, rows[o])'
  <2>1. PICK r : r = rows'[o]
    OBVIOUS
  <2>2. RowOK(o, r) /\ (r.status = "ABSENT" => items'[o] = items[o])
    BY SMTT(30), <1>1, <2>1 DEF X402Inv, Advances
  <2>3. RowOK(o, r)'
    BY <1>3, <2>2, RowKept
  <2> QED
    BY <2>1, <2>3, RowReached
<1>5. LocalOK(workers[w], rows[workers[w].p])'
  <2>1. LocalOK(s, q)'
    BY <1>3 DEF LocalOK, Terms
  <2>2. workers'[w] = s
    BY DEF X402Inv
  <2> QED
    BY <1>1, <2>1, <2>2, LocalReached
<1> QED
  BY <1>1, <1>2, <1>4, <1>5, Moves

-----------------------------------------------------------------------------
(* The ends of a claim. *)

LEMMA IdleLocal == Idle \in Local /\ Idle.pc = "idle" /\ \A q : LocalOK(Idle, q)
<1>1. Idle \in Local /\ Idle.pc = "idle"
  BY DEF Idle, Local, Outcomes, Transactions
<1> QED
  BY <1>1 DEF LocalOK, Viewers

\* What is left needs nothing of the row but that it exists.
LEMMA Leftover ==
    ASSUME NEW p \in Payments, NEW s \in Local, s.p = p, NEW r, r.status # "ABSENT",
           s.pc \in {"failure", "complete", "retry", "failItem"}
    PROVE  LocalOK(s, r)
BY DEF LocalOK, Viewers

LEMMA SettlingIs ==
    ASSUME NEW s \in Local, NEW pc \in {"complete", "retry", "failItem"}
    PROVE  Settling(s, pc) \in Local /\ Settling(s, pc).p = s.p /\ Settling(s, pc).pc = pc
BY IdleLocal DEF Settling, Local

LEMMA RaisedIs ==
    ASSUME X402Inv, NEW w \in Workers, workers[w].pc # "idle", NEW err \in {"RETRY", "NO_RETRY"},
           Raise(w, err)
    PROVE  \E s \in Local : /\ workers' = [workers EXCEPT ![w] = s]
                            /\ s.pc # "idle" => s.p = workers[w].p
                            /\ \A r : r.status # "ABSENT" => LocalOK(s, r)
<1>1. workers[w] \in Local /\ workers[w].p \in Payments /\ workers[w].failing \in BOOLEAN
  BY DEF X402Inv, LocalOK, Local
<1>2. CASE workers[w].failing
  BY <1>2, IdleLocal DEF Raise, Become
<1>3. CASE ~workers[w].failing
  <2>1. PICK s : s = [Idle EXCEPT !.pc = "failure", !.p = workers[w].p, !.err = err]
    OBVIOUS
  <2>2. s \in Local /\ s.p = workers[w].p /\ s.pc = "failure"
    BY <1>1, <2>1, IdleLocal DEF Local
  <2>3. \A r : r.status # "ABSENT" => LocalOK(s, r)
    BY <1>1, <2>2, Leftover
  <2> QED
    BY <1>3, <2>1, <2>2, <2>3 DEF Raise, Become
<1> QED
  BY <1>2, <1>3

LEMMA Present ==
    ASSUME X402Inv, NEW w \in Workers, workers[w].pc # "idle"
    PROVE  /\ workers[w] \in Local /\ workers[w].p \in Payments
           /\ rows[workers[w].p] \in Row /\ rows[workers[w].p].status # "ABSENT"
           /\ RowOK(workers[w].p, rows[workers[w].p])
           /\ LocalOK(workers[w], rows[workers[w].p])
BY DEF X402Inv, LocalOK

LEMMA RaiseKeeps ==
    ASSUME X402Inv, NEW w \in Workers, workers[w].pc # "idle", NEW err \in {"RETRY", "NO_RETRY"},
           Raise(w, err), UNCHANGED <<offer, asked, rows, items, sent, chain>>
    PROVE  X402Inv'
<1>1. PICK s \in Local : /\ workers' = [workers EXCEPT ![w] = s]
                         /\ s.pc # "idle" => s.p = workers[w].p
                         /\ \A r : r.status # "ABSENT" => LocalOK(s, r)
  BY RaisedIs
<1>2. LocalOK(s, rows[s.p])
  <2>1. CASE s.pc = "idle"
    BY <2>1 DEF LocalOK, Viewers
  <2>2. CASE s.pc # "idle"
    BY <1>1, <2>2, Present
  <2> QED
    BY <2>1, <2>2
<1> QED
  BY <1>1, <1>2, LocalStep

LEMMA EndKeeps ==
    ASSUME X402Inv, NEW w \in Workers, workers[w].pc # "idle",
           NEW pc \in {"complete", "retry", "failItem"}, End(w, pc),
           UNCHANGED <<offer, asked, rows, items, sent, chain>>
    PROVE  X402Inv'
<1>1. PICK s : s = Settling(workers[w], pc)
  OBVIOUS
<1>2. s \in Local /\ s.p = workers[w].p /\ s.pc = pc
  BY <1>1, SettlingIs, Present
<1>3. LocalOK(s, rows[s.p])
  BY <1>2, Leftover, Present
<1> QED
  BY <1>1, <1>2, <1>3, LocalStep DEF End, Become

LEMMA CrashKeeps ==
    ASSUME X402Inv, NEW w \in Workers, Crash(w)
    PROVE  X402Inv'
BY IdleLocal, LocalStep DEF Crash, Become

-----------------------------------------------------------------------------
(* The executor, up to the request. *)

LEMMA ExactAmount ==
    ASSUME NEW a \in Nat, Representable(a)
    PROVE  a = LogicalAmount(a) * AtomicPerUnit
<1>1. AtomicPerUnit \in Nat \ {0}
  BY X402Assumption
<1>2. \A x \in Nat, d \in Nat \ {0} : x = d * (x \div d) + (x % d) /\ x \div d \in Nat
  BY SMTT(30)
<1>3. \A d \in Nat, k \in Nat : d * k + 0 = k * d
  BY SMTT(30)
<1> QED
  BY <1>1, <1>2, <1>3 DEF Representable, LogicalAmount

LEMMA PrepareKeeps ==
    ASSUME X402Inv, NEW w \in Workers, Prepare(w)
    PROVE  X402Inv'
<1>1. workers[w].pc = "prepare" /\ UNCHANGED <<offer, asked, rows, items, sent, chain>>
  BY DEF Prepare, At
<1>2. PICK s : s = workers[w]
  OBVIOUS
<1>3. s \in Local /\ s.p \in Payments /\ LocalOK(s, rows[s.p]) /\ s.pc = "prepare"
  BY <1>1, <1>2, Present
<1>4. CASE \E err \in {"RETRY", "NO_RETRY"} : Raise(w, err)
  BY <1>1, <1>4, RaiseKeeps
<1>5. ASSUME SameTerms(s.p, offer),
             Become(w, [s EXCEPT !.pc = "persistPrepared", !.prepared =
                                    [payment |-> s.p, by |-> w, offer |-> offer]])
      PROVE  X402Inv'
  <2>1. PICK t : t = [payment |-> s.p, by |-> w, offer |-> offer]
    OBVIOUS
  <2>2. PICK x : x = [s EXCEPT !.pc = "persistPrepared", !.prepared = t]
    OBVIOUS
  <2>3. offer \in Offers /\ Representable(offer.amount) /\ offer.amount <= Cap
        /\ LogicalAmount(offer.amount) = rows[s.p].amount /\ offer.payTo = rows[s.p].payTo
    BY <1>5 DEF SameTerms, Payable, X402Inv
  <2>4. t \in Payload /\ t.payment = s.p /\ t.offer = offer
    BY <1>3, <2>1, <2>3 DEF Payload
  <2>5. offer.amount = rows[s.p].amount * AtomicPerUnit
    BY <2>3, ExactAmount, X402Assumption
  <2>6. Terms(s.p, rows[s.p], t)
    BY <2>3, <2>4, <2>5 DEF Terms
  <2>7. x \in Local /\ x.pc = "persistPrepared" /\ x.prepared = t /\ x.p = s.p
        /\ x.rv = s.rv
    BY <1>3, <2>2, <2>4 DEF Local, Transactions, Viewers
  <2>8. LocalOK(x, rows[x.p])
    BY <1>3, <2>4, <2>6, <2>7 DEF LocalOK, Viewers
  <2> QED
    BY <1>1, <1>5, <2>1, <2>2, <2>7, <2>8, LocalStep DEF Become
<1> QED
  BY <1>2, <1>4, <1>5 DEF Prepare, TokenAccountErrors

LEMMA ViewingIs ==
    ASSUME NEW s \in Local, rows[s.p] \in Row
    PROVE  /\ Viewing(s) \in Local
           /\ Viewing(s).pc = s.pc /\ Viewing(s).p = s.p /\ Viewing(s).err = s.err
           /\ Viewing(s).rv = rows[s.p].rv /\ Viewing(s).outcome = rows[s.p].outcome
           /\ Viewing(s).prepared = rows[s.p].prepared /\ Viewing(s).signed = rows[s.p].signed
<1>1. PICK r : r = rows[s.p] /\ r \in Row
  OBVIOUS
<1>2. Viewing(s) = [s EXCEPT !.pv = r.pv, !.rv = r.rv, !.outcome = r.outcome,
                      !.prepared = r.prepared, !.signed = r.signed, !.external = r.external]
  BY <1>1 DEF Viewing
<1>3. r.pv \in Nat /\ r.rv \in Nat /\ r.outcome \in Outcomes /\ r.prepared \in Transactions
      /\ r.signed \in BOOLEAN /\ r.external \in Transactions
  BY <1>1 DEF Row
<1> QED
  BY <1>1, <1>2, <1>3 DEF Local

\* A signing request is settled, and nothing else changes of the row.
LEMMA RequestIs ==
    ASSUME NEW p \in Payments, NEW r \in Row, RowOK(p, r), r.status # "ABSENT",
           NEW c \in {"PENDING", "SIGNED", "REJECTED"}
    PROVE  /\ [r EXCEPT !.request = c] \in Row /\ [r EXCEPT !.request = c].status = r.status
           /\ Advances(r, [r EXCEPT !.request = c]) /\ RowOK(p, [r EXCEPT !.request = c])
<1>1. PICK q : q = [r EXCEPT !.request = c]
  OBVIOUS
<1>2. /\ q \in Row /\ q.prepared = r.prepared /\ q.rv = r.rv /\ q.status = r.status
      /\ q.amount = r.amount /\ q.payTo = r.payTo /\ q.signed = r.signed
      /\ q.outcome = r.outcome /\ r.rv \in Nat
  BY <1>1 DEF Row
<1>3. Advances(r, q)
  BY SMTT(30), <1>2 DEF Advances
<1>4. RowOK(p, q)
  BY <1>2 DEF RowOK, Terms
<1> QED
  BY <1>1, <1>2, <1>3, <1>4

LEMMA RecheckKeeps ==
    ASSUME X402Inv, NEW w \in Workers, Recheck(w)
    PROVE  X402Inv'
<1>1. workers[w].pc = "recheck" /\ UNCHANGED <<offer, asked, items, sent, chain>>
  BY DEF Recheck, At
<1>2. PICK s : s = workers[w]
  OBVIOUS
<1>3. PICK p \in Payments : p = s.p
  BY <1>1, <1>2, Present
<1>4. PICK r : r = rows[p]
  OBVIOUS
<1>5. s \in Local /\ r \in Row /\ r.status # "ABSENT" /\ RowOK(p, r) /\ LocalOK(s, r)
      /\ s.pc = "recheck"
  BY <1>1, <1>2, <1>3, <1>4, Present
<1>6. CASE Raise(w, "RETRY") /\ UNCHANGED rows
  BY <1>1, <1>6, RaiseKeeps
<1>7. CASE /\ rows' = [rows EXCEPT ![p].request = "SIGNED"]
           /\ Become(w, [Viewing(s) EXCEPT !.pc = "send"])
  <2>1. PICK v : v = Viewing(s)
    OBVIOUS
  <2>2. v \in Local /\ v.p = p /\ v.rv = r.rv /\ v.prepared = r.prepared
    BY <1>3, <1>4, <1>5, <2>1, ViewingIs
  <2>3. PICK x : x = [v EXCEPT !.pc = "send"]
    OBVIOUS
  <2>4. x \in Local /\ x.pc = "send" /\ x.p = p /\ x.rv = r.rv /\ x.prepared = r.prepared
    BY <2>2, <2>3 DEF Local, Viewers
  <2>5. PICK q : q = [r EXCEPT !.request = "SIGNED"]
    OBVIOUS
  <2>6. /\ q \in Row /\ q.prepared = r.prepared /\ q.rv = r.rv /\ q.signed = r.signed
        /\ q.status = r.status /\ r.rv \in Nat
    BY <1>5, <2>5 DEF Row
  <2>7. Advances(r, q) /\ RowOK(p, q)
    BY <1>5, <2>5, RequestIs
  <2>8. r.signed
    BY <1>5 DEF LocalOK
  <2>9. LocalOK(x, q)
    BY SMTT(30), <1>5, <2>4, <2>6, <2>8 DEF LocalOK
  <2>10. rows' = [rows EXCEPT ![p] = q] /\ workers' = [workers EXCEPT ![w] = x]
    BY <1>4, <1>7, <2>1, <2>3, <2>5 DEF Become
  <2>11. DOMAIN items' = Payments /\ \A o \in Payments : o # p => items'[o] = items[o]
    BY <1>1 DEF X402Inv
  <2> QED
    BY <1>1, <1>4, <1>5, <2>4, <2>6, <2>7, <2>9, <2>10, <2>11, RowStep
<1> QED
  BY <1>2, <1>3, <1>6, <1>7 DEF Recheck

\* A worker whose request may have had an effect.
Asking == {"send", "answer", "reconcile"}

LEMMA UnknownKeeps ==
    ASSUME X402Inv, NEW w \in Workers, workers[w].pc \in Asking, NEW t \in Transactions,
           Unknown(w, t), UNCHANGED <<offer, asked, rows, items, sent, chain>>
    PROVE  X402Inv'
<1>1. PICK s : s = workers[w]
  OBVIOUS
<1>2. s \in Local /\ s.p \in Payments /\ LocalOK(s, rows[s.p]) /\ s.pc # "idle"
  BY <1>1, Present DEF Asking
<1>3. CASE End(w, "retry")
  BY <1>1, <1>2, <1>3, EndKeeps
<1>4. CASE Become(w, [s EXCEPT !.pc = "update", !.found = t])
  <2>1. PICK x : x = [s EXCEPT !.pc = "update", !.found = t]
    OBVIOUS
  <2>2. x \in Local /\ x.pc = "update" /\ x.p = s.p /\ x.rv = s.rv
    BY <1>2, <2>1 DEF Local, Viewers
  <2>3. LocalOK(x, rows[x.p])
    BY <1>1, <1>2, <2>2 DEF LocalOK, Asking, Viewers
  <2> QED
    BY <1>4, <2>1, <2>2, <2>3, LocalStep DEF Become
<1> QED
  BY <1>1, <1>3, <1>4 DEF Unknown

LEMMA ConfirmedByKeeps ==
    ASSUME X402Inv, NEW w \in Workers, workers[w].pc \in Asking, NEW t \in Transactions,
           Observed(t, workers[w].prepared) = "CONFIRMED", ConfirmedBy(w, t),
           UNCHANGED <<offer, asked, rows, items, sent, chain>>
    PROVE  X402Inv'
<1>1. PICK s : s = workers[w]
  OBVIOUS
<1>2. s \in Local /\ s.p \in Payments /\ LocalOK(s, rows[s.p]) /\ s.pc # "idle"
  BY <1>1, Present DEF Asking
<1>3. t = s.prepared /\ ChainState(t) \notin {"none", "processed", "failed"}
  BY <1>1 DEF Observed, SameMessage
<1>4. Settled(s.prepared)
  BY <1>3 DEF ChainState, Settled, X402Inv
<1>5. PICK x : x = [s EXCEPT !.pc = "finalize", !.goal = "CONFIRMED", !.found = t]
  OBVIOUS
<1>6. x \in Local /\ x.pc = "finalize" /\ x.p = s.p /\ x.rv = s.rv /\ x.goal = "CONFIRMED"
  BY <1>2, <1>5 DEF Local, Viewers
<1>7. rows[s.p].signed /\ s.prepared = rows[s.p].prepared
  BY <1>1, <1>2 DEF LocalOK, Asking
<1>8. LocalOK(x, rows[x.p])
  BY <1>1, <1>2, <1>4, <1>6, <1>7 DEF LocalOK, Asking, Viewers
<1> QED
  BY <1>1, <1>5, <1>6, <1>8, LocalStep DEF ConfirmedBy, Become

LEMMA SendKeeps ==
    ASSUME X402Inv, NEW w \in Workers, Send(w)
    PROVE  X402Inv'
<1>1. workers[w].pc = "send" /\ UNCHANGED <<offer, asked, rows, items, chain>>
  BY DEF Send, At
<1>2. CASE Unknown(w, NoTx) /\ UNCHANGED sent
  BY <1>1, <1>2, UnknownKeeps DEF Asking, Transactions
<1>3. CASE sent' = sent \cup {workers[w].prepared} /\ Goto(w, "answer")
  <2>1. PICK s : s = workers[w]
    OBVIOUS
  <2>2. PICK p \in Payments : p = s.p
    BY <1>1, <2>1, Present
  <2>3. PICK r : r = rows[p]
    OBVIOUS
  <2>4. s \in Local /\ r \in Row /\ LocalOK(s, r) /\ RowOK(p, r) /\ s.pc = "send"
    BY <1>1, <2>1, <2>2, <2>3, Present
  <2>5. PICK x : x = [s EXCEPT !.pc = "answer"]
    OBVIOUS
  <2>6. x \in Local /\ x.pc = "answer" /\ x.p = p /\ x.rv = s.rv /\ x.prepared = s.prepared
    BY <2>2, <2>4, <2>5 DEF Local, Viewers
  <2>7. r.signed /\ s.prepared = r.prepared /\ r.prepared.payment = p
    BY <2>4 DEF LocalOK, RowOK, Terms
  <2>8. workers' = [workers EXCEPT ![w] = x] /\ workers'[w] = x
    BY <1>3, <2>1, <2>5 DEF Goto, Become, X402Inv
  <2>9. rows' \in [Payments -> Row] /\ DOMAIN items' = Payments
        /\ \A o \in Payments : Advances(rows[o], rows'[o])
    BY <1>1, AdvancesSame DEF X402Inv
  <2>10. \A t : Settled(t) => Settled(t)'
    BY <1>1 DEF Settled
  <2>11. ASSUME NEW o \in Payments PROVE RowOK(o, rows[o])'
    <3>1. PICK q : q = rows[o]
      OBVIOUS
    <3>2. RowOK(o, q)'
      BY <1>1, <2>10, <3>1, RowKept DEF X402Inv
    <3> QED
      BY <1>1, <3>1, <3>2, RowReached
  <2>12. LocalOK(x, r)'
    BY <2>4, <2>6, <2>7 DEF LocalOK, Viewers
  <2>13. LocalOK(workers[w], rows[workers[w].p])'
    BY <1>1, <2>3, <2>6, <2>8, <2>12, LocalReached
  <2>14. \A t \in sent' : t \notin sent => /\ t.payment \in Payments /\ rows[t.payment].signed
                                           /\ rows[t.payment].prepared = t
    BY <1>3, <2>1, <2>3, <2>7
  <2>15. sent \subseteq sent'
    BY <1>3
  <2> QED
    BY <1>1, <2>6, <2>8, <2>9, <2>11, <2>13, <2>14, <2>15, Moves
<1> QED
  BY <1>2, <1>3 DEF Send

LEMMA SentAreTransactions ==
    ASSUME X402Inv
    PROVE  Nameable \subseteq Transactions
<1>1. ASSUME NEW t \in sent PROVE t \in Transactions
  <2>1. PICK p \in Payments : rows[p].prepared = t
    BY DEF X402Inv
  <2>2. rows[p] \in Row
    BY DEF X402Inv
  <2> QED
    BY <2>1, <2>2 DEF Row
<1> QED
  BY <1>1 DEF Nameable, Transactions

LEMMA AnswerKeeps ==
    ASSUME X402Inv, NEW w \in Workers, Answer(w)
    PROVE  X402Inv'
<1>1. workers[w].pc = "answer" /\ UNCHANGED <<offer, asked, rows, items, sent, chain>>
  BY DEF Answer, At
<1>2. workers[w].pc \in Asking /\ workers[w].pc # "idle"
  BY <1>1 DEF Asking
<1>3. CASE Unknown(w, NoTx)
  BY <1>1, <1>2, <1>3, UnknownKeeps DEF Transactions
<1>4. CASE Raise(w, "NO_RETRY")
  BY <1>1, <1>2, <1>4, RaiseKeeps
<1>5. ASSUME NEW t \in Nameable,
             \/ Observed(t, workers[w].prepared) = "CONFIRMED" /\ ConfirmedBy(w, t)
             \/ Unknown(w, t)
      PROVE  X402Inv'
  <2>1. t \in Transactions
    BY SentAreTransactions
  <2> QED
    BY <1>1, <1>2, <1>5, <2>1, ConfirmedByKeeps, UnknownKeeps
<1> QED
  BY <1>3, <1>4, <1>5 DEF Answer

LEMMA ReconcileKeeps ==
    ASSUME X402Inv, NEW w \in Workers, Reconcile(w)
    PROVE  X402Inv'
<1>1. workers[w].pc = "reconcile" /\ UNCHANGED <<offer, asked, rows, items, sent, chain>>
  BY DEF Reconcile, At
<1>2. workers[w].pc \in Asking /\ workers[w].pc # "idle"
  BY <1>1 DEF Asking
<1>3. PICK s : s = workers[w]
  OBVIOUS
<1>4. s \in Local /\ s.p \in Payments /\ LocalOK(s, rows[s.p]) /\ s.pc = "reconcile"
  BY <1>1, <1>3, Present
<1>5. PICK t : t = IF s.external # NoTx THEN s.external ELSE s.prepared
  OBVIOUS
<1>6. t \in Transactions /\ NoTx \in Transactions
  BY <1>4, <1>5 DEF Local, Transactions
<1>7. CASE Unknown(w, NoTx) \/ Unknown(w, t)
  BY <1>1, <1>2, <1>6, <1>7, UnknownKeeps
<1>8. CASE Observed(t, s.prepared) = "CONFIRMED" /\ ConfirmedBy(w, t)
  BY <1>1, <1>2, <1>3, <1>6, <1>8, ConfirmedByKeeps
<1>9. CASE Raise(w, "RETRY")
  BY <1>1, <1>2, <1>9, RaiseKeeps
<1>10. CASE Goto(w, "send")
  <2>1. PICK x : x = [s EXCEPT !.pc = "send"]
    OBVIOUS
  <2>2. x \in Local /\ x.pc = "send" /\ x.p = s.p /\ x.rv = s.rv /\ x.prepared = s.prepared
    BY <1>4, <2>1 DEF Local, Viewers
  <2>3. LocalOK(x, rows[x.p])
    BY <1>4, <2>2 DEF LocalOK, Viewers
  <2> QED
    BY <1>1, <1>3, <1>10, <2>1, <2>2, <2>3, LocalStep DEF Goto, Become
<1> QED
  BY <1>3, <1>5, <1>7, <1>8, <1>9, <1>10 DEF Reconcile

LEMMA HandleFailureKeeps ==
    ASSUME X402Inv, NEW w \in Workers, HandleFailure(w)
    PROVE  X402Inv'
<1>1. workers[w].pc = "failure" /\ UNCHANGED <<offer, asked, rows, items, sent, chain>>
  BY DEF HandleFailure, At
<1>2. PICK z : z = workers[w]
  OBVIOUS
<1>3. PICK r : r = rows[z.p]
  OBVIOUS
<1>4. z \in Local /\ z.p \in Payments /\ r \in Row /\ r.status # "ABSENT" /\ RowOK(z.p, r)
  BY <1>1, <1>2, <1>3, Present
<1>5. PICK v : v = Viewing(z)
  OBVIOUS
<1>6. v \in Local /\ v.p = z.p /\ v.rv = r.rv /\ v.outcome = r.outcome /\ v.signed = r.signed
  BY <1>3, <1>4, <1>5, ViewingIs
<1>7. PICK s : s = [v EXCEPT !.failing = TRUE]
  OBVIOUS
<1>8. s \in Local /\ s.p = z.p /\ s.rv = r.rv /\ s.outcome = r.outcome /\ s.signed = r.signed
  BY <1>6, <1>7 DEF Local
<1>9. r.rv \in Nat /\ r.signed \in BOOLEAN
  BY <1>4 DEF Row
<1>10. CASE r.signed /\ Become(w, [s EXCEPT !.pc = "update"])
  <2>1. PICK x : x = [s EXCEPT !.pc = "update"]
    OBVIOUS
  <2>2. x \in Local /\ x.pc = "update" /\ x.p = z.p /\ x.rv = r.rv
    BY <1>8, <2>1 DEF Local, Viewers
  <2>3. LocalOK(x, rows[x.p])
    BY SMTT(30), <1>3, <1>4, <1>9, <1>10, <2>2 DEF LocalOK
  <2> QED
    BY <1>1, <1>10, <2>1, <2>2, <2>3, LocalStep DEF Become
<1>11. CASE ~r.signed /\ Become(w, [s EXCEPT !.pc = "finalize", !.goal = "FAILED"])
  <2>1. PICK x : x = [s EXCEPT !.pc = "finalize", !.goal = "FAILED"]
    OBVIOUS
  <2>2. x \in Local /\ x.pc = "finalize" /\ x.goal = "FAILED" /\ x.p = z.p /\ x.rv = r.rv
    BY <1>8, <2>1 DEF Local, Viewers
  <2>3. LocalOK(x, rows[x.p])
    BY SMTT(30), <1>3, <1>4, <1>9, <1>11, <2>2 DEF LocalOK
  <2> QED
    BY <1>1, <1>11, <2>1, <2>2, <2>3, LocalStep DEF Become
<1>12. ASSUME NEW pc \in {"failItem", "retry"}, Become(w, Settling(s, pc)) PROVE X402Inv'
  <2>1. PICK x : x = Settling(s, pc)
    OBVIOUS
  <2>2. x \in Local /\ x.p = z.p /\ x.pc = pc
    BY SMTT(30), <1>8, <2>1, SettlingIs
  <2>3. LocalOK(x, rows[x.p])
    BY <1>3, <1>4, <2>2, Leftover
  <2> QED
    BY <1>1, <1>12, <2>1, <2>2, <2>3, LocalStep DEF Become
<1>13. [Viewing(workers[w]) EXCEPT !.failing = TRUE] = s
  BY <1>2, <1>5, <1>7
<1> QED
  BY <1>8, <1>10, <1>11, <1>12, <1>13 DEF HandleFailure

-----------------------------------------------------------------------------
(* Writes to the attempt and to the payment. *)

LEMMA PersistPreparedKeeps ==
    ASSUME X402Inv, NEW w \in Workers, PersistPrepared(w)
    PROVE  X402Inv'
<1>1. workers[w].pc = "persistPrepared" /\ UNCHANGED <<offer, asked, items, sent, chain>>
  BY DEF PersistPrepared, At
<1>2. PICK s : s = workers[w]
  OBVIOUS
<1>3. PICK p \in Payments : p = s.p
  BY <1>1, <1>2, Present
<1>4. PICK r : r = rows[p]
  OBVIOUS
<1>5. s \in Local /\ r \in Row /\ r.status # "ABSENT" /\ RowOK(p, r) /\ LocalOK(s, r)
      /\ s.pc = "persistPrepared"
  BY <1>1, <1>2, <1>3, <1>4, Present
<1>6. CASE Raise(w, "RETRY") /\ UNCHANGED rows
  BY <1>1, <1>6, RaiseKeeps
<1>7. CASE /\ AttemptUnchanged(s)
           /\ rows' = [rows EXCEPT ![p].prepared = s.prepared, ![p].rv = @ + 1]
           /\ Become(w, [s EXCEPT !.pc = "sign", !.rv = @ + 1])
  <2> DEFINE n == r.rv + 1
  <2>0. r.rv \in Nat /\ n \in Nat /\ r.rv < n /\ n # r.rv /\ r.rv <= n
    BY SMTT(30), <1>5 DEF Row
  <2> HIDE DEF n
  <2>1. PICK q : q = [r EXCEPT !.prepared = s.prepared, !.rv = n]
    OBVIOUS
  <2>2. PICK x : x = [s EXCEPT !.pc = "sign", !.rv = n]
    OBVIOUS
  <2>3. rows' = [rows EXCEPT ![p] = q]
    BY <1>4, <1>7, <2>1 DEF X402Inv, n
  <2>4. r.rv = s.rv /\ r.rv \in Nat /\ s.prepared \in Payload /\ Terms(p, r, s.prepared)
        /\ r.prepared = NoPayload
    BY <1>3, <1>4, <1>5, <1>7 DEF AttemptUnchanged, LocalOK, Row
  <2>5. /\ q \in Row /\ q.prepared = s.prepared /\ q.rv = n /\ q.status = r.status
        /\ q.amount = r.amount /\ q.payTo = r.payTo /\ q.signed = r.signed
        /\ q.outcome = r.outcome /\ q.reservation = r.reservation
    BY <1>5, <2>0, <2>1, <2>4 DEF Row, Transactions
  <2>6. x \in Local /\ x.pc = "sign" /\ x.p = p /\ x.rv = n
    BY <1>3, <1>5, <2>0, <2>2 DEF Local, Viewers
  <2>7. ~r.signed
    BY <1>5, <2>4 DEF RowOK
  <2>8. Advances(r, q)
    BY <2>0, <2>4, <2>5, <2>7 DEF Advances
  <2>9. s.prepared # NoPayload
    BY <2>4, EarlierAssumption
  <2>10. RowOK(p, q)
    BY <1>5, <2>4, <2>5, <2>7, <2>9 DEF RowOK, Terms
  <2>11. LocalOK(x, q)
    BY SMTT(30), <1>5, <2>0, <2>4, <2>5, <2>6, <2>9 DEF LocalOK
  <2>12. workers' = [workers EXCEPT ![w] = x]
    <3>1. s.rv + 1 = n
      BY <2>4 DEF n
    <3> QED
      BY <1>7, <2>2, <3>1 DEF Become
  <2>13. DOMAIN items' = Payments /\ \A o \in Payments : o # p => items'[o] = items[o]
    BY <1>1 DEF X402Inv
  <2> QED
    BY <1>1, <1>4, <1>5, <2>3, <2>5, <2>6, <2>8, <2>10, <2>11, <2>12, <2>13, RowStep
<1> QED
  BY <1>2, <1>3, <1>6, <1>7 DEF PersistPrepared

LEMMA SignKeeps ==
    ASSUME X402Inv, NEW w \in Workers, Sign(w)
    PROVE  X402Inv'
<1>1. workers[w].pc = "sign" /\ UNCHANGED <<offer, asked, items, sent, chain>>
  BY DEF Sign, At
<1>2. PICK s : s = workers[w]
  OBVIOUS
<1>3. PICK p \in Payments : p = s.p
  BY <1>1, <1>2, Present
<1>4. PICK r : r = rows[p]
  OBVIOUS
<1>5. s \in Local /\ r \in Row /\ r.status # "ABSENT" /\ RowOK(p, r) /\ LocalOK(s, r)
      /\ s.pc = "sign"
  BY <1>1, <1>2, <1>3, <1>4, Present
<1>6. CASE Raise(w, "RETRY") /\ UNCHANGED rows
  BY <1>1, <1>6, RaiseKeeps
<1>7. CASE /\ AttemptUnchanged(s)
           /\ rows' = [rows EXCEPT ![p].signed = TRUE, ![p].rv = @ + 1]
           /\ Goto(w, "recheck")
  <2> DEFINE n == r.rv + 1
  <2>0. r.rv \in Nat /\ n \in Nat /\ r.rv < n /\ n # r.rv /\ r.rv <= n
    BY SMTT(30), <1>5 DEF Row
  <2> HIDE DEF n
  <2>1. PICK q : q = [r EXCEPT !.signed = TRUE, !.rv = n]
    OBVIOUS
  <2>2. PICK x : x = [s EXCEPT !.pc = "recheck"]
    OBVIOUS
  <2>3. rows' = [rows EXCEPT ![p] = q]
    BY <1>4, <1>7, <2>1 DEF X402Inv, n
  <2>4. r.rv \in Nat /\ s.rv \in Nat /\ r.prepared # NoPayload /\ s.rv <= r.rv
    BY <1>3, <1>4, <1>5, <1>7 DEF AttemptUnchanged, LocalOK, Row, Local, Viewers
  <2>5. /\ q \in Row /\ q.prepared = r.prepared /\ q.rv = n /\ q.status = r.status
        /\ q.amount = r.amount /\ q.payTo = r.payTo /\ q.signed
        /\ q.outcome = r.outcome /\ q.reservation = r.reservation
    BY <1>5, <2>0, <2>1, <2>4 DEF Row
  <2>6. x \in Local /\ x.pc = "recheck" /\ x.p = p /\ x.rv = s.rv
    BY <1>3, <1>5, <2>2 DEF Local, Viewers
  <2>7. Advances(r, q)
    BY <2>0, <2>4, <2>5 DEF Advances
  <2>8. RowOK(p, q)
    BY <1>5, <2>4, <2>5 DEF RowOK, Terms
  <2>9. LocalOK(x, q)
    BY SMTT(30), <1>5, <2>0, <2>4, <2>5, <2>6 DEF LocalOK
  <2> QED
    BY <1>1, <1>2, <1>4, <1>5, <1>7, <2>2, <2>3, <2>5, <2>6, <2>7, <2>8, <2>9, RowStep
       DEF Goto, Become, X402Inv
<1>8. ASSUME NEW err \in {"RETRY", "NO_RETRY"}, Raise(w, err),
             rows' = [rows EXCEPT ![p].request = IF @ = "PENDING" THEN "REJECTED" ELSE @]
      PROVE  X402Inv'
  <2>1. PICK c : c = IF r.request = "PENDING" THEN "REJECTED" ELSE r.request
    OBVIOUS
  <2>2. c \in {"PENDING", "SIGNED", "REJECTED"}
    BY <1>5, <2>1 DEF Row
  <2>3. PICK q : q = [r EXCEPT !.request = c]
    OBVIOUS
  <2>4. q \in Row /\ q.status = r.status /\ Advances(r, q) /\ RowOK(p, q)
    BY <1>5, <2>2, <2>3, RequestIs
  <2>5. rows' = [rows EXCEPT ![p] = q]
    BY <1>4, <1>8, <2>1, <2>3
  <2>6. PICK x \in Local : /\ workers' = [workers EXCEPT ![w] = x]
                           /\ x.pc # "idle" => x.p = p
                           /\ LocalOK(x, q)
    BY <1>1, <1>2, <1>3, <1>5, <1>8, <2>4, RaisedIs
  <2>7. DOMAIN items' = Payments /\ \A o \in Payments : o # p => items'[o] = items[o]
    BY <1>1 DEF X402Inv
  <2> QED
    BY <1>1, <1>4, <1>5, <2>4, <2>5, <2>6, <2>7, RowStep
<1> QED
  BY <1>2, <1>3, <1>6, <1>7, <1>8 DEF Sign, SigningErrors

\* The worker ends its claim with what is left.
LEMMA EndedIs ==
    ASSUME X402Inv, NEW w \in Workers, workers[w].pc # "idle",
           NEW pc \in {"complete", "retry", "failItem"}, End(w, pc)
    PROVE  \E x \in Local : /\ workers' = [workers EXCEPT ![w] = x]
                            /\ x.p = workers[w].p
                            /\ \A r : r.status # "ABSENT" => LocalOK(x, r)
<1>1. PICK x : x = Settling(workers[w], pc)
  OBVIOUS
<1>2. x \in Local /\ x.p = workers[w].p /\ x.pc = pc
  BY <1>1, SettlingIs, Present
<1>3. \A r : r.status # "ABSENT" => LocalOK(x, r)
  BY <1>2, Leftover, Present
<1> QED
  BY <1>1, <1>2, <1>3 DEF End, Become

LEMMA UpdateAttemptOutcomeKeeps ==
    ASSUME X402Inv, NEW w \in Workers, UpdateAttemptOutcome(w)
    PROVE  X402Inv'
<1>1. workers[w].pc = "update" /\ UNCHANGED <<offer, asked, items, sent, chain>>
  BY DEF UpdateAttemptOutcome, At
<1>2. PICK s : s = workers[w]
  OBVIOUS
<1>3. PICK p \in Payments : p = s.p
  BY <1>1, <1>2, Present
<1>4. PICK r : r = rows[p]
  OBVIOUS
<1>5. s \in Local /\ r \in Row /\ r.status # "ABSENT" /\ RowOK(p, r) /\ LocalOK(s, r)
      /\ s.pc = "update"
  BY <1>1, <1>2, <1>3, <1>4, Present
<1>6. CASE Raise(w, "RETRY") /\ UNCHANGED rows
  BY <1>1, <1>6, RaiseKeeps
<1>7. CASE /\ AttemptUnchanged(s)
           /\ rows' = [rows EXCEPT ![p].outcome = "UNKNOWN", ![p].rv = @ + 1,
                                   ![p].external = IF s.found = NoTx THEN @ ELSE s.found]
           /\ IF s.reconciling THEN End(w, "retry") ELSE Goto(w, "project")
  <2> DEFINE n == r.rv + 1
  <2>0. r.rv \in Nat /\ s.rv \in Nat /\ n \in Nat /\ r.rv <= n /\ n # r.rv /\ s.rv <= r.rv
        /\ s.rv <= n /\ r.signed /\ r.signed \in BOOLEAN
    BY SMTT(30), <1>5 DEF Row, Local, LocalOK, Viewers
  <2> HIDE DEF n
  <2>1. PICK e : e = IF s.found = NoTx THEN r.external ELSE s.found
    OBVIOUS
  <2>2. PICK q : q = [r EXCEPT !.outcome = "UNKNOWN", !.rv = n, !.external = e]
    OBVIOUS
  <2>3. rows' = [rows EXCEPT ![p] = q]
    BY <1>4, <1>7, <2>1, <2>2 DEF X402Inv, n
  <2>4. e \in Transactions
    BY <1>5, <2>1 DEF Row, Local
  <2>5. /\ q \in Row /\ q.prepared = r.prepared /\ q.rv = n /\ q.status = r.status
        /\ q.amount = r.amount /\ q.payTo = r.payTo /\ q.signed = r.signed
        /\ q.outcome = "UNKNOWN" /\ q.reservation = r.reservation
    BY <1>5, <2>0, <2>2, <2>4 DEF Row, Outcomes
  <2>6. Advances(r, q)
    BY <2>0, <2>5 DEF Advances
  <2>8. RowOK(p, q)
    BY <1>5, <2>0, <2>5 DEF RowOK, Terms
  <2>9. DOMAIN items' = Payments /\ \A o \in Payments : o # p => items'[o] = items[o]
    BY <1>1 DEF X402Inv
  <2>10. \E x \in Local : workers' = [workers EXCEPT ![w] = x] /\ x.p = p /\ LocalOK(x, q)
    <3>1. CASE End(w, "retry")
      BY <1>1, <1>2, <1>3, <1>5, <2>5, <3>1, EndedIs
    <3>2. CASE Goto(w, "project")
      <4>1. PICK x : x = [s EXCEPT !.pc = "project"]
        OBVIOUS
      <4>2. x \in Local /\ x.pc = "project" /\ x.p = p /\ x.rv = s.rv
        BY <1>3, <1>5, <4>1 DEF Local, Viewers
      <4>3. LocalOK(x, q)
        BY <1>5, <2>0, <2>5, <4>2 DEF LocalOK
      <4> QED
        BY <1>2, <3>2, <4>1, <4>2, <4>3 DEF Goto, Become
    <3> QED
      BY <1>7, <3>1, <3>2
  <2> QED
    BY <1>1, <1>4, <1>5, <2>3, <2>5, <2>6, <2>8, <2>9, <2>10, RowStep
<1> QED
  BY <1>2, <1>3, <1>6, <1>7 DEF UpdateAttemptOutcome

LEMMA UpdatePaymentExecutionKeeps ==
    ASSUME X402Inv, NEW w \in Workers, UpdatePaymentExecution(w)
    PROVE  X402Inv'
<1>1. workers[w].pc = "project" /\ UNCHANGED <<offer, asked, items, sent, chain>>
  BY DEF UpdatePaymentExecution, At
<1>2. PICK s : s = workers[w]
  OBVIOUS
<1>3. PICK p \in Payments : p = s.p
  BY <1>1, <1>2, Present
<1>4. PICK r : r = rows[p]
  OBVIOUS
<1>5. s \in Local /\ r \in Row /\ r.status # "ABSENT" /\ RowOK(p, r)
  BY <1>1, <1>2, <1>3, <1>4, Present
<1>6. CASE Raise(w, "RETRY") /\ UNCHANGED rows
  BY <1>1, <1>6, RaiseKeeps
<1>7. CASE /\ r.outcome = "UNKNOWN"
           /\ rows' = [rows EXCEPT ![p].status = "RECONCILING", ![p].pv = @ + 1]
           /\ End(w, "retry")
  <2>1. PICK n : n = r.pv + 1 /\ n \in Nat
    BY SMTT(30), <1>5 DEF Row
  <2>2. PICK q : q = [r EXCEPT !.status = "RECONCILING", !.pv = n]
    OBVIOUS
  <2>3. rows' = [rows EXCEPT ![p] = q]
    BY <1>4, <1>7, <2>1, <2>2 DEF X402Inv
  <2>4. /\ q \in Row /\ q.prepared = r.prepared /\ q.rv = r.rv /\ q.status = "RECONCILING"
        /\ q.amount = r.amount /\ q.payTo = r.payTo /\ q.signed = r.signed
        /\ q.outcome = r.outcome /\ q.reservation = r.reservation /\ r.rv \in Nat
    BY <1>5, <2>1, <2>2 DEF Row
  <2>5. Advances(r, q)
    BY SMTT(30), <1>5, <2>4 DEF Advances
  <2>6. RowOK(p, q)
    BY <1>5, <1>7, <2>4 DEF RowOK, Terms
  <2>7. DOMAIN items' = Payments /\ \A o \in Payments : o # p => items'[o] = items[o]
    BY <1>1 DEF X402Inv
  <2>8. \E x \in Local : workers' = [workers EXCEPT ![w] = x] /\ x.p = p /\ LocalOK(x, q)
    BY <1>1, <1>2, <1>3, <1>7, <2>4, EndedIs
  <2> QED
    BY <1>1, <1>4, <1>5, <2>3, <2>4, <2>5, <2>6, <2>7, <2>8, RowStep
<1> QED
  BY <1>2, <1>3, <1>4, <1>6, <1>7 DEF UpdatePaymentExecution

LEMMA FinalizeCheckKeeps ==
    ASSUME X402Inv, NEW w \in Workers, FinalizeCheck(w)
    PROVE  X402Inv'
<1>1. workers[w].pc = "finalize" /\ UNCHANGED <<offer, asked, rows, items, sent, chain>>
  BY DEF FinalizeCheck, At
<1>2. CASE Raise(w, "RETRY")
  BY <1>1, <1>2, RaiseKeeps
<1>3. CASE Goto(w, "finalizeWrite")
  <2>1. PICK s : s = workers[w]
    OBVIOUS
  <2>2. s \in Local /\ s.p \in Payments /\ LocalOK(s, rows[s.p]) /\ s.pc = "finalize"
    BY <1>1, <2>1, Present
  <2>3. PICK x : x = [s EXCEPT !.pc = "finalizeWrite"]
    OBVIOUS
  <2>4. x \in Local /\ x.pc = "finalizeWrite" /\ x.p = s.p /\ x.rv = s.rv /\ x.goal = s.goal
    BY <2>2, <2>3 DEF Local, Viewers
  <2>5. LocalOK(x, rows[x.p])
    BY <2>2, <2>4 DEF LocalOK, Viewers
  <2> QED
    BY <1>1, <1>3, <2>1, <2>3, <2>4, <2>5, LocalStep DEF Goto, Become
<1> QED
  BY <1>2, <1>3 DEF FinalizeCheck

LEMMA FinalizeWriteKeeps ==
    ASSUME X402Inv, NEW w \in Workers, FinalizeWrite(w)
    PROVE  X402Inv'
<1>1. workers[w].pc = "finalizeWrite" /\ UNCHANGED <<offer, asked, items, sent, chain>>
      /\ End(w, "complete")
  BY DEF FinalizeWrite, At
<1>2. PICK s : s = workers[w]
  OBVIOUS
<1>3. PICK p \in Payments : p = s.p
  BY <1>1, <1>2, Present
<1>4. PICK r : r = rows[p]
  OBVIOUS
<1>5. s \in Local /\ r \in Row /\ r.status # "ABSENT" /\ RowOK(p, r) /\ LocalOK(s, r)
      /\ s.pc = "finalizeWrite"
  BY <1>1, <1>2, <1>3, <1>4, Present
<1> DEFINE n == r.rv + 1
           m == r.pv + 1
<1>6. r.rv \in Nat /\ n \in Nat /\ m \in Nat /\ r.rv <= n /\ n # r.rv
  BY SMTT(30), <1>5 DEF Row
<1> HIDE DEF n, m
<1>7. PICK e, h : /\ e = IF s.goal = "CONFIRMED" THEN s.found ELSE r.external
                  /\ h = IF r.reservation # "HELD" THEN r.reservation
                         ELSE IF s.goal = "CONFIRMED" THEN "CONSUMED" ELSE "RELEASED"
  OBVIOUS
<1>8. PICK q : q = [r EXCEPT !.status = s.goal, !.outcome = s.goal, !.pv = m, !.rv = n,
                             !.external = e, !.reservation = h]
  OBVIOUS
<1>9. rows' = [rows EXCEPT ![p] = q]
  BY <1>2, <1>3, <1>4, <1>7, <1>8 DEF FinalizeWrite, X402Inv, n, m
<1>10. \/ s.goal = "CONFIRMED" /\ r.signed /\ Settled(r.prepared)
       \/ s.goal = "FAILED"
  BY <1>5 DEF LocalOK
<1>11. e \in Transactions /\ h \in {"NONE", "HELD", "CONSUMED", "RELEASED"}
  BY <1>5, <1>7 DEF Row, Local
<1>12. /\ q \in Row /\ q.prepared = r.prepared /\ q.rv = n /\ q.status = s.goal
       /\ q.amount = r.amount /\ q.payTo = r.payTo /\ q.signed = r.signed
       /\ q.outcome = s.goal
  BY <1>5, <1>6, <1>8, <1>10, <1>11 DEF Row, Outcomes
<1>13. q.status # "ABSENT"
  BY <1>10, <1>12
<1>14. Advances(r, q)
  BY <1>5, <1>6, <1>12, <1>13 DEF Advances
<1>15. RowOK(p, q)
  BY <1>5, <1>10, <1>12, <1>13 DEF RowOK, Terms
<1>16. DOMAIN items' = Payments /\ \A o \in Payments : o # p => items'[o] = items[o]
  BY <1>1 DEF X402Inv
<1>17. \E x \in Local : workers' = [workers EXCEPT ![w] = x] /\ x.p = p /\ LocalOK(x, q)
  BY <1>1, <1>2, <1>3, <1>13, EndedIs
<1> QED
  BY <1>1, <1>4, <1>5, <1>9, <1>12, <1>14, <1>15, <1>16, <1>17, RowStep

-----------------------------------------------------------------------------
(* Work items. *)

\* A row that goes to review keeps all that was promised of it.
LEMMA ReviewedIs ==
    ASSUME NEW p \in Payments, NEW r \in Row, RowOK(p, r), r.status # "ABSENT"
    PROVE  /\ Reviewed(r) \in Row /\ Reviewed(r).status # "ABSENT"
           /\ Advances(r, Reviewed(r)) /\ RowOK(p, Reviewed(r))
<1>1. CASE r.status \in {"CONFIRMED", "FAILED"}
  BY <1>1, AdvancesSame DEF Reviewed
<1>2. CASE r.status \notin {"CONFIRMED", "FAILED"}
  <2>1. PICK n : n = r.pv + 1 /\ n \in Nat
    BY SMTT(30) DEF Row
  <2>2. PICK q : q = [r EXCEPT !.status = "REVIEW_REQUIRED", !.pv = n]
    OBVIOUS
  <2>3. q = Reviewed(r)
    BY <1>2, <2>1, <2>2 DEF Reviewed
  <2>4. /\ q \in Row /\ q.prepared = r.prepared /\ q.rv = r.rv /\ q.status = "REVIEW_REQUIRED"
        /\ q.amount = r.amount /\ q.payTo = r.payTo /\ q.signed = r.signed
        /\ q.outcome = r.outcome /\ q.reservation = r.reservation /\ r.rv \in Nat
    BY <2>1, <2>2 DEF Row
  <2>5. Advances(r, q)
    BY SMTT(30), <2>4 DEF Advances
  <2>6. RowOK(p, q)
    BY <1>2, <2>4 DEF RowOK, Terms
  <2> QED
    BY <2>3, <2>4, <2>5, <2>6
<1> QED
  BY <1>1, <1>2

LEMMA GiveBackKeeps ==
    ASSUME X402Inv, NEW w \in Workers, GiveBack(w)
    PROVE  X402Inv'
<1>1. workers[w].pc \in {"complete", "retry", "failItem"} /\ UNCHANGED <<offer, asked, sent, chain>>
  BY DEF GiveBack
<1>2. PICK p \in Payments : p = workers[w].p
  BY <1>1, Present
<1>3. PICK r : r = rows[p]
  OBVIOUS
<1>4. r \in Row /\ r.status # "ABSENT" /\ RowOK(p, r)
  BY <1>1, <1>2, <1>3, Present
<1>5. CASE Raise(w, "RETRY") /\ UNCHANGED <<rows, items>>
  BY <1>1, <1>5, RaiseKeeps
<1>6. CASE /\ \E it : items' = [items EXCEPT ![p] = it]
           /\ rows' = [rows EXCEPT ![p] = Reviewed(@)] \/ rows' = rows
           /\ Become(w, Idle)
  <2>1. PICK q : /\ q \in Row /\ Advances(r, q) /\ RowOK(p, q)
                 /\ rows' = [rows EXCEPT ![p] = q]
    <3>1. CASE rows' = rows
      BY SMTT(30), <1>3, <1>4, <3>1, AdvancesSame DEF X402Inv
    <3>2. CASE rows' = [rows EXCEPT ![p] = Reviewed(@)]
      BY <1>3, <1>4, <3>2, ReviewedIs
    <3> QED
      BY <1>6, <3>1, <3>2
  <2>2. DOMAIN items' = Payments /\ \A o \in Payments : o # p => items'[o] = items[o]
    BY <1>6 DEF X402Inv
  <2>3. PICK x \in Local : x.pc = "idle" /\ LocalOK(x, q) /\ workers' = [workers EXCEPT ![w] = x]
    BY <1>6, IdleLocal DEF Become
  <2> QED
    BY <1>1, <1>3, <1>4, <2>1, <2>2, <2>3, RowStep
<1> QED
  BY <1>2, <1>5, <1>6 DEF GiveBack

LEMMA ClaimWorkItemKeeps ==
    ASSUME X402Inv, NEW w \in Workers, NEW p \in Payments, ClaimWorkItem(w, p)
    PROVE  X402Inv'
<1>1. workers[w].pc = "idle" /\ UNCHANGED <<offer, asked, sent, chain>>
  BY DEF ClaimWorkItem, At
<1>2. PICK r : r = rows[p]
  OBVIOUS
<1>3. r \in Row /\ RowOK(p, r) /\ workers[w] \in Local
  BY <1>2 DEF X402Inv
<1>4. Claimable(items[p]) \/ FinalLeaseExpired(items[p]) => items[p].status # "ABSENT"
  BY DEF Claimable, FinalLeaseExpired
<1>5. r.status # "ABSENT" /\ r.signed \in BOOLEAN /\ r.rv \in Nat
  BY <1>3, <1>4 DEF ClaimWorkItem, RowOK, Row
<1>6. (\E it : items' = [items EXCEPT ![p] = it]) =>
        DOMAIN items' = Payments /\ \A o \in Payments : o # p => items'[o] = items[o]
  BY DEF X402Inv
<1>7. CASE /\ \E it : items' = [items EXCEPT ![p] = it]
           /\ rows' = [rows EXCEPT ![p] = Reviewed(@)]
           /\ UNCHANGED workers
  <2>1. PICK x : x = workers[w]
    OBVIOUS
  <2>2. x \in Local /\ x.pc = "idle" /\ workers' = [workers EXCEPT ![w] = x]
    BY <1>1, <1>3, <1>7, <2>1 DEF X402Inv
  <2>3. \A q : LocalOK(x, q)
    BY <2>2 DEF LocalOK, Viewers
  <2>4. PICK q : /\ q \in Row /\ Advances(r, q) /\ RowOK(p, q)
                 /\ rows' = [rows EXCEPT ![p] = q]
    BY <1>2, <1>3, <1>5, <1>7, ReviewedIs
  <2> QED
    BY <1>1, <1>2, <1>5, <1>6, <1>7, <2>2, <2>3, <2>4, RowStep
<1>8. ASSUME NEW pc,
             pc = IF Viewing([Idle EXCEPT !.p = p]).outcome = "UNKNOWN" THEN "reconcile"
                  ELSE IF Terminal(p) THEN "complete"
                  ELSE IF Viewing([Idle EXCEPT !.p = p]).prepared = NoPayload THEN "prepare"
                  ELSE IF Viewing([Idle EXCEPT !.p = p]).signed THEN "recheck" ELSE "sign",
             \E it : items' = [items EXCEPT ![p] = it],
             Become(w, IF pc = "complete" THEN Settling(Viewing([Idle EXCEPT !.p = p]), pc)
                       ELSE [Viewing([Idle EXCEPT !.p = p]) EXCEPT
                                !.pc = pc, !.reconciling = (pc = "reconcile")]),
             UNCHANGED rows
      PROVE  X402Inv'
  <2>1. PICK i : i = [Idle EXCEPT !.p = p]
    OBVIOUS
  <2>2. i \in Local /\ i.p = p
    BY <2>1, IdleLocal DEF Local
  <2>3. PICK v : v = Viewing(i)
    OBVIOUS
  <2>4. v \in Local /\ v.p = p /\ v.rv = r.rv /\ v.outcome = r.outcome
        /\ v.prepared = r.prepared /\ v.signed = r.signed
    BY <1>2, <1>3, <2>2, <2>3, ViewingIs
  <2>5. pc \in {"reconcile", "complete", "prepare", "recheck", "sign"}
    BY <1>8
  <2>6. /\ pc = "reconcile" => r.outcome = "UNKNOWN"
        /\ pc \in {"prepare", "sign", "recheck"} =>
             r.outcome # "UNKNOWN"
        /\ pc = "prepare" => r.prepared = NoPayload
        /\ pc = "sign" => r.prepared # NoPayload
        /\ pc = "recheck" => r.signed
    BY <1>2, <1>8, <2>1, <2>3, <2>4 DEF Terminal
  <2>7. PICK x : x = IF pc = "complete" THEN Settling(v, pc)
                     ELSE [v EXCEPT !.pc = pc, !.reconciling = (pc = "reconcile")]
    OBVIOUS
  <2>8. x \in Local /\ x.p = p /\ LocalOK(x, r)
    <3>1. CASE pc = "complete"
      BY SMTT(30), <1>5, <2>4, <2>7, <3>1, SettlingIs, Leftover
    <3>2. CASE pc # "complete"
      <4>1. (pc = "reconcile") \in BOOLEAN
        OBVIOUS
      <4>2. x \in Local /\ x.p = p /\ x.pc = pc /\ x.rv = r.rv /\ x.prepared = r.prepared
        BY <2>4, <2>5, <2>7, <3>2, <4>1 DEF Local, Viewers
      <4>4. pc = "reconcile" => r.signed
        BY <1>3, <2>6 DEF RowOK
      <4> QED
        BY SMTT(30), <1>5, <2>5, <2>6, <3>2, <4>2, <4>4 DEF LocalOK
    <3> QED
      BY <3>1, <3>2
  <2>9. rows' = [rows EXCEPT ![p] = r] /\ Advances(r, r)
    BY <1>2, <1>3, <1>8, AdvancesSame DEF X402Inv
  <2>10. workers' = [workers EXCEPT ![w] = x]
    BY <1>8, <2>1, <2>3, <2>7 DEF Become
  <2> QED
    BY <1>1, <1>2, <1>3, <1>5, <1>6, <1>8, <2>8, <2>9, <2>10, RowStep
<1> QED
  BY <1>7, <1>8 DEF ClaimWorkItem

-----------------------------------------------------------------------------
(* The provider, the network, the service and the leases. *)

\* Rows and workers stay; the chain and the work items of known payments move.
LEMMA Around ==
    ASSUME X402Inv, UNCHANGED <<rows, workers, sent>>,
           offer' \in Offers \cup {NoOffer}, asked' \in [Payments -> Offers \cup {NoOffer}],
           \A p \in Payments : asked'[p] # NoOffer => rows[p].status = "ABSENT",
           DOMAIN items' = Payments,
           \A p \in Payments : items[p].status = "ABSENT" => items'[p] = items[p],
           DOMAIN chain' \subseteq sent,
           \A t \in DOMAIN chain' : chain'[t] \in {"none", "processed", "landed", "failed"},
           \A t : Settled(t) => Settled(t)'
    PROVE  X402Inv'
<1>1. ASSUME NEW p \in Payments PROVE RowOK(p, rows[p])'
  <2>1. PICK r : r = rows[p]
    OBVIOUS
  <2>2. RowOK(p, r) /\ (r.status = "ABSENT" => items'[p] = items[p])
    BY <2>1 DEF X402Inv, RowOK
  <2>3. RowOK(p, r)'
    BY <2>2, RowKept
  <2> QED
    BY <2>1, <2>3, RowReached
<1>2. ASSUME NEW w \in Workers PROVE LocalOK(workers[w], rows[workers[w].p])'
  <2>1. PICK s : s = workers[w]
    OBVIOUS
  <2>2. PICK q : q = rows[s.p]
    OBVIOUS
  <2>3. LocalOK(s, q)
    BY <2>1, <2>2 DEF X402Inv
  <2>4. LocalOK(s, q)'
    BY <2>3 DEF LocalOK, Terms
  <2> QED
    BY <2>1, <2>2, <2>4, LocalReached
<1> QED
  BY <1>1, <1>2 DEF X402Inv

LEMMA ChangeOfferKeeps ==
    ASSUME X402Inv, ChangeOffer
    PROVE  X402Inv'
<1>1. \A t : Settled(t) => Settled(t)'
  BY DEF ChangeOffer, Settled
<1> QED
  BY <1>1, Around DEF ChangeOffer, X402Inv

LEMMA ProgressKeeps ==
    ASSUME X402Inv, NEW t \in sent, Progress(t)
    PROVE  X402Inv'
<1>1. PICK next : /\ next \in CASE ChainState(t) = "none"      -> {"processed"}
                              [] ChainState(t) = "processed" -> {"landed", "failed", "none"}
                              [] OTHER                       -> {}
                  /\ chain' = [u \in DOMAIN chain \cup {t} |-> IF u = t THEN next ELSE chain[u]]
  BY DEF Progress
<1>2. next \in {"none", "processed", "landed", "failed"}
      /\ ChainState(t) \in {"none", "processed"}
  BY <1>1
<1>3. UNCHANGED <<offer, asked, rows, items, workers, sent>>
  BY DEF Progress
<1>4. DOMAIN chain' = DOMAIN chain \cup {t}
      /\ \A u \in DOMAIN chain' : chain'[u] = IF u = t THEN next ELSE chain[u]
  BY <1>1
<1>5. ~Settled(t)
  BY <1>2 DEF Settled, ChainState
<1>6. ASSUME NEW u, Settled(u) PROVE Settled(u)'
  BY <1>4, <1>5, <1>6 DEF Settled
<1>7. \A u \in DOMAIN chain' : chain'[u] \in {"none", "processed", "landed", "failed"}
  BY <1>2, <1>4 DEF X402Inv
<1>8. DOMAIN chain' \subseteq sent
  BY <1>4 DEF X402Inv
<1> QED
  BY <1>3, <1>6, <1>7, <1>8, Around DEF X402Inv

LEMMA DiscoverKeeps ==
    ASSUME X402Inv, NEW p \in Payments, Discover(p)
    PROVE  X402Inv'
<1>1. \A t : Settled(t) => Settled(t)'
  BY DEF Discover, Settled
<1>2. /\ asked' \in [Payments -> Offers \cup {NoOffer}]
      /\ \A o \in Payments : asked'[o] # NoOffer => rows[o].status = "ABSENT"
  BY DEF Discover, X402Inv
<1>3. UNCHANGED <<offer, rows, items, workers, sent, chain>>
  BY DEF Discover
<1> QED
  BY <1>1, <1>2, <1>3, Around DEF X402Inv

LEMMA LeaseExpiresKeeps ==
    ASSUME X402Inv, NEW p \in Payments, LeaseExpires(p)
    PROVE  X402Inv'
<1>1. \A t : Settled(t) => Settled(t)'
  BY DEF LeaseExpires, Settled
<1>2. /\ DOMAIN items' = Payments
      /\ \A o \in Payments : items[o].status = "ABSENT" => items'[o] = items[o]
  BY DEF LeaseExpires, X402Inv
<1>3. UNCHANGED <<offer, asked, rows, workers, sent, chain>>
  BY DEF LeaseExpires
<1> QED
  BY <1>1, <1>2, <1>3, Around DEF X402Inv

LEMMA CreatePaymentKeeps ==
    ASSUME X402Inv, NEW p \in Payments, CreatePayment(p)
    PROVE  X402Inv'
<1>1. PICK o, st, h :
         /\ o = asked[p] /\ o # NoOffer
         /\ st = IF o.payTo \in Approved THEN "ROUTING" ELSE "DENIED"
         /\ h = IF o.payTo \in Approved THEN "HELD" ELSE "NONE"
  BY DEF CreatePayment
<1>2. PICK q : q = [NoRow EXCEPT !.amount = LogicalAmount(o.amount), !.payTo = o.payTo,
                                 !.status = st, !.reservation = h]
  OBVIOUS
<1>3. rows' = [rows EXCEPT ![p] = q] /\ asked' = [asked EXCEPT ![p] = NoOffer]
      /\ UNCHANGED <<offer, workers, sent, chain>>
  BY <1>1, <1>2 DEF CreatePayment, NoRow
<1>4. DOMAIN items' = Payments /\ \A x \in Payments : x # p => items'[x] = items[x]
  BY DEF CreatePayment, X402Inv
<1>5. o \in Offers /\ rows[p].status = "ABSENT" /\ rows[p] = NoRow
  BY SMTT(30), <1>1 DEF X402Inv, RowOK
<1>6. /\ q \in Row /\ q.status # "ABSENT" /\ q.status # "CONFIRMED" /\ q.prepared = NoPayload
      /\ q.signed = FALSE /\ q.outcome = "NOT_STARTED"
  BY <1>1, <1>2, <1>5 DEF NoRow, Row, Outcomes, Transactions
<1>7. RowOK(p, q)'
  BY <1>6 DEF RowOK
<1>8. \A t : Settled(t) => Settled(t)'
  BY <1>3 DEF Settled
<1>9. ASSUME NEW x \in Payments PROVE RowOK(x, rows[x])'
  <2>1. CASE x = p
    BY <1>3, <1>7, <2>1, RowReached DEF X402Inv
  <2>2. CASE x # p
    <3>1. PICK r : r = rows[x]
      OBVIOUS
    <3>2. RowOK(x, r)'
      BY <1>4, <1>8, <2>2, <3>1, RowKept DEF X402Inv
    <3> QED
      BY <1>3, <2>2, <3>1, <3>2, RowReached DEF X402Inv
  <2> QED
    BY <2>1, <2>2
<1>10. ASSUME NEW w \in Workers PROVE LocalOK(workers[w], rows[workers[w].p])'
  <2>1. PICK s : s = workers[w]
    OBVIOUS
  <2>2. PICK r : r = rows[s.p]
    OBVIOUS
  <2>3. LocalOK(s, r)
    BY <2>1, <2>2 DEF X402Inv
  <2>4. LocalOK(s, r)'
    BY <1>8, <2>3 DEF LocalOK, Terms
  <2>5. s.pc # "idle" => rows'[s.p] = r
    BY <1>3, <1>5, <2>2, <2>3 DEF X402Inv, LocalOK
  <2> QED
    BY <1>3, <2>1, <2>4, <2>5, LocalReached
<1>11. ASSUME NEW t \in sent
       PROVE  t.payment \in Payments /\ rows'[t.payment].signed /\ rows'[t.payment].prepared = t
  <2>1. t.payment \in Payments /\ rows[t.payment].signed /\ rows[t.payment].prepared = t
    BY DEF X402Inv
  <2>2. t.payment # p
    BY SMTT(30), <1>5, <2>1 DEF NoRow
  <2> QED
    BY <1>3, <2>1, <2>2 DEF X402Inv
<1>12. rows' \in [Payments -> Row] /\ asked' \in [Payments -> Offers \cup {NoOffer}]
  BY <1>3, <1>6 DEF X402Inv
<1>13. \A x \in Payments : asked'[x] # NoOffer => rows'[x].status = "ABSENT"
  BY <1>3 DEF X402Inv
<1> QED
  BY <1>3, <1>4, <1>9, <1>10, <1>11, <1>12, <1>13 DEF X402Inv

-----------------------------------------------------------------------------
(* The invariant holds, and what follows from it. *)

LEMMA X402Step ==
    ASSUME X402Inv, [Next]_vars
    PROVE  X402Inv'
<1>1. CASE ChangeOffer
  BY <1>1, ChangeOfferKeeps
<1>2. CASE \E t \in sent : Progress(t)
  BY <1>2, ProgressKeeps
<1>3. CASE \E p \in Payments : Discover(p) \/ CreatePayment(p) \/ LeaseExpires(p)
  BY <1>3, DiscoverKeeps, CreatePaymentKeeps, LeaseExpiresKeeps
<1>4. CASE \E w \in Workers, p \in Payments : ClaimWorkItem(w, p)
  BY <1>4, ClaimWorkItemKeeps
<1>5. ASSUME NEW w \in Workers, Prepare(w) \/ PersistPrepared(w) \/ Sign(w) \/ Recheck(w)
      PROVE  X402Inv'
  BY <1>5, PrepareKeeps, PersistPreparedKeeps, SignKeeps, RecheckKeeps
<1>6. ASSUME NEW w \in Workers, Send(w) \/ Answer(w) \/ Reconcile(w)
      PROVE  X402Inv'
  BY <1>6, SendKeeps, AnswerKeeps, ReconcileKeeps
<1>7. ASSUME NEW w \in Workers, \/ UpdateAttemptOutcome(w) \/ UpdatePaymentExecution(w)
                                \/ FinalizeCheck(w) \/ FinalizeWrite(w)
      PROVE  X402Inv'
  BY <1>7, UpdateAttemptOutcomeKeeps, UpdatePaymentExecutionKeeps, FinalizeCheckKeeps,
     FinalizeWriteKeeps
<1>8. ASSUME NEW w \in Workers, HandleFailure(w) \/ GiveBack(w) \/ Crash(w)
      PROVE  X402Inv'
  BY <1>8, HandleFailureKeeps, GiveBackKeeps, CrashKeeps
<1>9. CASE UNCHANGED vars
  <2>1. \A t : Settled(t) => Settled(t)'
    BY <1>9 DEF vars, Settled
  <2>2. UNCHANGED <<offer, asked, rows, items, workers, sent, chain>>
    BY <1>9 DEF vars
  <2> QED
    BY <2>1, <2>2, Around DEF X402Inv
<1> QED
  BY <1>1, <1>2, <1>3, <1>4, <1>5, <1>6, <1>7, <1>8, <1>9 DEF Next

LEMMA X402Init ==
    ASSUME Init
    PROVE  X402Inv
<1>1. NoRow \in Row
  BY DEF NoRow, Row, Outcomes, Transactions
<1>2. ASSUME NEW p \in Payments, NEW t \in Earlier, t.payment = p
      PROVE  SettledRow(t) \in Row /\ RowOK(p, SettledRow(t)) /\ SettledRow(t).signed
             /\ SettledRow(t).prepared = t
  <2>1. t.offer \in Offers /\ Representable(t.offer.amount) /\ t.offer.amount <= Cap
        /\ t \in Transactions /\ t # NoPayload
    BY EarlierAssumption DEF Payable, Transactions
  <2>2. PICK r : r = SettledRow(t)
    OBVIOUS
  <2>3. r \in Row
    BY <2>1, <2>2 DEF SettledRow, NoRow, Row, Outcomes, Transactions
  <2>4. /\ r.status = "CONFIRMED" /\ r.amount = LogicalAmount(t.offer.amount)
        /\ r.payTo = t.offer.payTo /\ r.outcome = "CONFIRMED" /\ r.prepared = t
        /\ r.signed = TRUE
    BY <2>2 DEF SettledRow, NoRow
  <2>5. t.offer.amount = LogicalAmount(t.offer.amount) * AtomicPerUnit
    BY <2>1, ExactAmount, X402Assumption
  <2>6. Terms(p, r, t)
    BY <1>2, <2>1, <2>4, <2>5 DEF Terms
  <2>7. Settled(t)
    BY DEF Init, Settled
  <2>8. RowOK(p, r)
    BY <2>1, <2>4, <2>6, <2>7 DEF RowOK
  <2> QED
    BY <2>2, <2>3, <2>4, <2>8
<1>3. ASSUME NEW p \in Payments
      PROVE  /\ rows[p] \in Row /\ RowOK(p, rows[p])
             /\ \A t \in Earlier : t.payment = p => rows[p].signed /\ rows[p].prepared = t
  <2>1. CASE \E t \in Earlier : t.payment = p
    <3>1. PICK t : t = CHOOSE u \in Earlier : u.payment = p
      OBVIOUS
    <3>2. t \in Earlier /\ t.payment = p
      BY <2>1, <3>1
    <3>3. rows[p] = SettledRow(t)
      BY <2>1, <3>1 DEF Init
    <3>4. \A u \in Earlier : u.payment = p => u = t
      BY <3>2, X402Assumption
    <3> QED
      BY <1>2, <3>2, <3>3, <3>4
  <2>2. CASE ~\E t \in Earlier : t.payment = p
    <3>1. rows[p] = NoRow /\ items[p].status = "ABSENT"
      BY <2>2 DEF Init, NewItem
    <3>2. RowOK(p, NoRow)
      BY <3>1 DEF RowOK, NoRow
    <3> QED
      BY <1>1, <2>2, <3>1, <3>2
  <2> QED
    BY <2>1, <2>2
<1>4. rows \in [Payments -> Row]
  <2>1. DOMAIN rows = Payments /\ rows = [p \in Payments |-> rows[p]]
    BY DEF Init
  <2> QED
    BY <1>3, <2>1
<1>5. offer \in Offers \cup {NoOffer} /\ asked \in [Payments -> Offers \cup {NoOffer}]
      /\ DOMAIN items = Payments /\ \A p \in Payments : asked[p] = NoOffer
  BY X402Assumption DEF Init
<1>6. workers \in [Workers -> Local] /\ \A w \in Workers : LocalOK(workers[w], rows[workers[w].p])
  BY IdleLocal DEF Init
<1>7. \A t \in sent : t.payment \in Payments /\ rows[t.payment].signed
                      /\ rows[t.payment].prepared = t
  BY SMTT(30), <1>3, EarlierAssumption DEF Init
<1>8. DOMAIN chain \subseteq sent /\ \A t \in DOMAIN chain : chain[t] = "landed"
  BY DEF Init
<1> QED
  BY <1>3, <1>4, <1>5, <1>6, <1>7, <1>8 DEF X402Inv

\* The inductive invariant: rows, workers and requests are typed; a prepared
\* effect has the terms the payment was created with and is never replaced; what
\* was sent is the signed effect of its row; a CONFIRMED row has its own effect on
\* the chain, and so has a row about to be confirmed; and a worker's view is no
\* newer than the row it came from.
THEOREM X402InvAlways == Spec => []X402Inv
<1>1. Init => X402Inv
  BY X402Init
<1>2. X402Inv /\ [Next]_vars => X402Inv'
  BY X402Step
<1> QED
  BY <1>1, <1>2, PTL DEF Spec

\* What lands for a payment is the effect its row holds.
LEMMA LandedIs ==
    ASSUME X402Inv, NEW p \in Payments, NEW t \in Landed(p)
    PROVE  rows[p].signed /\ rows[p].prepared = t /\ Terms(p, rows[p], t)
<1>1. t \in sent /\ t.payment = p
  BY DEF Landed, X402Inv
<1>2. rows[p].signed /\ rows[p].prepared = t
  BY <1>1 DEF X402Inv
<1> QED
  BY <1>2 DEF X402Inv, RowOK

\* At most one transfer per payment reaches the chain, with the amount and the
\* destination that X402PaymentService.createPayment had approved and within the
\* cap, for any number of payments, workers and offers.
THEOREM SettlesOnceAsApproved == Spec => []SettledOnceAsApproved
<1>1. ASSUME X402Inv, NEW p \in Payments, NEW t \in Landed(p), NEW u \in Landed(p)
      PROVE  t = u
  BY <1>1, LandedIs
<1>2. X402Inv => SettledOnceAsApproved
  BY <1>1, LandedIs DEF SettledOnceAsApproved, Terms
<1> QED
  BY <1>2, X402InvAlways, PTL

\* A payment is CONFIRMED only with its own transaction on the chain, whichever
\* transaction the provider names: observeSettlementOnChain compares messages.
THEOREM ConfirmsByOwnSettlement == Spec => []ConfirmedByOwnSettlement
<1>1. ASSUME X402Inv, NEW p \in Payments, rows[p].status = "CONFIRMED"
      PROVE  Landed(p) # {}
  <2>1. PICK t : t = rows[p].prepared
    OBVIOUS
  <2>2. rows[p].signed /\ t # NoPayload /\ Settled(t) /\ t.payment = p
    BY <1>1, <2>1 DEF X402Inv, RowOK, Terms
  <2> QED
    BY <2>2 DEF Landed, Settled
<1>2. X402Inv => ConfirmedByOwnSettlement
  BY <1>1 DEF ConfirmedByOwnSettlement
<1> QED
  BY <1>2, X402InvAlways, PTL

-----------------------------------------------------------------------------
(* Workers that do not outlive their leases. *)

Busy(w) == workers[w].pc # "idle"

\* Whoever is busy with a payment owns its work item, and fails only a payment
\* that is not signed.
Sole ==
    stalls \/ \A w \in Workers : Busy(w) =>
        /\ Owns(items[workers[w].p], w)
        /\ workers[w].pc = "finalizeWrite" /\ workers[w].goal = "FAILED" =>
             ~rows[workers[w].p].signed

\* Worker w goes from one state of its claim to another, or gives up; rows of
\* other payments and all work items stay.
LEMMA SoleKept ==
    ASSUME X402Inv, Sole, NEW w \in Workers, Busy(w), NEW x,
           workers' = [workers EXCEPT ![w] = x], x.pc # "idle" => x.p = workers[w].p,
           x.pc = "finalizeWrite" /\ x.goal = "FAILED" => ~rows'[x.p].signed,
           \A p \in Payments : p # workers[w].p => rows'[p] = rows[p],
           UNCHANGED <<stalls, items>>
    PROVE  Sole'
<1>1. CASE stalls
  BY <1>1 DEF Sole
<1>2. CASE ~stalls
  <2>1. ASSUME NEW v \in Workers, Busy(v)'
        PROVE  /\ Owns(items[workers[v].p], v)'
               /\ workers'[v].pc = "finalizeWrite" /\ workers'[v].goal = "FAILED" =>
                    ~rows'[workers'[v].p].signed
    <3>1. CASE v = w
      <4>1. workers'[w] = x
        BY DEF X402Inv
      <4> QED
        BY <1>2, <2>1, <3>1, <4>1 DEF Sole, Busy, Owns
    <3>2. CASE v # w
      <4>1. workers'[v] = workers[v]
        BY <3>2 DEF X402Inv
      <4>2. workers[v].p \in Payments
        BY <2>1, <4>1, Present DEF Busy
      <4>3. Owns(items[workers[v].p], v) /\ Owns(items[workers[w].p], w)
        BY <1>2, <2>1, <4>1 DEF Sole, Busy
      <4>4. workers[v].p # workers[w].p
        BY <3>2, <4>3 DEF Owns
      <4> QED
        BY <1>2, <2>1, <4>1, <4>2, <4>3, <4>4 DEF Sole, Busy, Owns
    <3> QED
      BY <3>1, <3>2
  <2> QED
    BY <2>1 DEF Sole
<1> QED
  BY <1>1, <1>2

\* An error, or the end of a claim, leaves the worker with its payment or idle.
LEMMA LeftIs ==
    ASSUME NEW w \in Workers, workers[w].p \in Payments,
           \/ \E err : Raise(w, err)
           \/ \E pc \in {"complete", "retry", "failItem"} : End(w, pc)
    PROVE  \E x : /\ workers' = [workers EXCEPT ![w] = x]
                  /\ x.pc # "idle" => x.p = workers[w].p
                  /\ x.pc # "finalizeWrite"
<1>1. ASSUME NEW err, Raise(w, err)
      PROVE  \E x : /\ workers' = [workers EXCEPT ![w] = x]
                    /\ x.pc # "idle" => x.p = workers[w].p
                    /\ x.pc # "finalizeWrite"
  <2>1. PICK x : x = [Idle EXCEPT !.pc = "failure", !.p = workers[w].p, !.err = err]
    OBVIOUS
  <2>2. x.pc = "failure" /\ x.p = workers[w].p /\ Idle.pc = "idle"
    BY <2>1 DEF Idle
  <2> QED
    BY <1>1, <2>1, <2>2 DEF Raise, Become
<1>2. ASSUME NEW pc \in {"complete", "retry", "failItem"}, End(w, pc)
      PROVE  \E x : /\ workers' = [workers EXCEPT ![w] = x]
                    /\ x.pc # "idle" => x.p = workers[w].p
                    /\ x.pc # "finalizeWrite"
  <2>1. PICK x : x = Settling(workers[w], pc)
    OBVIOUS
  <2>2. x.pc = pc /\ x.p = workers[w].p
    BY <2>1 DEF Settling, Idle
  <2>3. x.pc # "finalizeWrite"
    BY <1>2, <2>2
  <2> QED
    BY <1>2, <2>1, <2>2, <2>3 DEF End, Become
<1> QED
  BY <1>1, <1>2

\* The steps of a claim between the claim itself and giving the item back.
InClaim(w) ==
    \/ Prepare(w) \/ PersistPrepared(w) \/ Sign(w) \/ Recheck(w)
    \/ Send(w) \/ Answer(w) \/ Reconcile(w)
    \/ UpdateAttemptOutcome(w) \/ UpdatePaymentExecution(w)
    \/ FinalizeCheck(w) \/ FinalizeWrite(w) \/ HandleFailure(w)

\* A state reached by changing fields other than the payment.
Onward(w, x) ==
    /\ workers' = [workers EXCEPT ![w] = x]
    /\ x.pc # "idle" => x.p = workers[w].p
    /\ x.pc # "finalizeWrite"

LEMMA BecomeOnward ==
    ASSUME X402Inv, NEW w \in Workers, Busy(w), NEW s \in Local, s.p = workers[w].p,
           NEW pc \in Viewers \ {"finalizeWrite"}, NEW t, NEW g, NEW v,
           \/ Become(w, [s EXCEPT !.pc = pc])
           \/ Become(w, [s EXCEPT !.pc = pc, !.prepared = t])
           \/ Become(w, [s EXCEPT !.pc = pc, !.rv = v])
           \/ Become(w, [s EXCEPT !.pc = pc, !.found = t])
           \/ Become(w, [s EXCEPT !.pc = pc, !.goal = g, !.found = t])
           \/ Become(w, [s EXCEPT !.pc = pc, !.goal = g])
    PROVE  \E x : Onward(w, x)
<1>1. PICK x : /\ workers' = [workers EXCEPT ![w] = x]
               /\ \/ x = [s EXCEPT !.pc = pc]
                  \/ x = [s EXCEPT !.pc = pc, !.prepared = t]
                  \/ x = [s EXCEPT !.pc = pc, !.rv = v]
                  \/ x = [s EXCEPT !.pc = pc, !.found = t]
                  \/ x = [s EXCEPT !.pc = pc, !.goal = g, !.found = t]
                  \/ x = [s EXCEPT !.pc = pc, !.goal = g]
  BY DEF Become
<1>2. x.pc = pc /\ x.p = s.p
  <2>1. CASE x = [s EXCEPT !.pc = pc]
    BY <2>1 DEF Local
  <2>2. CASE x = [s EXCEPT !.pc = pc, !.prepared = t]
    BY <2>2 DEF Local
  <2>3. CASE x = [s EXCEPT !.pc = pc, !.rv = v]
    BY <2>3 DEF Local
  <2>4. CASE x = [s EXCEPT !.pc = pc, !.found = t]
    BY <2>4 DEF Local
  <2>5. CASE x = [s EXCEPT !.pc = pc, !.goal = g, !.found = t]
    BY <2>5 DEF Local
  <2>6. CASE x = [s EXCEPT !.pc = pc, !.goal = g]
    BY <2>6 DEF Local
  <2> QED
    BY <1>1, <2>1, <2>2, <2>3, <2>4, <2>5, <2>6
<1> QED
  BY <1>1, <1>2 DEF Onward, Viewers

LEMMA LeftOnward ==
    ASSUME X402Inv, NEW w \in Workers, Busy(w),
           \/ \E err : Raise(w, err)
           \/ \E pc \in {"complete", "retry", "failItem"} : End(w, pc)
    PROVE  \E x : Onward(w, x)
<1>1. workers[w].p \in Payments
  BY Present DEF Busy
<1> QED
  BY <1>1, LeftIs DEF Onward

LEMMA AskingOnward ==
    ASSUME X402Inv, NEW w \in Workers, Busy(w), NEW t, Unknown(w, t) \/ ConfirmedBy(w, t)
    PROVE  \E x : Onward(w, x)
<1>1. PICK s : s = workers[w]
  OBVIOUS
<1>2. s \in Local /\ s.p = workers[w].p
  BY <1>1 DEF X402Inv
<1>3. CASE End(w, "retry")
  BY <1>3, LeftOnward
<1>4. CASE Become(w, [s EXCEPT !.pc = "update", !.found = t])
  <2>1. "update" \in Viewers \ {"finalizeWrite"}
    BY DEF Viewers
  <2> QED
    BY <1>2, <1>4, <2>1, BecomeOnward
<1>5. CASE Become(w, [s EXCEPT !.pc = "finalize", !.goal = "CONFIRMED", !.found = t])
  <2>1. "finalize" \in Viewers \ {"finalizeWrite"}
    BY DEF Viewers
  <2> QED
    BY <1>2, <1>5, <2>1, BecomeOnward
<1> QED
  BY <1>1, <1>3, <1>4, <1>5 DEF Unknown, ConfirmedBy

\* Every step of a claim but FinalizeCheck leads onward.
LEMMA ClaimGoesOn ==
    ASSUME X402Inv, NEW w \in Workers, InClaim(w), ~FinalizeCheck(w)
    PROVE  Busy(w) /\ \E x : Onward(w, x)
<1>1. Busy(w)
  BY DEF InClaim, Busy, At, Prepare, PersistPrepared, Sign, Recheck, Send, Answer, Reconcile,
         UpdateAttemptOutcome, UpdatePaymentExecution, FinalizeWrite, HandleFailure
<1>2. PICK s : s = workers[w]
  OBVIOUS
<1>3. s \in Local /\ s.p = workers[w].p /\ s.p \in Payments /\ rows[s.p] \in Row
  BY <1>1, <1>2, Present DEF Busy
<1>4. {"persistPrepared", "sign", "recheck", "send", "answer", "update", "project", "finalize"}
        \subseteq Viewers \ {"finalizeWrite"}
  BY DEF Viewers
<1>5. ASSUME NEW pc \in {"persistPrepared", "sign", "recheck", "send", "answer", "update",
                         "project", "finalize"}, NEW t, NEW g, NEW v,
             \/ Become(w, [s EXCEPT !.pc = pc])
             \/ Become(w, [s EXCEPT !.pc = pc, !.prepared = t])
             \/ Become(w, [s EXCEPT !.pc = pc, !.rv = v])
      PROVE  \E x : Onward(w, x)
  BY <1>1, <1>3, <1>4, <1>5, BecomeOnward
<1>6. CASE Prepare(w)
  BY <1>1, <1>2, <1>5, <1>6, LeftOnward DEF Prepare
<1>7. CASE PersistPrepared(w)
  BY <1>1, <1>2, <1>5, <1>7, LeftOnward DEF PersistPrepared
<1>8. CASE Sign(w)
  BY <1>1, <1>2, <1>5, <1>8, LeftOnward DEF Sign, Goto
<1>9. CASE Recheck(w)
  <2>1. Viewing(s) \in Local /\ Viewing(s).p = s.p
    BY <1>3, ViewingIs
  <2>2. ASSUME Become(w, [Viewing(s) EXCEPT !.pc = "send"]) PROVE \E x : Onward(w, x)
    BY <1>1, <1>3, <1>4, <2>1, <2>2, BecomeOnward
  <2> QED
    BY <1>1, <1>2, <1>9, <2>2, LeftOnward DEF Recheck
<1>10. CASE Send(w)
  BY <1>1, <1>2, <1>5, <1>10, AskingOnward DEF Send, Goto
<1>11. CASE Answer(w)
  BY <1>1, <1>11, AskingOnward, LeftOnward DEF Answer
<1>12. CASE Reconcile(w)
  BY <1>1, <1>2, <1>5, <1>12, AskingOnward, LeftOnward DEF Reconcile, Goto
<1>13. CASE UpdateAttemptOutcome(w)
  BY <1>1, <1>2, <1>5, <1>13, LeftOnward DEF UpdateAttemptOutcome, Goto
<1>14. CASE UpdatePaymentExecution(w)
  BY <1>1, <1>14, LeftOnward DEF UpdatePaymentExecution
<1>15. CASE FinalizeWrite(w)
  BY <1>1, <1>15, LeftOnward DEF FinalizeWrite
<1>16. CASE HandleFailure(w)
  <2>1. PICK z : z = [Viewing(s) EXCEPT !.failing = TRUE]
    OBVIOUS
  <2>2. z \in Local /\ z.p = s.p
    BY <1>3, <2>1, ViewingIs DEF Local
  <2>3. ASSUME NEW pc \in {"update", "finalize"}, NEW g,
               \/ Become(w, [z EXCEPT !.pc = pc])
               \/ Become(w, [z EXCEPT !.pc = pc, !.goal = g])
        PROVE  \E x : Onward(w, x)
    BY <1>1, <1>3, <1>4, <2>2, <2>3, BecomeOnward
  <2>4. ASSUME NEW pc \in {"failItem", "retry"}, Become(w, Settling(z, pc))
        PROVE  \E x : Onward(w, x)
    <3>1. PICK x : x = Settling(z, pc)
      OBVIOUS
    <3>2. x.pc = pc /\ x.p = s.p
      BY <2>2, <3>1 DEF Settling, Idle
    <3> QED
      BY <1>3, <2>4, <3>1, <3>2 DEF Onward, Become
  <2>5. \/ Become(w, [z EXCEPT !.pc = "update"])
        \/ Become(w, [z EXCEPT !.pc = "finalize", !.goal = "FAILED"])
        \/ Become(w, Settling(z, "failItem"))
        \/ Become(w, Settling(z, "retry"))
    BY <1>2, <1>16, <2>1 DEF HandleFailure
  <2>6. CASE Become(w, [z EXCEPT !.pc = "update"])
    BY <1>1, <2>3, <2>6
  <2>7. CASE Become(w, [z EXCEPT !.pc = "finalize", !.goal = "FAILED"])
    BY <1>1, <2>3, <2>7
  <2>8. CASE Become(w, Settling(z, "failItem")) \/ Become(w, Settling(z, "retry"))
    BY <1>1, <2>4, <2>8
  <2> QED
    BY <2>5, <2>6, <2>7, <2>8
<1> QED
  BY <1>1, <1>6, <1>7, <1>8, <1>9, <1>10, <1>11, <1>12, <1>13, <1>14, <1>15, <1>16 DEF InClaim

\* They touch no work item, and no row but the one of their payment.
LEMMA ClaimFrame ==
    ASSUME X402Inv, NEW w \in Workers, InClaim(w)
    PROVE  /\ UNCHANGED <<stalls, items>>
           /\ \A p \in Payments : p # workers[w].p => rows'[p] = rows[p]
<1>1. UNCHANGED <<stalls, items>>
  BY DEF InClaim, deployment, Prepare, PersistPrepared, Sign, Recheck, Send, Answer, Reconcile,
         UpdateAttemptOutcome, UpdatePaymentExecution, FinalizeCheck, FinalizeWrite, HandleFailure
<1>2. rows \in [Payments -> Row]
  BY DEF X402Inv
<1>3. CASE rows' = rows
  BY <1>1, <1>3
<1>4. CASE PersistPrepared(w) \/ Sign(w) \/ Recheck(w)
  BY <1>1, <1>2, <1>4 DEF PersistPrepared, Sign, Recheck
<1>5. CASE UpdateAttemptOutcome(w) \/ UpdatePaymentExecution(w)
  BY <1>1, <1>2, <1>5 DEF UpdateAttemptOutcome, UpdatePaymentExecution
<1>6. CASE FinalizeWrite(w)
  BY <1>1, <1>2, <1>6 DEF FinalizeWrite
<1> QED
  BY <1>3, <1>4, <1>5, <1>6 DEF InClaim, Prepare, Send, Answer, Reconcile, FinalizeCheck,
                                HandleFailure

\* finalizeV2Payment accepts a failure only of an attempt that is not signed.
LEMMA ClaimSole ==
    ASSUME X402Inv, Sole, NEW w \in Workers, InClaim(w)
    PROVE  Sole'
<1>1. CASE ~FinalizeCheck(w)
  <2>1. Busy(w)
    BY <1>1, ClaimGoesOn
  <2>2. PICK x : Onward(w, x)
    BY <1>1, ClaimGoesOn
  <2> QED
    BY <2>1, <2>2, ClaimFrame, SoleKept DEF Onward
<1>2. CASE FinalizeCheck(w)
  <2>1. Busy(w) /\ rows' = rows /\ workers[w].pc = "finalize"
    BY <1>2 DEF FinalizeCheck, Busy, At
  <2>2. workers[w] \in Local /\ LocalOK(workers[w], rows[workers[w].p])
    BY <2>1, Present
  <2>3. CASE Raise(w, "RETRY")
    <3>1. PICK x : Onward(w, x)
      BY <2>1, <2>3, LeftOnward
    <3> QED
      BY <2>1, <3>1, ClaimFrame, SoleKept DEF Onward
  <2>4. CASE Goto(w, "finalizeWrite") /\ AttemptUnchanged(workers[w])
    <3>1. PICK x : x = [workers[w] EXCEPT !.pc = "finalizeWrite"]
      OBVIOUS
    <3>2. x.p = workers[w].p /\ x.goal = workers[w].goal
      BY <2>2, <3>1 DEF Local
    <3>3. x.goal = "FAILED" => ~rows'[x.p].signed
      BY <2>1, <2>2, <2>4, <3>2 DEF LocalOK, AttemptUnchanged
    <3> QED
      BY <2>1, <2>4, <3>1, <3>2, <3>3, ClaimFrame, SoleKept DEF Goto, Become
  <2> QED
    BY <1>2, <2>3, <2>4 DEF FinalizeCheck
<1> QED
  BY <1>1, <1>2

\* The operations of the queue keep a work item well formed; a claim leaves the
\* claiming worker as its owner.
LEMMA ItemTyped ==
    ASSUME NEW it \in WorkItem, NEW w \in Workers
    PROVE  /\ Claimed(it, w) \in WorkItem /\ Owns(Claimed(it, w), w)
           /\ Completed(it) \in WorkItem /\ Exhausted(it) \in WorkItem
           /\ Retried(it, it.kind) \in WorkItem
<1> DEFINE a == IF it.attempts >= MaxAttempts THEN it.attempts ELSE it.attempts + 1
           b == IF it.attempts >= MaxAttempts THEN it.recoveries + 1 ELSE it.recoveries
<1>1. a \in Int /\ b \in Int /\ LeaseTicks \in 0..LeaseTicks /\ 0 \in 0..LeaseTicks /\ LeaseTicks > 0
  BY SMTT(30), WorkItemsAssumption DEF WorkItem
<1>2. PICK c : /\ c = Claimed(it, w)
               /\ c = [it EXCEPT !.status = "CLAIMED", !.owner = w, !.lease = LeaseTicks,
                                 !.attempts = a, !.recoveries = b]
  BY DEF Claimed
<1> HIDE DEF a, b
<1>3. c \in WorkItem /\ c.status = "CLAIMED" /\ c.owner = w /\ c.lease = LeaseTicks
  BY <1>1, <1>2 DEF WorkItem, WorkStatuses
<1>4. \A st \in WorkStatuses : Unleased(it, st) \in WorkItem
  BY <1>1 DEF Unleased, WorkItem
<1>5. PICK u \in WorkItem : u = Unleased(it, "RETRY_WAIT")
  BY <1>4 DEF WorkStatuses
<1>6. it.kind \in WorkKinds
  BY DEF WorkItem
<1>7. [u EXCEPT !.kind = it.kind] \in WorkItem
  BY <1>5, <1>6 DEF WorkItem
<1>8. Completed(it) \in WorkItem /\ Exhausted(it) \in WorkItem
  BY <1>4 DEF Completed, Exhausted, WorkStatuses
<1> QED
  BY <1>1, <1>2, <1>3, <1>5, <1>7, <1>8 DEF Owns, Retried

\* One work item and its row move; whoever is busy afterwards was busy with
\* another one, or owns this one.
LEMMA SoleAt ==
    ASSUME X402Inv, Sole, NEW p \in Payments, UNCHANGED stalls,
           \A q \in Payments : q # p => items'[q] = items[q] /\ rows'[q] = rows[q],
           \A v \in Workers : ~stalls /\ Busy(v)' =>
               \/ workers'[v] = workers[v] /\ workers[v].p # p
               \/ Owns(items'[workers'[v].p], v) /\ workers'[v].pc # "finalizeWrite"
    PROVE  Sole'
<1>1. ASSUME ~stalls, NEW v \in Workers, Busy(v)',
             workers'[v] = workers[v], workers[v].p # p
      PROVE  /\ Owns(items'[workers'[v].p], v)
             /\ workers'[v].pc = "finalizeWrite" /\ workers'[v].goal = "FAILED" =>
                  ~rows'[workers'[v].p].signed
  <2>1. Busy(v)
    BY <1>1 DEF Busy
  <2>2. workers[v].p \in Payments
    BY <2>1, Present DEF Busy
  <2> QED
    BY <1>1, <2>1, <2>2 DEF Sole
<1>2. ASSUME ~stalls, NEW v \in Workers, Busy(v)'
      PROVE  /\ Owns(items'[workers'[v].p], v)
             /\ workers'[v].pc = "finalizeWrite" /\ workers'[v].goal = "FAILED" =>
                  ~rows'[workers'[v].p].signed
  BY <1>1, <1>2
<1>3. CASE stalls
  BY <1>3 DEF Sole
<1>4. CASE ~stalls
  BY <1>2, <1>4 DEF Sole, Owns
<1> QED
  BY <1>3, <1>4

\* Only a work item whose lease is not running is claimed or swept.
LEMMA ClaimWorkItemSole ==
    ASSUME X402Inv, Sole, items \in [Payments -> WorkItem],
           NEW w \in Workers, NEW p \in Payments, ClaimWorkItem(w, p)
    PROVE  Sole' /\ items' \in [Payments -> WorkItem]
<1>1. items[p] \in WorkItem /\ rows \in [Payments -> Row] /\ workers \in [Workers -> Local]
  BY DEF X402Inv
<1>2. ASSUME ~stalls, NEW v \in Workers, Busy(v), Claimable(items[p]) \/ FinalLeaseExpired(items[p])
      PROVE  workers[v].p # p
  <2>1. Owns(items[workers[v].p], v)
    BY <1>2 DEF Sole
  <2> QED
    BY SMTT(30), <1>2, <2>1 DEF Owns, Claimable, FinalLeaseExpired
<1>3. UNCHANGED stalls
  BY DEF ClaimWorkItem, deployment
<1>4. CASE Claimable(items[p]) /\ items' = [items EXCEPT ![p] = Claimed(@, w)] /\ rows' = rows
           /\ \E x : workers' = [workers EXCEPT ![w] = x] /\ x.p = p /\ x.pc # "finalizeWrite"
  <2>1. PICK x : workers' = [workers EXCEPT ![w] = x] /\ x.p = p /\ x.pc # "finalizeWrite"
    BY <1>4
  <2>2. items'[p] = Claimed(items[p], w) /\ workers'[w] = x
    BY <1>1, <1>4, <2>1
  <2>3. \A q \in Payments : q # p => items'[q] = items[q] /\ rows'[q] = rows[q]
    BY <1>4
  <2>4. ASSUME ~stalls, NEW v \in Workers, Busy(v)', v # w
        PROVE  workers'[v] = workers[v] /\ workers[v].p # p
    BY <1>1, <1>2, <1>4, <2>1, <2>4 DEF Busy
  <2>5. Owns(items'[workers'[w].p], w) /\ workers'[w].pc # "finalizeWrite"
    BY <1>1, <2>1, <2>2, ItemTyped
  <2>6. items' \in [Payments -> WorkItem]
    BY <1>1, <1>4, ItemTyped
  <2> QED
    BY <1>3, <2>3, <2>4, <2>5, <2>6, SoleAt
<1>5. CASE FinalLeaseExpired(items[p]) /\ items' = [items EXCEPT ![p] = Exhausted(@)]
           /\ rows' = [rows EXCEPT ![p] = Reviewed(@)] /\ workers' = workers
  <2>1. \A q \in Payments : q # p => items'[q] = items[q] /\ rows'[q] = rows[q]
    BY <1>1, <1>5
  <2>2. \A v \in Workers : ~stalls /\ Busy(v)' => workers'[v] = workers[v] /\ workers[v].p # p
    BY <1>2, <1>5 DEF Busy
  <2>3. items' \in [Payments -> WorkItem]
    BY <1>1, <1>5, ItemTyped
  <2> QED
    BY <1>3, <2>1, <2>2, <2>3, SoleAt
<1>6. CASE Claimable(items[p]) /\ items' = [items EXCEPT ![p] = Claimed(@, w)] /\ rows' = rows
  <2>1. PICK i : i = [Idle EXCEPT !.p = p]
    OBVIOUS
  <2>2. i \in Local /\ i.p = p
    BY <2>1, IdleLocal DEF Local
  <2>3. PICK s : s = Viewing(i)
    OBVIOUS
  <2>4. s \in Local /\ s.p = p
    BY <1>1, <2>2, <2>3, ViewingIs
  <2>5. ~FinalLeaseExpired(items[p])
    BY SMTT(30), <1>1, <1>6, WorkItemsAssumption DEF Claimable, FinalLeaseExpired, WorkItem
  <2>6. PICK pc \in {"reconcile", "complete", "prepare", "recheck", "sign"} :
            Become(w, IF pc = "complete" THEN Settling(s, pc)
                      ELSE [s EXCEPT !.pc = pc, !.reconciling = (pc = "reconcile")])
    BY <2>1, <2>3, <2>5 DEF ClaimWorkItem
  <2>7. \/ Become(w, Settling(s, "complete"))
        \/ \E c \in {"reconcile", "prepare", "recheck", "sign"} :
               Become(w, [s EXCEPT !.pc = c, !.reconciling = (c = "reconcile")])
    BY <2>6
  <2>8. ASSUME NEW x, x = Settling(s, "complete") PROVE x.p = p /\ x.pc # "finalizeWrite"
    BY <2>4, <2>8, SettlingIs
  <2>9. ASSUME NEW c \in {"reconcile", "prepare", "recheck", "sign"}, NEW x,
               x = [s EXCEPT !.pc = c, !.reconciling = (c = "reconcile")]
        PROVE  x.p = p /\ x.pc # "finalizeWrite"
    <3>1. x.p = s.p /\ x.pc = c
      BY <2>4, <2>9 DEF Local
    <3> QED
      BY <2>4, <3>1
  <2>10. \E x : workers' = [workers EXCEPT ![w] = x] /\ x.p = p /\ x.pc # "finalizeWrite"
    BY <2>7, <2>8, <2>9 DEF Become
  <2> QED
    BY <1>4, <1>6, <2>10
<1> QED
  BY <1>5, <1>6 DEF ClaimWorkItem

\* A worker gives back what it owns; without stalls nobody else is busy with it.
LEMMA GiveBackSole ==
    ASSUME X402Inv, Sole, items \in [Payments -> WorkItem], NEW w \in Workers, GiveBack(w)
    PROVE  Sole' /\ items' \in [Payments -> WorkItem]
<1>1. Busy(w) /\ UNCHANGED stalls
  BY DEF GiveBack, Busy, deployment
<1>2. workers[w].p \in Payments /\ rows \in [Payments -> Row] /\ workers \in [Workers -> Local]
  BY <1>1, Present DEF X402Inv, Busy
<1>3. PICK p \in Payments : p = workers[w].p
  BY <1>2
<1>4. items[p] \in WorkItem
  OBVIOUS
<1>5. CASE Raise(w, "RETRY") /\ UNCHANGED <<rows, items>>
  <2>1. PICK x : Onward(w, x)
    BY <1>1, <1>5, LeftOnward
  <2> QED
    BY <1>1, <1>5, <2>1, SoleKept DEF Onward
<1>6. CASE /\ Owns(items[p], w) /\ Become(w, Idle)
           /\ \E it \in WorkItem : items' = [items EXCEPT ![p] = it]
           /\ rows' = rows \/ rows' = [rows EXCEPT ![p] = Reviewed(@)]
  <2>1. \A q \in Payments : q # p => items'[q] = items[q] /\ rows'[q] = rows[q]
    BY <1>2, <1>6
  <2>2. ASSUME ~stalls, NEW v \in Workers, Busy(v)'
        PROVE  workers'[v] = workers[v] /\ workers[v].p # p
    <3>1. v # w
      BY <1>2, <1>6, <2>2 DEF Busy, Become, Idle
    <3>2. workers'[v] = workers[v]
      BY <1>2, <1>6, <3>1 DEF Become
    <3>3. Owns(items[workers[v].p], v)
      BY <2>2, <3>2 DEF Sole, Busy
    <3> QED
      BY <1>6, <3>1, <3>2, <3>3 DEF Owns
  <2> QED
    BY <1>1, <1>6, <2>1, <2>2, SoleAt
<1>7. CASE Owns(items[p], w)
  <2>1. \E it \in WorkItem : items' = [items EXCEPT ![p] = it]
    BY <1>3, <1>4, <1>7, ItemTyped DEF GiveBack
  <2>2. Become(w, Idle) /\ (rows' = rows \/ rows' = [rows EXCEPT ![p] = Reviewed(@)])
    BY <1>3, <1>7 DEF GiveBack
  <2> QED
    BY <1>6, <1>7, <2>1, <2>2
<1> QED
  BY <1>3, <1>5, <1>7 DEF GiveBack

\* A payment is created before anyone works on it, and the lease of a busy worker
\* runs out only if workers may stall.
LEMMA RestSole ==
    ASSUME X402Inv, Sole, items \in [Payments -> WorkItem],
           \/ UNCHANGED <<stalls, rows, items, workers>>
           \/ \E p \in Payments : CreatePayment(p) \/ LeaseExpires(p)
           \/ \E w \in Workers : Crash(w)
    PROVE  Sole' /\ items' \in [Payments -> WorkItem]
<1>1. rows \in [Payments -> Row] /\ workers \in [Workers -> Local]
  BY DEF X402Inv
<1>2. CASE UNCHANGED <<stalls, rows, items, workers>>
  BY <1>2 DEF Sole, Busy, Owns
<1>3. ASSUME NEW p \in Payments, CreatePayment(p)
      PROVE  Sole' /\ items' \in [Payments -> WorkItem]
  <2>1. NewItem("AVAILABLE", "OUTGOING_PAYMENT") \in WorkItem
    BY SMTT(30), WorkItemsAssumption DEF NewItem, WorkItem, WorkStatuses, WorkKinds
  <2>2. items' \in [Payments -> WorkItem]
    BY <1>3, <2>1 DEF CreatePayment
  <2>3. \A q \in Payments : q # p => items'[q] = items[q] /\ rows'[q] = rows[q]
    BY <1>1, <1>3 DEF CreatePayment
  <2>4. rows[p].status = "ABSENT" /\ UNCHANGED <<stalls, workers>>
    BY <1>3 DEF CreatePayment, X402Inv, deployment
  <2>5. \A v \in Workers : Busy(v)' => workers'[v] = workers[v] /\ workers[v].p # p
    BY <2>4, Present DEF Busy
  <2> QED
    BY <2>2, <2>3, <2>4, <2>5, SoleAt
<1>4. ASSUME NEW p \in Payments, LeaseExpires(p)
      PROVE  Sole' /\ items' \in [Payments -> WorkItem]
  <2>1. PICK it : it = [items[p] EXCEPT !.lease = 0]
    OBVIOUS
  <2>2. 0 \in 0..LeaseTicks
    BY SMTT(30), WorkItemsAssumption
  <2>3. it \in WorkItem /\ items' = [items EXCEPT ![p] = it]
    BY <1>4, <2>1, <2>2 DEF LeaseExpires, WorkItem
  <2>4. \A q \in Payments : q # p => items'[q] = items[q] /\ rows'[q] = rows[q]
    BY <1>4, <2>3 DEF LeaseExpires
  <2>5. ASSUME ~stalls, NEW v \in Workers, Busy(v)'
        PROVE  workers'[v] = workers[v] /\ workers[v].p # p
    BY <1>4, <2>5 DEF LeaseExpires, Sole, Busy, Owns, At
  <2>6. UNCHANGED stalls
    BY <1>4 DEF LeaseExpires, deployment
  <2> QED
    BY <2>3, <2>4, <2>5, <2>6, SoleAt
<1>5. ASSUME NEW w \in Workers, Crash(w)
      PROVE  Sole' /\ items' \in [Payments -> WorkItem]
  <2>1. Busy(w) /\ UNCHANGED <<stalls, rows, items>> /\ workers' = [workers EXCEPT ![w] = Idle]
    BY <1>5 DEF Crash, Busy, At, Become, deployment
  <2>2. Idle.pc = "idle"
    BY DEF Idle
  <2> QED
    BY <2>1, <2>2, SoleKept
<1> QED
  BY <1>2, <1>3, <1>4, <1>5

LEMMA SoleStep ==
    ASSUME X402Inv, Sole, items \in [Payments -> WorkItem], [Next]_vars
    PROVE  Sole' /\ items' \in [Payments -> WorkItem]
<1>1. CASE ChangeOffer \/ (\E t \in sent : Progress(t)) \/ (\E p \in Payments : Discover(p))
           \/ UNCHANGED vars
  <2>1. UNCHANGED <<stalls, rows, items, workers>>
    BY <1>1 DEF ChangeOffer, Progress, Discover, vars, deployment
  <2> QED
    BY <2>1, RestSole
<1>2. CASE \E p \in Payments : CreatePayment(p) \/ LeaseExpires(p)
  BY <1>2, RestSole
<1>3. CASE \E w \in Workers : Crash(w)
  BY <1>3, RestSole
<1>4. CASE \E w \in Workers, p \in Payments : ClaimWorkItem(w, p)
  BY <1>4, ClaimWorkItemSole
<1>5. CASE \E w \in Workers : GiveBack(w)
  BY <1>5, GiveBackSole
<1>6. CASE \E w \in Workers : InClaim(w)
  BY <1>6, ClaimSole, ClaimFrame
<1> QED
  BY <1>1, <1>2, <1>3, <1>4, <1>5, <1>6 DEF Next, InClaim

LEMMA SoleAlways == Spec => [](Sole /\ items \in [Payments -> WorkItem])
<1>1. Init => Sole /\ items \in [Payments -> WorkItem]
  <2>1. NewItem("ABSENT", "OUTGOING_PAYMENT") \in WorkItem
    BY SMTT(30), WorkItemsAssumption DEF NewItem, WorkItem, WorkStatuses, WorkKinds
  <2>2. SUFFICES ASSUME Init PROVE Sole /\ items \in [Payments -> WorkItem]
    OBVIOUS
  <2>3. items \in [Payments -> WorkItem] /\ \A w \in Workers : workers[w] = Idle
    BY <2>1, <2>2 DEF Init
  <2>4. Idle.pc = "idle"
    BY DEF Idle
  <2> QED
    BY <2>3, <2>4 DEF Sole, Busy
<1>2. X402Inv /\ Sole /\ items \in [Payments -> WorkItem] /\ [Next]_vars =>
          (Sole /\ items \in [Payments -> WorkItem])'
  BY SoleStep
<1> QED
  BY <1>1, <1>2, X402InvAlways, PTL DEF Spec

\* Only a step of finalizeV2Payment releases, and it finds the row unsigned.
LEMMA ReleasesUnsigned ==
    ASSUME X402Inv, Sole, ~stalls, [Next]_vars, NEW t \in sent,
           rows[t.payment].reservation = "HELD"
    PROVE  rows'[t.payment].reservation # "RELEASED"
<1> DEFINE p == t.payment
<1>1. p \in Payments /\ rows \in [Payments -> Row] /\ rows[p].signed
  BY DEF X402Inv
<1>2. ASSUME NEW q \in Payments, NEW r, rows' = [rows EXCEPT ![q] = r],
             r.reservation = rows[q].reservation
      PROVE  rows'[p].reservation = "HELD"
  BY <1>1, <1>2
<1>3. CASE rows' = rows
  BY <1>3
<1>4. ASSUME NEW q \in Payments, CreatePayment(q)
      PROVE  rows'[p].reservation # "RELEASED"
  <2>1. rows[q].status = "ABSENT" /\ RowOK(q, rows[q])
    BY <1>4 DEF CreatePayment, X402Inv
  <2>2. ~rows[q].signed
    <3>1. rows[q] = NoRow
      BY <2>1 DEF RowOK
    <3>2. NoRow.signed = FALSE
      BY SMTT(30) DEF NoRow
    <3> QED
      BY <3>1, <3>2
  <2>3. q # p
    BY <1>1, <2>2
  <2> QED
    BY <1>1, <1>4, <2>3 DEF CreatePayment
<1>5. ASSUME NEW r \in Row PROVE Reviewed(r).reservation = r.reservation
  BY DEF Reviewed, Row
<1>6. ASSUME NEW q \in Payments, rows' = [rows EXCEPT ![q] = Reviewed(@)]
      PROVE  rows'[p].reservation # "RELEASED"
  BY <1>1, <1>5, <1>6
<1>7. ASSUME NEW w \in Workers, FinalizeWrite(w)
      PROVE  rows'[p].reservation # "RELEASED"
  <2>1. workers[w].pc = "finalizeWrite" /\ workers[w].p \in Payments
        /\ LocalOK(workers[w], rows[workers[w].p])
    BY <1>7, Present DEF FinalizeWrite, At
  <2>2. CASE workers[w].p # p
    BY <1>1, <1>7, <2>2 DEF FinalizeWrite
  <2>3. CASE workers[w].p = p
    <3>1. workers[w].goal # "FAILED"
      BY <1>1, <2>1, <2>3 DEF Sole, Busy
    <3>2. workers[w].goal = "CONFIRMED"
      BY <2>1, <3>1 DEF LocalOK
    <3> QED
      BY <1>1, <1>7, <2>3, <3>2 DEF FinalizeWrite, Row
  <2> QED
    BY <2>2, <2>3
<1>8. ASSUME NEW w \in Workers,
             \/ PersistPrepared(w) \/ Sign(w) \/ Recheck(w)
             \/ UpdateAttemptOutcome(w) \/ UpdatePaymentExecution(w)
      PROVE  rows'[p].reservation # "RELEASED"
  <2>1. workers[w].p \in Payments
    BY <1>8, Present DEF PersistPrepared, Sign, Recheck, UpdateAttemptOutcome,
                         UpdatePaymentExecution, At
  <2>2. rows[workers[w].p] \in Row
    BY <1>1, <2>1
  <2>3. CASE PersistPrepared(w)
    BY SMTT(30), <1>1, <2>1, <2>2, <2>3 DEF PersistPrepared, Row
  <2>4. CASE Sign(w)
    BY SMTT(30), <1>1, <2>1, <2>2, <2>4 DEF Sign, Row
  <2>5. CASE Recheck(w)
    BY SMTT(30), <1>1, <2>1, <2>2, <2>5 DEF Recheck, Row
  <2>6. CASE UpdateAttemptOutcome(w)
    BY SMTT(30), <1>1, <2>1, <2>2, <2>6 DEF UpdateAttemptOutcome, Row
  <2>7. CASE UpdatePaymentExecution(w)
    BY SMTT(30), <1>1, <2>1, <2>2, <2>7 DEF UpdatePaymentExecution, Row
  <2> QED
    BY <1>8, <2>3, <2>4, <2>5, <2>6, <2>7
<1>9. ASSUME NEW w \in Workers, GiveBack(w)
      PROVE  rows'[p].reservation # "RELEASED"
  <2>1. workers[w].p \in Payments
    BY <1>9, Present DEF GiveBack
  <2> QED
    BY <1>3, <1>6, <1>9, <2>1 DEF GiveBack
<1>10. ASSUME NEW w \in Workers, NEW q \in Payments, ClaimWorkItem(w, q)
       PROVE  rows'[p].reservation # "RELEASED"
  BY <1>3, <1>6, <1>10 DEF ClaimWorkItem
<1>11. CASE \/ ChangeOffer \/ (\E u \in sent : Progress(u)) \/ UNCHANGED vars
            \/ \E q \in Payments : Discover(q) \/ LeaseExpires(q)
            \/ \E w \in Workers : \/ Prepare(w) \/ Send(w) \/ Answer(w) \/ Reconcile(w)
                                  \/ FinalizeCheck(w) \/ HandleFailure(w) \/ Crash(w)
  BY <1>3, <1>11 DEF ChangeOffer, Progress, Discover, LeaseExpires, vars, Prepare, Send, Answer,
                     Reconcile, FinalizeCheck, HandleFailure, Crash
<1> QED
  BY <1>4, <1>7, <1>8, <1>9, <1>10, <1>11 DEF Next

\* As long as no worker outlives its lease, a reservation that is held when the
\* signed transaction of its payment has left for the provider is never released:
\* handleFailure fails only an unsigned attempt, and the version check of
\* finalizeV2Payment refuses one signed since.
THEOREM SentStaysHeld == Spec => NoReleaseOnceSent
<1>1. X402Inv /\ Sole /\ [Next]_vars =>
        \A t \in sent : ~stalls /\ rows[t.payment].reservation = "HELD"
                            => rows'[t.payment].reservation # "RELEASED"
  BY ReleasesUnsigned
<1>2. X402Inv /\ Sole /\ [Next]_vars =>
        [\A t \in sent : ~stalls /\ rows[t.payment].reservation = "HELD"
                            => rows'[t.payment].reservation # "RELEASED"]_vars
  BY <1>1
<1> QED
  BY <1>2, X402InvAlways, SoleAlways, PTL DEF Spec, NoReleaseOnceSent
=============================================================================
